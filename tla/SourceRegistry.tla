------------------------------ MODULE SourceRegistry ------------------------------
(***************************************************************************)
(* The registry of sources, infrastructure/sources/registry.py, and the    *)
(* evidence of their reviews, infrastructure/sources/reviews.py: which     *)
(* definitions load, what the local override file may change of them, and  *)
(* when a review covers a definition.                                      *)
(*                                                                         *)
(* A definition keeps the fields a decision depends on.  network: its type *)
(* is RSS, Atom or documented JSON.  endpoint: host of base_url or of the  *)
(* endpoint template.  parameters: it needs the SEC prerequisites.         *)
(* evidence: the source whose review it names.                             *)
(***************************************************************************)
EXTENDS FiniteSets

CONSTANTS SourceIds, RegistryHosts

Definitions ==
    [id : SourceIds, network : BOOLEAN, approved : BOOLEAN, enabled : BOOLEAN,
     reviewer : BOOLEAN, endpoint : RegistryHosts, hosts : SUBSET RegistryHosts,
     parameters : BOOLEAN, evidence : SourceIds]

Decisions == {"approved", "rejected", "needs_review", "suspended"}

\* digest: the hashed fields as they were when the review was made.
\* patterns: hosts whose endpoints match the documented patterns.
Digests == [endpoint : RegistryHosts, hosts : SUBSET RegistryHosts]
Reviews == [id : SourceIds, decision : Decisions, hosts : SUBSET RegistryHosts,
            patterns : SUBSET RegistryHosts, digest : Digests]

\* A local override file: absent, not acceptable, or a list of items.
OverrideItem == [source : SourceIds, enabled : BOOLEAN]
NoFile == [kind |-> "absent", items |-> <<>>]
MalformedFile == [kind |-> "malformed", items |-> <<>>]
ListFile(items) == [kind |-> "list", items |-> items]

\* SourceDefinitionConfig: the rules of one definition.
ValidDefinition(d) ==
    /\ d.network => d.endpoint \in d.hosts
    /\ d.enabled => d.approved
    /\ d.approved => d.reviewer

\* The definitions of all files; one invalid or repeated, and nothing loads.
Loadable(defs) ==
    /\ \A d \in defs : ValidDefinition(d)
    /\ \A d, e \in defs : d.id = e.id => d = e

\* Mutant: an override may enable a source nobody approved.
OverridesAllowedForAny(defs, items) ==
    \A i \in DOMAIN items : items[i].source \in {d.id : d \in defs}

\* An override names known sources, each once, and enables approved ones only.
OverridesAllowed(defs, items) ==
    /\ \A i, j \in DOMAIN items : items[i].source = items[j].source => i = j
    /\ \A i \in DOMAIN items :
          \E d \in defs : /\ d.id = items[i].source
                          /\ items[i].enabled => d.approved

Overridden(d, items) == \E i \in DOMAIN items : items[i].source = d.id
EnabledBy(d, items) ==
    \/ \E i \in DOMAIN items : items[i].source = d.id /\ items[i].enabled
    \/ ~Overridden(d, items) /\ d.enabled
WithOverrides(defs, items) ==
    {[d EXCEPT !.enabled = EnabledBy(d, items)] : d \in defs}

\* What the smoke gate reads of the override file, with none of these rules.
LocallyEnabled(file) ==
    {s \in SourceIds : \E i \in DOMAIN file.items :
                           file.items[i].source = s /\ file.items[i].enabled}

\* source_config_digest; a hash is taken to be injective.
SourceConfigDigest(d) == [endpoint |-> d.endpoint, hosts |-> d.hosts]

\* The review of an approved network source names it, approves it, was made of
\* the definition as it is now, and covers its hosts and its endpoint.
ReviewCovers(d, r) ==
    /\ r.id = d.evidence /\ r.id = d.id
    /\ r.decision = "approved"
    /\ r.digest = SourceConfigDigest(d)
    /\ d.hosts \subseteq r.hosts
    /\ d.endpoint \in r.patterns

\* validate_source_review_integrity([source], [review]).
ReviewIntegrity(d, r) == d.network /\ d.approved => ReviewCovers(d, r)
=============================================================================
