------------------------------- MODULE ComposeEdit -------------------------------
(***************************************************************************)
(* The changes the compose editor makes to a document                      *)
(* (internal/composeeditor).  A document is its services, each with those  *)
(* it depends on; the other keys of a service are set or removed without   *)
(* a look at anything else and are left out.  An operator gives the set of *)
(* documents an edit may lead to; a change that is refused gives Refused.  *)
(***************************************************************************)
EXTENDS Naturals, Sequences, FiniteSets, Functions, SequencesExt

\* The part of ComposeChanges that is about services and what they depend on.
NoChanges == [dependsOn |-> <<>>, rename |-> <<>>, delete |-> {}, add |-> {}]

Refused == [ok |-> FALSE, services |-> <<>>]
Document(services) == [ok |-> TRUE, services |-> services]

applyServiceChangesToYaml(services, dependsOn) ==
    IF DOMAIN dependsOn \subseteq DOMAIN services
    THEN Document([s \in DOMAIN services |->
                       IF s \in DOMAIN dependsOn THEN dependsOn[s] ELSE services[s]])
    ELSE Refused

Renamed(n, old, new) == IF n = old THEN new ELSE n

\* One entry of renames: the key, then every depends_on that names it.
RenameOne(services, old, new) ==
    IF old \in DOMAIN services /\ new \notin DOMAIN services
    THEN Document([s \in {Renamed(n, old, new) : n \in DOMAIN services} |->
                       {Renamed(d, old, new) : d \in services[IF s = new THEN old ELSE s]}])
    ELSE Refused

RenameNext(doc, old, new) == IF doc.ok THEN RenameOne(doc.services, old, new) ELSE doc

(***************************************************************************)
(* The renames are a map, and are taken one by one in any order: the       *)
(* documents there may be when those in "done" have been taken.            *)
(***************************************************************************)
applyRenameServicesToYaml(services, renames) ==
    LET documents[done \in SUBSET DOMAIN renames] ==
            IF done = {} THEN {Document(services)}
            ELSE UNION { { RenameNext(doc, old, renames[old]) : doc \in documents[done \ {old}] } :
                             old \in done }
    IN  documents[DOMAIN renames]

applyDeleteServicesToYaml(services, deletes) ==
    Restrict(services, DOMAIN services \ deletes)

applyAddServicesToYaml(services, adds) ==
    IF adds \cap DOMAIN services = {}
    THEN Document([s \in DOMAIN services \cup adds |->
                       IF s \in adds THEN {} ELSE services[s]])
    ELSE Refused

\* applyChangesToYaml: the changes in their fixed order, up to the first refusal.
applyChangesToYaml(services, changes) ==
    LET changed == applyServiceChangesToYaml(services, changes.dependsOn)
        renamed == IF changed.ok
                   THEN applyRenameServicesToYaml(changed.services, changes.rename)
                   ELSE {Refused}
    IN  { IF doc.ok
          THEN applyAddServicesToYaml(applyDeleteServicesToYaml(doc.services, changes.delete),
                                      changes.add)
          ELSE Refused : doc \in renamed }

(***************************************************************************)
(* What the loader of validateComposeYaml refuses of it: a dependency on   *)
(* a service that is not there, and a cycle.                               *)
(***************************************************************************)
Consistent(services) ==
    LET Closed(S) == S # {} /\ \A s \in S : services[s] \cap S # {}
    IN  /\ \A s \in DOMAIN services : services[s] \subseteq DOMAIN services
        /\ \A S \in SUBSET DOMAIN services : ~Closed(S)
--------------------------------------------------------------------------------
(***************************************************************************)
(* Reference: what the changes mean, said at once.  All services that are  *)
(* renamed change their names at the same time.                            *)
(***************************************************************************)
NewName(changes, n) == IF n \in DOMAIN changes.rename THEN changes.rename[n] ELSE n

Meaning(services, changes) ==
    LET kept == { n \in DOMAIN services : NewName(changes, n) \notin changes.delete }
        DependsOn(n) == IF n \in DOMAIN changes.dependsOn THEN changes.dependsOn[n]
                                                          ELSE services[n]
    IN  [s \in { NewName(changes, n) : n \in kept } \cup changes.add |->
             IF s \in changes.add THEN {}
             ELSE { NewName(changes, d) :
                        d \in DependsOn(CHOOSE n \in kept : NewName(changes, n) = s) }]
================================================================================
