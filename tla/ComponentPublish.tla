-------------------------- MODULE ComponentPublish --------------------------
(***************************************************************************)
(* ComponentPublisher.publish_component (component_publisher.py): several    *)
(* publishers of one owner, each with a version of the same component, check *)
(* the published versions, check them again, create theirs and deprecate the *)
(* older ones, against a registry whose reads and writes may fail and whose  *)
(* answers may be lost.                                                      *)
(*                                                                          *)
(* A row of the registry is named by its digest.  The digest fixes the text  *)
(* and so the version, which is why the reads of one check (a list, then a   *)
(* spec per row) are one step.  Versions are numbers in their order.         *)
(***************************************************************************)
EXTENDS Integers

CONSTANTS
  Publishers,
  Digests,
  NoDigest,
  MaxVersion,      \* bound: versions are 1..MaxVersion
  Downgraders      \* the publishers with --allow-downgrade

ASSUME PublishConstantsOK ==
  /\ NoDigest \notin Digests
  /\ MaxVersion \in Nat
  /\ Downgraders \subseteq Publishers

VARIABLES
  batch,      \* the publishers run one at a time, as publish_components does
  version,    \* digest -> its version
  digest,     \* publisher -> the digest of what it publishes; NoDigest: it has no version
  row,        \* digest -> "none", "live" or "deprecated"
  successor,  \* digest -> superseded_by
  phase,         \* publisher -> "start", "checked", "create", "deprecate", "done"
  todo,       \* publisher -> deprecation_candidates still to be updated
  failed,     \* publisher -> candidates whose update failed
  outcome,    \* publisher -> "none", "success", "skip" or "error"
  pin         \* publisher -> resolved_digest

registry == <<row, successor>>
publishVars == <<batch, version, digest, registry, phase, todo, failed, outcome, pin>>

Versions == 1..MaxVersion
Live == {d \in Digests : row[d] = "live"}
Local(p) == version[digest[p]]

PublishInit ==
  /\ batch \in BOOLEAN
  /\ version \in [Digests -> Versions]
  /\ digest \in [Publishers -> Digests \cup {NoDigest}]
  /\ row \in [Digests -> {"none", "live"}]
  /\ successor = [d \in Digests |-> NoDigest]
  /\ phase = [p \in Publishers |-> "start"]
  /\ todo = [p \in Publishers |-> {}]
  /\ failed = [p \in Publishers |-> {}]
  /\ outcome = [p \in Publishers |-> "none"]
  /\ pin = [p \in Publishers |-> NoDigest]

Goes(p, from, to) == phase[p] = from /\ phase' = [phase EXCEPT ![p] = to]

Ends(p, from, how, d) == /\ Goes(p, from, "done")
                         /\ outcome' = [outcome EXCEPT ![p] = how]
                         /\ pin' = [pin EXCEPT ![p] = d]

Publishing(p) == phase[p] \notin {"start", "done"}
MayRun(p) == batch => \A q \in Publishers \ {p} : ~Publishing(q)

-----------------------------------------------------------------------------
(* The policy, given the live rows whose version could be read. *)

Latest(seen) == {d \in seen : \A e \in seen : version[e] <= version[d]}

CompleteIfAny(seen) == seen = {} => Live = {}  \* mutant: some rows are enough
Complete(seen) == seen = Live

OneLatest(seen) == \A d, e \in Latest(seen) : d = e

Newer(p, seen) ==
  \/ \A d \in seen : version[d] < Local(p)
  \/ p \in Downgraders /\ \A d \in Latest(seen) : version[d] # Local(p)

Proceeds(p, seen) == Complete(seen) /\ OneLatest(seen) /\ Newer(p, seen)

StopsPinningAny(p, from, seen) ==  \* mutant: not the latest row is pinned
  \/ ~(Complete(seen) /\ OneLatest(seen)) /\ Ends(p, from, "error", NoDigest)
  \/ /\ Complete(seen) /\ OneLatest(seen) /\ ~Newer(p, seen)
     /\ \E d \in seen : Ends(p, from, "skip", d)

(* A skip pins the latest row, an error nothing. *)
Stops(p, from, seen) ==
  \/ ~(Complete(seen) /\ OneLatest(seen)) /\ Ends(p, from, "error", NoDigest)
  \/ /\ Complete(seen) /\ OneLatest(seen) /\ ~Newer(p, seen)
     /\ \E d \in Latest(seen) : Ends(p, from, "skip", d)

-----------------------------------------------------------------------------
(* The rows cannot be listed, or the process is stopped.  It may be run again. *)
Abort(p) == /\ \E from \in {"start", "checked", "create", "deprecate"} :
                 Ends(p, from, "error", NoDigest)
            /\ UNCHANGED <<batch, version, digest, registry, todo, failed>>

Rerun(p) == /\ outcome[p] = "error" /\ Goes(p, "done", "start")
            /\ outcome' = [outcome EXCEPT ![p] = "none"]
            /\ todo' = [todo EXCEPT ![p] = {}]
            /\ failed' = [failed EXCEPT ![p] = {}]
            /\ UNCHANGED <<batch, version, digest, registry, pin>>

(* What has no version is skipped before anything is read. *)
SkipUnversioned(p) ==
  /\ MayRun(p) /\ digest[p] = NoDigest
  /\ Ends(p, "start", "skip", NoDigest)
  /\ UNCHANGED <<batch, version, digest, registry, todo, failed>>

(* perform_version_check *)
Check(p, seen) ==
  /\ MayRun(p) /\ digest[p] # NoDigest
  /\ \/ /\ Proceeds(p, seen) /\ Goes(p, "start", "checked")
        /\ UNCHANGED <<outcome, pin>>
     \/ Stops(p, "start", seen)
  /\ UNCHANGED <<batch, version, digest, registry, todo, failed>>

OthersThan(p, seen) == seen \ {digest[p]}  \* mutant: newer rows, too
OlderThan(p, seen) == {d \in seen : version[d] < Local(p)}

(* The refreshed check decides, and yields what is to be deprecated. *)
Recheck(p, seen) ==
  /\ phase[p] = "checked"
  /\ \/ /\ Proceeds(p, seen) /\ Goes(p, "checked", "create")
        /\ todo' = [todo EXCEPT ![p] = OlderThan(p, seen)]
        /\ UNCHANGED <<outcome, pin>>
     \/ Stops(p, "checked", seen) /\ todo' = todo
  /\ UNCHANGED <<batch, version, digest, registry, failed>>

(* What a create leaves of its row; the digest of a deprecated row may be    *)
(* created again.                                                            *)
Created(d) == \/ row' = [row EXCEPT ![d] = "live"]
              \/ row[d] = "deprecated" /\ row' = row

Create(p) ==
  /\ Goes(p, "create", "deprecate")
  /\ Created(digest[p])
  /\ UNCHANGED <<batch, version, digest, successor, todo, failed, outcome, pin>>

(* The request fails, or its answer is lost or has no digest. *)
CreateFails(p) ==
  /\ Ends(p, "create", "error", NoDigest)
  /\ Created(digest[p]) \/ row' = row
  /\ UNCHANGED <<batch, version, digest, successor, todo, failed>>

Deprecated(p, d) == /\ row' = [row EXCEPT ![d] = "deprecated"]
                    /\ successor' = [successor EXCEPT ![d] = digest[p]]

Deprecate(p, d) ==
  /\ phase[p] = "deprecate" /\ d \in todo[p]
  /\ todo' = [todo EXCEPT ![p] = @ \ {d}]
  /\ Deprecated(p, d)
  /\ UNCHANGED <<batch, version, digest, phase, failed, outcome, pin>>

(* A failed update is logged and the next one is tried. *)
DeprecateFails(p, d) ==
  /\ phase[p] = "deprecate" /\ d \in todo[p]
  /\ todo' = [todo EXCEPT ![p] = @ \ {d}]
  /\ failed' = [failed EXCEPT ![p] = @ \cup {d}]
  /\ Deprecated(p, d) \/ UNCHANGED registry
  /\ UNCHANGED <<batch, version, digest, phase, outcome, pin>>

Succeed(p) == /\ todo[p] = {}
              /\ Ends(p, "deprecate", "success", digest[p])
              /\ UNCHANGED <<batch, version, digest, registry, todo, failed>>

PublishNext ==
  \E p \in Publishers :
    \/ \E seen \in SUBSET Live : Check(p, seen) \/ Recheck(p, seen)
    \/ SkipUnversioned(p) \/ Create(p) \/ CreateFails(p)
    \/ \E d \in todo[p] : Deprecate(p, d) \/ DeprecateFails(p, d)
    \/ Succeed(p) \/ Abort(p) \/ Rerun(p)

Done == /\ \A p \in Publishers : outcome[p] \in {"success", "skip"}
        /\ UNCHANGED publishVars

PublishSpec == PublishInit /\ [][PublishNext \/ Done]_publishVars

-----------------------------------------------------------------------------
(* The state has its types. *)
PublishTypeOK ==
  /\ batch \in BOOLEAN
  /\ version \in [Digests -> Versions]
  /\ digest \in [Publishers -> Digests \cup {NoDigest}]
  /\ row \in [Digests -> {"none", "live", "deprecated"}]
  /\ successor \in [Digests -> Digests \cup {NoDigest}]
  /\ phase \in [Publishers -> {"start", "checked", "create", "deprecate", "done"}]
  /\ todo \in [Publishers -> SUBSET Digests]
  /\ failed \in [Publishers -> SUBSET Digests]
  /\ outcome \in [Publishers -> {"none", "success", "skip", "error"}]
  /\ pin \in [Publishers -> Digests \cup {NoDigest}]

Published(d) == row[d] # "none"

(* A row is only ever deprecated in favour of a newer one that exists, with   *)
(* any number of publishers at work, whichever of their requests fail: the   *)
(* links from deprecated rows never form a cycle and never lead nowhere.     *)
SupersededByNewer ==
  \A d \in Digests :
    row[d] = "deprecated" =>
      /\ successor[d] \in Digests
      /\ Published(successor[d])
      /\ version[successor[d]] > version[d]

(* No interleaving of publishers deprecates the newest version there is: for *)
(* whatever was published, a row as new is still live.                       *)
NewestStaysLive ==
  \A d \in Digests : Published(d) => \E e \in Live : version[e] >= version[d]

(* However publishers interleave, what the registry offers stays current.     *)
RegistryStaysCurrent == SupersededByNewer /\ NewestStaysLive

(* "The digest to pin, whatever happened": it exists, and it is not older    *)
(* than what the caller wanted to publish; without a version there is none.  *)
PinsAreCurrent ==
  \A p \in Publishers :
    outcome[p] \in {"success", "skip"} =>
      IF digest[p] = NoDigest THEN outcome[p] = "skip" /\ pin[p] = NoDigest
      ELSE /\ pin[p] \in Digests /\ Published(pin[p])
           /\ version[pin[p]] >= Local(p)

(* In a batch, publishers only add rows that are newer than every live one,  *)
(* even if reads fail: a row that could not be read may be newer.            *)
Creates(p) == p \notin Downgraders /\ phase[p] = "create" /\ phase'[p] # "create"
PublishesNewer ==
  [][\A p \in Publishers : batch /\ Creates(p) =>
       \A d \in Live : version[d] < Local(p)]_publishVars

(* "Never publishes an older version" (perform_version_check), whoever else  *)
(* publishes at the same time.                                               *)
NeverOlder ==
  [][\A p \in Publishers : Creates(p) =>
       \A d \in Live : version[d] <= Local(p)]_publishVars
=============================================================================
