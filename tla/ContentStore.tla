---------------------------- MODULE ContentStore ----------------------------
(***************************************************************************)
(* What a content-addressed store promises the tool, with no files in it:  *)
(* an entry appears whole, in one step, and stays; a build is served its   *)
(* bytes only once they are there.                                         *)
(***************************************************************************)
CONSTANTS Builds, Hashes, Unserved

VARIABLES
  held,    \* the hashes whose bytes are stored
  served   \* what each build was given: the hash, or Unserved

TypeOK ==
  /\ held \subseteq Hashes
  /\ served \in [Builds -> Hashes \cup {Unserved}]

Init ==
  /\ held = {}
  /\ served = [b \in Builds |-> Unserved]

Store(h) ==
  /\ held' = held \cup {h}
  /\ UNCHANGED served

Serve(b, h) ==
  /\ h \in held
  /\ served[b] = Unserved
  /\ served' = [served EXCEPT ![b] = h]
  /\ UNCHANGED held

Forget(b) ==
  /\ served' = [served EXCEPT ![b] = Unserved]
  /\ UNCHANGED held

Next ==
  \/ \E h \in Hashes : Store(h)
  \/ \E b \in Builds : Forget(b) \/ \E h \in Hashes : Serve(b, h)

Spec == Init /\ [][Next]_<<held, served>>
=============================================================================
