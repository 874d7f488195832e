-------------------------- MODULE EditorSessionProofs --------------------------
(***************************************************************************)
(* What the editor and the language server agree on, for every set of      *)
(* documents and every length of both streams: DocumentsFollow from        *)
(* Following, NoEditAfterShutdown from Closing, SquigglesAreCurrent from   *)
(* Texted and Drawing, and RenameBreaksNothing from Renaming and Unspent   *)
(* and from CleanStays, which is about one set of texts and no session.    *)
(***************************************************************************)
EXTENDS EditorSessions, FiniteSetTheorems, SequenceTheorems, TLAPS

IsSeq(s) == \E S : s \in Seq(S)

\* The four ways a stream changes: a message at its end, its oldest message
\* taken, several messages at its end, and the messages themselves.
LEMMA Appended ==
    ASSUME NEW s, NEW e, IsSeq(s)
    PROVE  /\ IsSeq(Append(s, e)) /\ Len(s) \in Nat
           /\ Len(Append(s, e)) = Len(s) + 1
           /\ \A i \in 1..Len(s) : Append(s, e)[i] = s[i]
           /\ Append(s, e)[Len(s) + 1] = e
<1>1. PICK S : s \in Seq(S)
  BY DEF IsSeq
<1>2. s \in Seq(S \cup {e}) /\ e \in S \cup {e}
  <2>1. Len(s) \in Nat /\ s \in [1..Len(s) -> S]
    BY <1>1
  <2>2. s \in [1..Len(s) -> S \cup {e}]
    BY <2>1
  <2> QED BY <2>1, <2>2, SeqDef
<1> DEFINE T == S \cup {e}
<1>3. s \in Seq(T) /\ e \in T
  BY <1>2
<1> HIDE DEF T
<1>4. Append(s, e) \in Seq(T)
  BY <1>3
<1> QED BY <1>3, <1>4 DEF IsSeq

LEMMA Removed ==
    ASSUME NEW s, IsSeq(s), s # <<>>
    PROVE  /\ IsSeq(Tail(s)) /\ Len(s) \in Nat /\ Len(s) > 0
           /\ Len(Tail(s)) = Len(s) - 1
           /\ \A i \in 1..(Len(s) - 1) : Tail(s)[i] = s[i + 1]
           /\ Head(s) = s[1]
<1>1. PICK S : s \in Seq(S)
  BY DEF IsSeq
<1>2. Tail(s) \in Seq(S) /\ Len(Tail(s)) = Len(s) - 1 /\ Len(s) \in Nat /\ Len(s) > 0
  BY <1>1, HeadTailProperties
<1>3. \A i \in 1..(Len(s) - 1) : Tail(s)[i] = s[i + 1]
  BY <1>1, <1>2
<1>4. Head(s) = s[1]
  BY <1>1
<1> QED BY <1>2, <1>3, <1>4 DEF IsSeq

\* The same, written so that the provers leave it alone.
Join(s, t) == s \o t

LEMMA Joined ==
    ASSUME NEW s, NEW t, IsSeq(s), IsSeq(t)
    PROVE  /\ IsSeq(Join(s, t)) /\ Len(s) \in Nat /\ Len(t) \in Nat
           /\ Len(Join(s, t)) = Len(s) + Len(t)
           /\ \A i \in 1..Len(s) : Join(s, t)[i] = s[i]
           /\ \A i \in 1..Len(t) : Join(s, t)[Len(s) + i] = t[i]
<1>1. PICK S : s \in Seq(S)
  BY DEF IsSeq
<1>2. PICK T : t \in Seq(T)
  BY DEF IsSeq
<1> DEFINE U == S \cup T
<1>3. s \in Seq(U) /\ t \in Seq(U)
  <2>1. Len(s) \in Nat /\ s \in [1..Len(s) -> S] /\ Len(t) \in Nat /\ t \in [1..Len(t) -> T]
    BY <1>1, <1>2
  <2>2. s \in [1..Len(s) -> U] /\ t \in [1..Len(t) -> U]
    BY <2>1
  <2> QED BY <2>1, <2>2, SeqDef
<1> HIDE DEF U
<1> DEFINE r == Join(s, t)
<1>4. /\ r \in Seq(U) /\ Len(s) \in Nat /\ Len(t) \in Nat
      /\ Len(r) = Len(s) + Len(t)
      /\ \A i \in 1..Len(s) + Len(t) :
            r[i] = IF i <= Len(s) THEN s[i] ELSE t[i - Len(s)]
  BY <1>3, ConcatProperties DEF Join
<1> HIDE DEF r
<1>5. \A i \in 1..Len(s) : r[i] = s[i]
  BY <1>4
<1>6. \A i \in 1..Len(t) : r[Len(s) + i] = t[i]
  <2> SUFFICES ASSUME NEW i \in 1..Len(t) PROVE r[Len(s) + i] = t[i]
    OBVIOUS
  <2>1. Len(s) + i \in 1..Len(s) + Len(t) /\ ~(Len(s) + i <= Len(s)) /\ Len(s) + i - Len(s) = i
    BY <1>4
  <2> QED BY <1>4, <2>1
<1>7. IsSeq(r)
  BY <1>4 DEF IsSeq
<1> QED BY <1>4, <1>5, <1>6, <1>7 DEF r

LEMMA JoinedAs ==
    ASSUME NEW s, NEW t, NEW r, IsSeq(s), IsSeq(t), r = Join(s, t)
    PROVE  /\ IsSeq(r) /\ Len(s) \in Nat /\ Len(r) = Len(s) + Len(t)
           /\ \A i \in 1..Len(s) : r[i] = s[i]
           /\ \A i \in 1..Len(t) : r[Len(s) + i] = t[i]
BY Joined

LEMMA Written ==
    ASSUME NEW n \in Nat, NEW f, f = [i \in 1..n |-> f[i]]
    PROVE  IsSeq(f) /\ Len(f) = n
<1>1. f \in [1..n -> {f[i] : i \in 1..n}]
  OBVIOUS
<1>2. f \in Seq({f[i] : i \in 1..n})
  BY <1>1, SeqDef
<1>3. Len(f) = n
  BY <1>1, <1>2
<1> QED BY <1>2, <1>3 DEF IsSeq

\* A listing is written over one to its length, leaves nothing out and says
\* nothing twice.
LEMMA Listed ==
    ASSUME NEW S, IsFiniteSet(S), NEW order \in Listings(S)
    PROVE  \E n \in Nat : /\ DOMAIN order = 1..n
                          /\ \A i \in 1..n : order[i] \in S
                          /\ \A x \in S : \E i \in 1..n : order[i] = x
                          /\ \A i, j \in 1..n : order[i] = order[j] => i = j
<1> DEFINE n == Cardinality(S)
<1>1. n \in Nat
  BY FS_CardinalityType
<1> HIDE DEF n
<1>2. order \in [1..n -> S] /\ \A x \in S : \E i \in 1..n : order[i] = x
  BY DEF Listings, n
<1>3. IsFiniteSet(1..n) /\ Cardinality(1..n) = n
  BY <1>1, FS_Interval
<1>4. order \in Surjection(1..n, S)
  BY <1>2 DEF Surjection
<1>5. order \in Injection(1..n, S)
  BY <1>3, <1>4, FS_SurjSameCardinalityImpliesInj DEF n
<1>6. \A i, j \in 1..n : order[i] = order[j] => i = j
  BY <1>2, <1>5 DEF Injection, IsInjective
<1> QED BY <1>1, <1>2, <1>6

(***************************************************************************)
(* The server ends up with the text the editor shows.  A close carries the *)
(* text Closed, which is what the server takes it for.                     *)
(***************************************************************************)
Following ==
    /\ IsSeq(outbox)
    /\ buffer = [u \in Uris |-> buffer[u]]
    /\ documents = [u \in Uris |-> documents[u]]
    /\ \A i \in DOMAIN outbox :
          outbox[i].method = "didClose" => outbox[i].text = Closed
    /\ DocumentsFollow

\* A message that changes no text.
SaysNothing(m) == m.method \notin Notifications

LEMMA FollowsNews ==
    ASSUME Following, NEW m, outbox' = Append(outbox, m), SaysNothing(m),
           UNCHANGED <<buffer, documents>>
    PROVE  Following'
<1>1. /\ IsSeq(outbox') /\ Len(outbox) \in Nat
      /\ Len(outbox') = Len(outbox) + 1
      /\ \A i \in 1..Len(outbox) : outbox'[i] = outbox[i]
      /\ outbox'[Len(outbox) + 1] = m
  BY Appended DEF Following
<1>2. DOMAIN outbox = 1..Len(outbox) /\ DOMAIN outbox' = 1..(Len(outbox) + 1)
  BY <1>1 DEF Following, IsSeq
<1>3. \A i \in DOMAIN outbox' :
          outbox'[i].method = "didClose" => outbox'[i].text = Closed
  BY <1>1, <1>2 DEF Following, SaysNothing, Notifications
<1>4. \A u \in Uris : Unheard(u)' = Unheard(u)
  BY <1>1, <1>2 DEF Unheard, SaysNothing
<1>5. DocumentsFollow'
  <2> SUFFICES ASSUME NEW u \in Uris
               PROVE  IF Unheard(u)' = {} THEN documents'[u] = buffer'[u]
                      ELSE \E i \in Unheard(u)' : /\ \A j \in Unheard(u)' : j <= i
                                                  /\ outbox'[i].text = buffer'[u]
    BY DEF DocumentsFollow
  <2>1. \A i \in Unheard(u) : outbox'[i] = outbox[i]
    BY <1>1, <1>2 DEF Unheard
  <2> QED BY <1>4, <2>1 DEF Following, DocumentsFollow
<1> QED BY <1>1, <1>3, <1>5 DEF Following

LEMMA FollowsText ==
    ASSUME Following, NEW method \in Notifications, NEW v \in Uris, NEW t,
           method = "didClose" => t = Closed,
           outbox' = Append(outbox, About(method, v, t)),
           buffer' = [buffer EXCEPT ![v] = t], UNCHANGED documents
    PROVE  Following'
<1> DEFINE m == About(method, v, t)
<1>0. m.method = method /\ m.uri = v /\ m.text = t
  BY DEF About
<1>9. outbox' = Append(outbox, m)
  OBVIOUS
<1> HIDE DEF m
<1>1. /\ IsSeq(outbox') /\ Len(outbox) \in Nat
      /\ Len(outbox') = Len(outbox) + 1
      /\ \A i \in 1..Len(outbox) : outbox'[i] = outbox[i]
      /\ outbox'[Len(outbox) + 1] = m
  BY <1>9, Appended DEF Following
<1>2. DOMAIN outbox = 1..Len(outbox) /\ DOMAIN outbox' = 1..(Len(outbox) + 1)
  BY <1>1 DEF Following, IsSeq
<1>3. \A i \in DOMAIN outbox' :
          outbox'[i].method = "didClose" => outbox'[i].text = Closed
  BY <1>1, <1>2, <1>0 DEF Following
<1>4. DocumentsFollow'
  <2> SUFFICES ASSUME NEW u \in Uris
               PROVE  IF Unheard(u)' = {} THEN documents'[u] = buffer'[u]
                      ELSE \E i \in Unheard(u)' : /\ \A j \in Unheard(u)' : j <= i
                                                  /\ outbox'[i].text = buffer'[u]
    BY DEF DocumentsFollow
  <2>1. CASE u = v
    <3>1. Len(outbox) + 1 \in Unheard(u)'
      BY <1>1, <1>2, <1>0, <2>1 DEF Unheard
    <3>2. \A j \in Unheard(u)' : j <= Len(outbox) + 1
      BY <1>1, <1>2 DEF Unheard
    <3>3. buffer'[u] = t
      BY <2>1 DEF Following
    <3> QED BY <1>1, <1>0, <3>1, <3>2, <3>3
  <2>2. CASE u # v
    <3>1. Unheard(u)' = Unheard(u)
      BY <1>1, <1>2, <1>0, <2>2 DEF Unheard
    <3>2. \A i \in Unheard(u) : outbox'[i] = outbox[i]
      BY <1>1, <1>2 DEF Unheard
    <3>3. buffer'[u] = buffer[u] /\ documents'[u] = documents[u]
      BY <2>2 DEF Following
    <3>4. IF Unheard(u) = {} THEN documents[u] = buffer[u]
          ELSE \E i \in Unheard(u) : /\ \A j \in Unheard(u) : j <= i
                                    /\ outbox[i].text = buffer[u]
      BY DEF Following, DocumentsFollow
    <3> QED BY <3>1, <3>2, <3>3, <3>4
  <2> QED BY <2>1, <2>2
<1>5. buffer' = [u \in Uris |-> buffer'[u]]
  BY DEF Following
<1> QED BY <1>1, <1>3, <1>4, <1>5 DEF Following

\* The server takes a message that changes no text.
LEMMA FollowsTaken ==
    ASSUME Following, outbox # <<>>, SaysNothing(Head(outbox)),
           outbox' = Tail(outbox), UNCHANGED <<buffer, documents>>
    PROVE  Following'
<1>1. /\ IsSeq(outbox') /\ Len(outbox) \in Nat /\ Len(outbox) > 0
      /\ Len(outbox') = Len(outbox) - 1
      /\ \A i \in 1..(Len(outbox) - 1) : outbox'[i] = outbox[i + 1]
      /\ Head(outbox) = outbox[1]
  BY Removed DEF Following
<1>2. DOMAIN outbox = 1..Len(outbox) /\ DOMAIN outbox' = 1..(Len(outbox) - 1)
  BY <1>1 DEF Following, IsSeq
<1>3. \A i \in DOMAIN outbox' :
          outbox'[i].method = "didClose" => outbox'[i].text = Closed
  BY <1>1, <1>2 DEF Following
<1>4. DocumentsFollow'
  <2> SUFFICES ASSUME NEW u \in Uris
               PROVE  IF Unheard(u)' = {} THEN documents'[u] = buffer'[u]
                      ELSE \E i \in Unheard(u)' : /\ \A j \in Unheard(u)' : j <= i
                                                  /\ outbox'[i].text = buffer'[u]
    BY DEF DocumentsFollow
  <2>1. \A i \in Unheard(u) : i \in 2..Len(outbox) /\ i - 1 \in Unheard(u)'
    BY <1>1, <1>2 DEF Unheard, SaysNothing
  <2>2. \A i \in Unheard(u)' : i \in Nat /\ i + 1 \in Unheard(u) /\ outbox'[i] = outbox[i + 1]
    BY <1>1, <1>2 DEF Unheard
  <2>3. CASE Unheard(u) = {}
    BY <2>2, <2>3 DEF Following, DocumentsFollow
  <2>4. CASE Unheard(u) # {}
    <3>1. PICK i \in Unheard(u) : /\ \A j \in Unheard(u) : j <= i
                                  /\ outbox[i].text = buffer[u]
      BY <2>4 DEF Following, DocumentsFollow
    <3>2. i - 1 \in Unheard(u)' /\ outbox'[i - 1] = outbox[i]
      BY <1>1, <2>1
    <3>3. \A j \in Unheard(u)' : j <= i - 1
      BY <2>1, <2>2, <3>1
    <3> QED BY <3>1, <3>2, <3>3
  <2> QED BY <2>3, <2>4
<1> QED BY <1>1, <1>3, <1>4 DEF Following

\* The server takes a message that changes one.
LEMMA FollowsHeard ==
    ASSUME Following, outbox # <<>>, Head(outbox).method \in Notifications,
           outbox' = Tail(outbox), UNCHANGED buffer,
           documents' = [documents EXCEPT ![Head(outbox).uri] = Head(outbox).text]
    PROVE  Following'
<1>1. /\ IsSeq(outbox') /\ Len(outbox) \in Nat /\ Len(outbox) > 0
      /\ Len(outbox') = Len(outbox) - 1
      /\ \A i \in 1..(Len(outbox) - 1) : outbox'[i] = outbox[i + 1]
      /\ Head(outbox) = outbox[1]
  BY Removed DEF Following
<1>2. DOMAIN outbox = 1..Len(outbox) /\ DOMAIN outbox' = 1..(Len(outbox) - 1)
  BY <1>1 DEF Following, IsSeq
<1>3. \A i \in DOMAIN outbox' :
          outbox'[i].method = "didClose" => outbox'[i].text = Closed
  BY <1>1, <1>2 DEF Following
<1>4. DocumentsFollow'
  <2> SUFFICES ASSUME NEW u \in Uris
               PROVE  IF Unheard(u)' = {} THEN documents'[u] = buffer'[u]
                      ELSE \E i \in Unheard(u)' : /\ \A j \in Unheard(u)' : j <= i
                                                  /\ outbox'[i].text = buffer'[u]
    BY DEF DocumentsFollow
  <2>1. \A i \in Unheard(u) \ {1} : i \in 2..Len(outbox) /\ i - 1 \in Unheard(u)'
    BY <1>1, <1>2 DEF Unheard
  <2>2. \A i \in Unheard(u)' : i \in 1..Len(outbox) - 1 /\ i + 1 \in Unheard(u)
                               /\ outbox'[i] = outbox[i + 1]
    BY <1>1, <1>2 DEF Unheard
  <2>3. 1 \in Unheard(u) <=> Head(outbox).uri = u
    BY <1>1, <1>2 DEF Unheard
  <2>4. CASE Unheard(u) = {}
    <3>1. documents'[u] = documents[u] /\ Unheard(u)' = {}
      BY <2>2, <2>3, <2>4 DEF Following
    <3> QED BY <2>4, <3>1 DEF Following, DocumentsFollow
  <2>5. CASE Unheard(u) # {}
    <3>1. PICK i \in Unheard(u) : /\ \A j \in Unheard(u) : j <= i
                                  /\ outbox[i].text = buffer[u]
      BY <2>5 DEF Following, DocumentsFollow
    <3>2. CASE i = 1
      <4>1. Unheard(u)' = {}
        BY <1>1, <2>2, <3>1, <3>2
      <4>2. documents'[u] = buffer[u]
        BY <1>1, <2>3, <3>1, <3>2 DEF Following
      <4> QED BY <4>1, <4>2
    <3>3. CASE i # 1
      <4>1. i - 1 \in Unheard(u)' /\ outbox'[i - 1] = outbox[i]
        BY <1>1, <2>1, <3>3
      <4>2. \A j \in Unheard(u)' : j <= i - 1
        BY <2>1, <2>2, <3>1, <3>3
      <4> QED BY <3>1, <4>1, <4>2
    <3> QED BY <3>2, <3>3
  <2> QED BY <2>4, <2>5
<1>5. documents' = [u \in Uris |-> documents'[u]]
  BY DEF Following
<1> QED BY <1>1, <1>3, <1>4, <1>5 DEF Following

\* A document nothing was said about keeps its last word.
LEMMA NothingNew ==
    ASSUME NEW u \in Uris, DocumentsFollow, Unheard(u)' = Unheard(u),
           \A i \in Unheard(u) : outbox'[i] = outbox[i],
           buffer'[u] = buffer[u], documents'[u] = documents[u]
    PROVE  IF Unheard(u)' = {} THEN documents'[u] = buffer'[u]
           ELSE \E i \in Unheard(u)' : /\ \A j \in Unheard(u)' : j <= i
                                       /\ outbox'[i].text = buffer'[u]
BY DEF DocumentsFollow

LEMMA AboutSays ==
    ASSUME NEW method, NEW u, NEW t
    PROVE  /\ About(method, u, t).method = method
           /\ About(method, u, t).uri = u /\ About(method, u, t).text = t
BY DEF About

\* Several changes at once, one for each of some documents.
TellsEach(n, open, order, texts) ==
    /\ \A i \in 1..n : order[i] \in open
    /\ \A x \in open : \E i \in 1..n : order[i] = x
    /\ \A i, j \in 1..n : order[i] = order[j] => i = j
    /\ Len(outbox) \in Nat /\ IsSeq(outbox') /\ Len(outbox') = Len(outbox) + n
    /\ \A i \in 1..Len(outbox) : outbox'[i] = outbox[i]
    /\ \A i \in 1..n : /\ outbox'[Len(outbox) + i].method = "didChange"
                       /\ outbox'[Len(outbox) + i].uri = order[i]
                       /\ outbox'[Len(outbox) + i].text = texts[order[i]]
    /\ \A u \in Uris : buffer'[u] = IF u \in open THEN texts[u] ELSE buffer[u]
    /\ buffer' = [u \in Uris |-> buffer'[u]] /\ documents' = documents

LEMMA FollowsChanges ==
    ASSUME Following, NEW open \in SUBSET Uris, NEW texts, NEW n \in Nat, NEW order,
           TellsEach(n, open, order, texts)
    PROVE  Following'
<1> USE DEF TellsEach
<1>1. /\ DOMAIN outbox = 1..Len(outbox) /\ DOMAIN outbox' = 1..(Len(outbox) + n)
  BY DEF Following, IsSeq
<1>2. \A i \in 1..(Len(outbox) + n) : i \notin 1..Len(outbox)
          => /\ i - Len(outbox) \in 1..n
             /\ outbox'[i].method = "didChange"
             /\ outbox'[i].uri = order[i - Len(outbox)]
             /\ outbox'[i].text = texts[order[i - Len(outbox)]]
  <2> SUFFICES ASSUME NEW i \in 1..(Len(outbox) + n), i \notin 1..Len(outbox)
               PROVE  /\ i - Len(outbox) \in 1..n
                      /\ outbox'[i].method = "didChange"
                      /\ outbox'[i].uri = order[i - Len(outbox)]
                      /\ outbox'[i].text = texts[order[i - Len(outbox)]]
    OBVIOUS
  <2>1. i - Len(outbox) \in 1..n /\ i = Len(outbox) + (i - Len(outbox))
    OBVIOUS
  <2> QED BY <2>1
<1>3. \A i \in DOMAIN outbox' :
          outbox'[i].method = "didClose" => outbox'[i].text = Closed
  BY <1>1, <1>2 DEF Following
<1>4. DocumentsFollow'
  <2> SUFFICES ASSUME NEW u \in Uris
               PROVE  IF Unheard(u)' = {} THEN documents'[u] = buffer'[u]
                      ELSE \E i \in Unheard(u)' : /\ \A j \in Unheard(u)' : j <= i
                                                  /\ outbox'[i].text = buffer'[u]
    BY DEF DocumentsFollow
  <2>1. CASE u \notin open
    <3>1. Unheard(u)' = Unheard(u)
      BY <1>1, <1>2, <2>1 DEF Unheard
    <3>2. \A i \in Unheard(u) : outbox'[i] = outbox[i]
      BY <1>1 DEF Unheard
    <3>3. buffer'[u] = buffer[u] /\ documents'[u] = documents[u]
      BY <2>1
    <3> QED BY <3>1, <3>2, <3>3, NothingNew DEF Following
  <2>2. CASE u \in open
    <3>1. PICK i \in 1..n : order[i] = u
      BY <2>2
    <3>2. Len(outbox) + i \in Unheard(u)'
      BY <1>1, <3>1 DEF Unheard, Notifications
    <3>3. \A j \in Unheard(u)' : j <= Len(outbox) + i
      <4> SUFFICES ASSUME NEW j \in Unheard(u)', j \notin 1..Len(outbox)
                   PROVE  j <= Len(outbox) + i
        BY <1>1 DEF Unheard
      <4>1. j \in 1..(Len(outbox) + n) /\ outbox'[j].uri = u
        BY <1>1 DEF Unheard
      <4>2. j - Len(outbox) \in 1..n /\ order[j - Len(outbox)] = u
        BY <1>2, <4>1
      <4> QED BY <3>1, <4>1, <4>2
    <3>4. outbox'[Len(outbox) + i].text = buffer'[u]
      BY <2>2, <3>1
    <3> QED BY <3>2, <3>3, <3>4
  <2> QED BY <2>1, <2>2
<1>5. buffer' = [u \in Uris |-> buffer'[u]]
  OBVIOUS
<1> QED BY <1>3, <1>4, <1>5 DEF Following

Changes(order, texts) ==
    [i \in DOMAIN order |-> About("didChange", order[i], texts[order[i]])]

\* What a listing's changes say.
SaidOf(n, open, order, texts) ==
    /\ \A i \in 1..n : order[i] \in open
    /\ \A x \in open : \E i \in 1..n : order[i] = x
    /\ \A i, j \in 1..n : order[i] = order[j] => i = j
    /\ IsSeq(Changes(order, texts)) /\ Len(Changes(order, texts)) = n
    /\ \A i \in 1..n : /\ Changes(order, texts)[i].method = "didChange"
                       /\ Changes(order, texts)[i].uri = order[i]
                       /\ Changes(order, texts)[i].text = texts[order[i]]

LEMMA ChangesSaid ==
    ASSUME NEW open, IsFiniteSet(open), NEW texts, NEW order \in Listings(open)
    PROVE  \E n \in Nat : SaidOf(n, open, order, texts)
<1>1. PICK n \in Nat : /\ DOMAIN order = 1..n
                       /\ \A i \in 1..n : order[i] \in open
                       /\ \A x \in open : \E i \in 1..n : order[i] = x
                       /\ \A i, j \in 1..n : order[i] = order[j] => i = j
  BY Listed
<1>2. \A i \in 1..n : Changes(order, texts)[i] = About("didChange", order[i], texts[order[i]])
  BY <1>1 DEF Changes
<1>3. \A i \in 1..n : /\ Changes(order, texts)[i].method = "didChange"
                      /\ Changes(order, texts)[i].uri = order[i]
                      /\ Changes(order, texts)[i].text = texts[order[i]]
  BY <1>2, AboutSays
<1>4. Changes(order, texts) = [i \in 1..n |-> Changes(order, texts)[i]]
  BY <1>1 DEF Changes
<1>5. IsSeq(Changes(order, texts)) /\ Len(Changes(order, texts)) = n
  BY <1>4, Written
<1> QED BY <1>1, <1>3, <1>5 DEF SaidOf

\* The edits of a rename reach every open buffer, and the server hears of each.
LEMMA FollowsEdits ==
    ASSUME Following, NEW open \in SUBSET Uris, NEW texts, NEW order \in Listings(open), NEW said,
           buffer' = [u \in Uris |-> IF u \in open THEN texts[u] ELSE buffer[u]],
           said = Changes(order, texts), outbox' = Join(outbox, said), UNCHANGED documents
    PROVE  Following'
<1>1. IsFiniteSet(open)
  BY UrisAssumption, FS_Subset
<1>2. PICK n \in Nat : SaidOf(n, open, order, texts)
  BY <1>1, ChangesSaid
<1>3. IsSeq(outbox)
  BY DEF Following
<1>4. IsSeq(said) /\ Len(said) = n
  BY <1>2 DEF SaidOf
<1>5. \A i \in 1..n : /\ said[i].method = "didChange" /\ said[i].uri = order[i]
                      /\ said[i].text = texts[order[i]]
  BY <1>2 DEF SaidOf
<1>7. /\ IsSeq(outbox') /\ Len(outbox) \in Nat
      /\ Len(outbox') = Len(outbox) + Len(said)
      /\ \A i \in 1..Len(outbox) : outbox'[i] = outbox[i]
      /\ \A i \in 1..Len(said) : outbox'[Len(outbox) + i] = said[i]
  BY <1>3, <1>4, JoinedAs
<1>8. /\ Len(outbox') = Len(outbox) + n
      /\ \A i \in 1..n : outbox'[Len(outbox) + i] = said[i]
  BY <1>4, <1>7
<1>9. /\ \A i \in 1..n : order[i] \in open
      /\ \A x \in open : \E i \in 1..n : order[i] = x
      /\ \A i, j \in 1..n : order[i] = order[j] => i = j
  BY <1>2 DEF SaidOf
<1>10. \A i \in 1..n : /\ outbox'[Len(outbox) + i].method = "didChange"
                       /\ outbox'[Len(outbox) + i].uri = order[i]
                       /\ outbox'[Len(outbox) + i].text = texts[order[i]]
  BY <1>5, <1>8
<1>11. /\ buffer' = [u \in Uris |-> buffer'[u]] /\ documents' = documents
       /\ \A u \in Uris : buffer'[u] = IF u \in open THEN texts[u] ELSE buffer[u]
  OBVIOUS
<1>12. TellsEach(n, open, order, texts)
  BY <1>7, <1>8, <1>9, <1>10, <1>11 DEF TellsEach
<1> QED BY <1>12, FollowsChanges

\* Nothing is sent, taken or typed.
LEMMA FollowsQuiet ==
    ASSUME Following, UNCHANGED <<outbox, buffer, documents>>
    PROVE  Following'
BY DEF Following, DocumentsFollow, Unheard

LEMMA FollowsEditor == Following /\ Editor => Following'
<1> SUFFICES ASSUME Following, Editor PROVE Following'
  OBVIOUS
<1>1. CASE Initialize
  <2>1. SaysNothing(Say("initialize"))
    BY DEF SaysNothing, Say, Notifications
  <2> QED BY <1>1, <2>1, FollowsNews DEF Initialize, Send, serverVars
<1>2. CASE Shutdown
  <2>1. SaysNothing(Say("shutdown"))
    BY DEF SaysNothing, Say, Notifications
  <2> QED BY <1>2, <2>1, FollowsNews DEF Shutdown, Send, serverVars
<1>3. CASE Exit
  <2>1. SaysNothing(Say("exit"))
    BY DEF SaysNothing, Say, Notifications
  <2> QED BY <1>3, <2>1, FollowsNews DEF Exit, Send, serverVars
<1>4. CASE Draw
  BY <1>4, FollowsQuiet DEF Draw, serverVars
<1>5. CASE Answered
  BY <1>5, FollowsQuiet DEF Answered, serverVars
<1>6. CASE ApplyRename
  <2> DEFINE texts == Head(inbox).texts
             open == DOMAIN texts \cap Opened(buffer)
  <2>1. open \in SUBSET Uris
    BY DEF Opened
  <2>2. PICK order \in Listings(open) :
            outbox' = outbox \o [i \in DOMAIN order |->
                                     About("didChange", order[i], texts[order[i]])]
    BY <1>6 DEF ApplyRename
  <2>3. outbox' = Join(outbox, Changes(order, texts))
    BY <2>2 DEF Join, Changes
  <2>4. /\ buffer' = [u \in Uris |-> IF u \in open THEN texts[u] ELSE buffer[u]]
        /\ documents' = documents
    BY <1>6 DEF ApplyRename, serverVars
  <2> HIDE DEF texts, open
  <2> QED BY <2>1, <2>3, <2>4, FollowsEdits
<1>7. ASSUME NEW u \in Uris, Open(u) PROVE Following'
  <2>1. PICK t : /\ buffer' = [buffer EXCEPT ![u] = t]
                 /\ outbox' = Append(outbox, About("didOpen", u, t))
    BY <1>7 DEF Open, Send
  <2>2. documents' = documents
    BY <1>7 DEF Open, serverVars
  <2> QED BY <2>1, <2>2, FollowsText DEF Notifications
<1>8. ASSUME NEW u \in Uris, Type(u) PROVE Following'
  <2>1. PICK t : /\ buffer' = [buffer EXCEPT ![u] = t]
                 /\ outbox' = Append(outbox, About("didChange", u, t))
    BY <1>8 DEF Type, Send
  <2>2. documents' = documents
    BY <1>8 DEF Type, serverVars
  <2> QED BY <2>1, <2>2, FollowsText DEF Notifications
<1>9. ASSUME NEW u \in Uris, Save(u) PROVE Following'
  BY <1>9, FollowsQuiet DEF Save, editorVars, serverVars
<1>10. ASSUME NEW u \in Uris, Close(u) PROVE Following'
  <2>1. /\ buffer' = [buffer EXCEPT ![u] = Closed]
        /\ outbox' = Append(outbox, About("didClose", u, Closed))
        /\ documents' = documents
    BY <1>10 DEF Close, Send, serverVars
  <2> QED BY <2>1, FollowsText DEF Notifications
<1>11. ASSUME NEW u \in Uris, NEW def, AskRename(u, def) PROVE Following'
  <2>1. SaysNothing(Ask(u, def))
    BY DEF SaysNothing, Ask, Notifications
  <2> QED BY <1>11, <2>1, FollowsNews DEF AskRename, Send, serverVars
<1> QED BY <1>1, <1>2, <1>3, <1>4, <1>5, <1>6, <1>7, <1>8, <1>9, <1>10, <1>11 DEF Editor

LEMMA FollowsServer == Following /\ Server => Following'
<1> SUFFICES ASSUME Following, Server PROVE Following'
  OBVIOUS
<1>1. CASE HandleInitialize
  <2>1. SaysNothing(Head(outbox))
    BY <1>1 DEF HandleInitialize, Arrived, SaysNothing, Notifications
  <2> QED BY <1>1, <2>1, FollowsTaken DEF HandleInitialize, Arrived, Taken, editorVars
<1>2. CASE HandleShutdown
  <2>1. SaysNothing(Head(outbox))
    BY <1>2 DEF HandleShutdown, Arrived, SaysNothing, Notifications
  <2> QED BY <1>2, <2>1, FollowsTaken DEF HandleShutdown, Arrived, Taken, editorVars
<1>3. CASE HandleRename
  <2>1. SaysNothing(Head(outbox))
    BY <1>3 DEF HandleRename, Arrived, SaysNothing, Notifications
  <2> QED BY <1>3, <2>1, FollowsTaken DEF HandleRename, Arrived, Taken, editorVars, serverVars
<1>4. CASE HandleText
  BY <1>4, FollowsHeard DEF HandleText, Arrived, Taken, Notifications, editorVars
<1>5. CASE HandleClose
  <2>1. outbox # <<>> /\ Head(outbox).method = "didClose" /\ outbox' = Tail(outbox)
    BY <1>5 DEF HandleClose, Arrived, Taken
  <2>2. Head(outbox).text = Closed
    <3>1. IsSeq(outbox)
      BY DEF Following
    <3>2. Len(outbox) \in Nat /\ Len(outbox) > 0 /\ Head(outbox) = outbox[1]
      BY <2>1, <3>1, Removed
    <3>3. 1 \in DOMAIN outbox
      BY <3>1, <3>2 DEF IsSeq
    <3> QED BY <2>1, <3>2, <3>3 DEF Following
  <2>3. documents' = [documents EXCEPT ![Head(outbox).uri] = Head(outbox).text]
    BY <1>5, <2>2 DEF HandleClose
  <2>4. Head(outbox).method \in Notifications /\ buffer' = buffer
    BY <1>5, <2>1 DEF HandleClose, Notifications, editorVars
  <2> QED BY <2>1, <2>3, <2>4, FollowsHeard
<1>6. CASE HandleExit
  <2>1. SaysNothing(Head(outbox))
    BY <1>6 DEF HandleExit, Arrived, SaysNothing, Notifications
  <2> QED BY <1>6, <2>1, FollowsTaken DEF HandleExit, Arrived, Taken, editorVars
<1> QED BY <1>1, <1>2, <1>3, <1>4, <1>5, <1>6 DEF Server

\* However the editor, the server and other programs interleave, the server
\* ends up with the text the editor shows (server.rs didOpen, didChange,
\* didClose and the changes that come of a rename).
THEOREM DocumentsAlwaysFollow == Spec => []DocumentsFollow
<1>1. Init => Following
  BY DEF Init, Following, DocumentsFollow, Unheard, IsSeq
<1>2. Following /\ [Next]_vars => Following'
  <2> SUFFICES ASSUME Following, [Next]_vars PROVE Following'
    OBVIOUS
  <2>1. CASE Editor
    BY <2>1, FollowsEditor
  <2>2. CASE Server
    BY <2>2, FollowsServer
  <2>3. ASSUME NEW f \in Files, WriteFile(f) PROVE Following'
    BY <2>3, FollowsQuiet DEF WriteFile, editorVars, serverVars
  <2>4. CASE UNCHANGED vars
    BY <2>4, FollowsQuiet DEF vars, editorVars, serverVars
  <2> QED BY <2>1, <2>2, <2>3, <2>4 DEF Next
<1>3. Following => DocumentsFollow
  BY DEF Following
<1> QED BY <1>1, <1>2, <1>3, PTL DEF Spec

(***************************************************************************)
(* After the answer to `shutdown` no edit arrives.  `shutdown` is asked    *)
(* once; while it is asked nothing is being shut down, and once it is, its *)
(* answer is behind every edit still unread.                               *)
(***************************************************************************)
AsksToStop(i) == outbox[i].method = "shutdown"
Farewell(i) == inbox[i].method = "answer" /\ inbox[i].id = "shutdown"
Edit(i) == inbox[i].method = "answer" /\ inbox[i].result = "edit"
Leaving == phase \in {"stopping", "stopped"}

AskedOnce ==
    \A i \in DOMAIN outbox : AsksToStop(i) =>
        /\ Leaving /\ "shutdown" \in waiting /\ ~shuttingDown
        /\ \A j \in DOMAIN outbox : AsksToStop(j) => j = i
        /\ \A j \in DOMAIN inbox : ~Farewell(j)

AnsweredOnce ==
    \A i \in DOMAIN inbox : Farewell(i) =>
        /\ Leaving /\ "shutdown" \in waiting
        /\ \A j \in DOMAIN inbox : Farewell(j) => j = i

EditsComeFirst ==
    shuttingDown => /\ Leaving
                    /\ \A i \in DOMAIN inbox : Edit(i) =>
                          \E j \in DOMAIN inbox : i < j /\ Farewell(j)

Closing == IsSeq(outbox) /\ IsSeq(inbox) /\ AskedOnce /\ AnsweredOnce /\ EditsComeFirst

\* What a step does to the streams, as far as shutting down is concerned.
NoNewsOut == /\ IsSeq(outbox')
             /\ \A i \in DOMAIN outbox' : outbox'[i].method = "shutdown" =>
                   \E j \in DOMAIN outbox : AsksToStop(j) /\ i = j
OutTaken == /\ IsSeq(outbox') /\ Len(outbox) \in Nat /\ Len(outbox) > 0
            /\ DOMAIN outbox = 1..Len(outbox) /\ DOMAIN outbox' = 1..(Len(outbox) - 1)
            /\ \A i \in DOMAIN outbox' : outbox'[i] = outbox[i + 1]

LEMMA OutStays == Closing /\ outbox' = outbox => NoNewsOut
BY DEF Closing, NoNewsOut, AsksToStop

LEMMA OutGrows ==
    ASSUME Closing, NEW m, m.method # "shutdown", outbox' = Append(outbox, m)
    PROVE  NoNewsOut
<1>1. /\ IsSeq(outbox') /\ Len(outbox) \in Nat
      /\ Len(outbox') = Len(outbox) + 1
      /\ \A i \in 1..Len(outbox) : outbox'[i] = outbox[i]
      /\ outbox'[Len(outbox) + 1] = m
  BY Appended DEF Closing
<1>2. DOMAIN outbox = 1..Len(outbox) /\ DOMAIN outbox' = 1..(Len(outbox) + 1)
  BY <1>1 DEF Closing, IsSeq
<1> QED BY <1>1, <1>2 DEF NoNewsOut, AsksToStop

LEMMA OutShrinks ==
    ASSUME Closing, outbox # <<>>, outbox' = Tail(outbox)
    PROVE  OutTaken /\ Head(outbox) = outbox[1]
<1>1. /\ IsSeq(outbox') /\ Len(outbox) \in Nat /\ Len(outbox) > 0
      /\ Len(outbox') = Len(outbox) - 1
      /\ \A i \in 1..(Len(outbox) - 1) : outbox'[i] = outbox[i + 1]
      /\ Head(outbox) = outbox[1]
  BY Removed DEF Closing
<1>2. DOMAIN outbox = 1..Len(outbox) /\ DOMAIN outbox' = 1..(Len(outbox) - 1)
  BY <1>1 DEF Closing, IsSeq
<1> QED BY <1>1, <1>2 DEF OutTaken

\* The client says something else.
LEMMA ClosingSaid ==
    ASSUME Closing, NoNewsOut, Leaving => Leaving', waiting \subseteq waiting',
           inbox' = inbox, shuttingDown' = shuttingDown
    PROVE  Closing'
BY DEF Closing, NoNewsOut, AskedOnce, AnsweredOnce, EditsComeFirst,
       AsksToStop, Farewell, Edit

\* The client asks to stop.
LEMMA ClosingAsked ==
    ASSUME Closing, ~Leaving, Leaving', outbox' = Append(outbox, Say("shutdown")),
           waiting' = waiting \cup {"shutdown"}, inbox' = inbox, shuttingDown' = shuttingDown
    PROVE  Closing'
<1>1. /\ IsSeq(outbox') /\ Len(outbox) \in Nat
      /\ Len(outbox') = Len(outbox) + 1
      /\ \A i \in 1..Len(outbox) : outbox'[i] = outbox[i]
  BY Appended DEF Closing
<1>2. DOMAIN outbox = 1..Len(outbox) /\ DOMAIN outbox' = 1..(Len(outbox) + 1)
  BY <1>1 DEF Closing, IsSeq
<1>3. /\ \A i \in DOMAIN outbox : ~AsksToStop(i)
      /\ \A i \in DOMAIN inbox : ~Farewell(i)
      /\ ~shuttingDown
  BY DEF Closing, AskedOnce, AnsweredOnce, EditsComeFirst
<1>4. \A i \in DOMAIN outbox' : AsksToStop(i)' => i = Len(outbox) + 1
  BY <1>1, <1>2, <1>3 DEF AsksToStop
<1>5. AskedOnce'
  BY <1>3, <1>4 DEF AskedOnce, Farewell
<1>6. AnsweredOnce' /\ EditsComeFirst'
  BY <1>3 DEF AnsweredOnce, EditsComeFirst, Farewell
<1> QED BY <1>1, <1>5, <1>6 DEF Closing

\* The client reads a message; what it learns from it at most ends the
\* waiting for what the message answers.
LEMMA ClosingRead ==
    ASSUME Closing, inbox # <<>>, inbox' = Tail(inbox), NoNewsOut,
           Leaving => Leaving', shuttingDown' = shuttingDown,
           "shutdown" \in waiting => "shutdown" \in waiting' \/ Farewell(1)
    PROVE  Closing'
<1>1. /\ IsSeq(inbox') /\ Len(inbox) \in Nat /\ Len(inbox) > 0
      /\ Len(inbox') = Len(inbox) - 1
      /\ \A i \in 1..(Len(inbox) - 1) : inbox'[i] = inbox[i + 1]
  BY Removed DEF Closing
<1>2. DOMAIN inbox = 1..Len(inbox) /\ DOMAIN inbox' = 1..(Len(inbox) - 1)
  BY <1>1 DEF Closing, IsSeq
<1>3. \A i \in DOMAIN inbox' : /\ i + 1 \in DOMAIN inbox
                               /\ Farewell(i)' <=> Farewell(i + 1)
                               /\ Edit(i)' <=> Edit(i + 1)
  BY <1>1, <1>2 DEF Farewell, Edit
<1>4. 1 \in DOMAIN inbox
  BY <1>1, <1>2
<1>5. AskedOnce'
  BY <1>3, <1>4 DEF Closing, AskedOnce, NoNewsOut, AsksToStop
<1>6. AnsweredOnce'
  BY <1>1, <1>2, <1>3, <1>4 DEF Closing, AnsweredOnce
<1>7. EditsComeFirst'
  <2> SUFFICES ASSUME shuttingDown', NEW i \in DOMAIN inbox', Edit(i)'
               PROVE  \E j \in DOMAIN inbox' : i < j /\ Farewell(j)'
    BY DEF Closing, EditsComeFirst
  <2>1. PICK k \in DOMAIN inbox : i + 1 < k /\ Farewell(k)
    BY <1>3 DEF Closing, EditsComeFirst
  <2>2. k - 1 \in DOMAIN inbox' /\ i < k - 1 /\ k - 1 + 1 = k
    BY <1>1, <1>2, <2>1
  <2> QED BY <1>3, <2>1, <2>2
<1> QED BY <1>1, <1>5, <1>6, <1>7 DEF Closing, NoNewsOut

\* The server answers something that is no farewell, and nothing with edits
\* once it is shutting down.
InGrows ==
    /\ IsSeq(inbox') /\ DOMAIN inbox \subseteq DOMAIN inbox'
    /\ \A i \in DOMAIN inbox : inbox'[i] = inbox[i]
    /\ \A i \in DOMAIN inbox' \ DOMAIN inbox :
          ~Farewell(i)' /\ (shuttingDown => ~Edit(i)')

LEMMA ClosingServed ==
    ASSUME Closing, outbox # <<>>, outbox' = Tail(outbox), Head(outbox).method # "shutdown",
           InGrows, phase' = phase, waiting' = waiting, shuttingDown' = shuttingDown
    PROVE  Closing'
<1>1. OutTaken /\ Head(outbox) = outbox[1]
  BY OutShrinks
<1>2. \A i \in DOMAIN outbox' : /\ i + 1 \in DOMAIN outbox
                                /\ AsksToStop(i)' <=> AsksToStop(i + 1)
  BY <1>1 DEF OutTaken, AsksToStop
<1>3. \A i \in DOMAIN inbox' : Farewell(i)' => i \in DOMAIN inbox /\ Farewell(i)
  BY DEF InGrows, Farewell
<1>4. \A i \in DOMAIN inbox : Farewell(i) => i \in DOMAIN inbox' /\ Farewell(i)'
  BY DEF InGrows, Farewell
<1>5. shuttingDown => \A i \in DOMAIN inbox' : Edit(i)' => i \in DOMAIN inbox /\ Edit(i)
  BY DEF InGrows, Edit
<1>6. Leaving' = Leaving
  BY DEF Leaving
<1>7. AskedOnce'
  <2> SUFFICES ASSUME NEW i \in DOMAIN outbox', AsksToStop(i)'
               PROVE  /\ Leaving' /\ "shutdown" \in waiting' /\ ~shuttingDown'
                      /\ \A j \in DOMAIN outbox' : AsksToStop(j)' => j = i
                      /\ \A j \in DOMAIN inbox' : ~Farewell(j)'
    BY DEF AskedOnce
  <2>1. i + 1 \in DOMAIN outbox /\ AsksToStop(i + 1)
    BY <1>2
  <2>2. /\ Leaving /\ "shutdown" \in waiting /\ ~shuttingDown
        /\ \A j \in DOMAIN outbox : AsksToStop(j) => j = i + 1
        /\ \A j \in DOMAIN inbox : ~Farewell(j)
    BY <2>1 DEF Closing, AskedOnce
  <2>3. \A j \in DOMAIN outbox' : AsksToStop(j)' => j = i
    BY <1>1, <1>2, <2>2 DEF OutTaken
  <2> QED BY <1>3, <1>6, <2>2, <2>3
<1>8. AnsweredOnce'
  BY <1>3, <1>6 DEF Closing, AnsweredOnce
<1>9. EditsComeFirst'
  BY <1>4, <1>5, <1>6 DEF Closing, EditsComeFirst
<1> QED BY <1>1, <1>7, <1>8, <1>9 DEF Closing, OutTaken, InGrows

\* The server takes the request to stop and answers it.
LEMMA ClosingAnswered ==
    ASSUME Closing, outbox # <<>>, outbox' = Tail(outbox), Head(outbox).method = "shutdown",
           NEW result, result # "edit",
           inbox' = Append(inbox, Answer("shutdown", result, <<>>)),
           phase' = phase, waiting' = waiting
    PROVE  Closing'
<1>1. OutTaken /\ Head(outbox) = outbox[1]
  BY OutShrinks
<1> DEFINE m == Answer("shutdown", result, <<>>)
<1>2. m.method = "answer" /\ m.id = "shutdown" /\ m.result = result
  BY DEF Answer
<1>3. inbox' = Append(inbox, m)
  OBVIOUS
<1> HIDE DEF m
<1>4. /\ IsSeq(inbox') /\ Len(inbox) \in Nat
      /\ Len(inbox') = Len(inbox) + 1
      /\ \A i \in 1..Len(inbox) : inbox'[i] = inbox[i]
      /\ inbox'[Len(inbox) + 1] = m
  BY <1>3, Appended DEF Closing
<1>5. DOMAIN inbox = 1..Len(inbox) /\ DOMAIN inbox' = 1..(Len(inbox) + 1)
  BY <1>4 DEF Closing, IsSeq
<1>6. 1 \in DOMAIN outbox /\ AsksToStop(1)
  BY <1>1 DEF OutTaken, AsksToStop
<1>7. /\ Leaving /\ "shutdown" \in waiting
      /\ \A j \in DOMAIN outbox : AsksToStop(j) => j = 1
      /\ \A j \in DOMAIN inbox : ~Farewell(j)
  BY <1>6 DEF Closing, AskedOnce
<1>8. \A i \in DOMAIN outbox' : ~AsksToStop(i)'
  BY <1>1, <1>7 DEF OutTaken, AsksToStop
<1>9. \A i \in DOMAIN inbox' : Farewell(i)' <=> i = Len(inbox) + 1
  BY <1>2, <1>4, <1>5, <1>7 DEF Farewell
<1>10. \A i \in DOMAIN inbox' : Edit(i)' => i # Len(inbox) + 1
  BY <1>2, <1>4 DEF Edit
<1>11. Leaving'
  BY <1>7 DEF Leaving
<1>12. AskedOnce' /\ AnsweredOnce'
  BY <1>7, <1>8, <1>9, <1>11 DEF AskedOnce, AnsweredOnce
<1>13. \A i \in DOMAIN inbox' : Edit(i)' => \E j \in DOMAIN inbox' : i < j /\ Farewell(j)'
  BY <1>4, <1>5, <1>9, <1>10
<1>14. EditsComeFirst'
  BY <1>11, <1>13 DEF EditsComeFirst
<1> QED BY <1>1, <1>4, <1>12, <1>14 DEF Closing, OutTaken

\* One answer to another request.
LEMMA InAnswered ==
    ASSUME Closing, NEW id, NEW result, NEW texts, id # "shutdown",
           shuttingDown => result # "edit",
           inbox' = Append(inbox, Answer(id, result, texts))
    PROVE  InGrows
<1> DEFINE m == Answer(id, result, texts)
<1>1. m.id = id /\ m.result = result
  BY DEF Answer
<1>2. inbox' = Append(inbox, m)
  OBVIOUS
<1> HIDE DEF m
<1>3. /\ IsSeq(inbox') /\ Len(inbox) \in Nat
      /\ Len(inbox') = Len(inbox) + 1
      /\ \A i \in 1..Len(inbox) : inbox'[i] = inbox[i]
      /\ inbox'[Len(inbox) + 1] = m
  BY <1>2, Appended DEF Closing
<1>4. DOMAIN inbox = 1..Len(inbox) /\ DOMAIN inbox' = 1..(Len(inbox) + 1)
  BY <1>3 DEF Closing, IsSeq
<1> QED BY <1>1, <1>3, <1>4 DEF InGrows, Farewell, Edit

\* Any number of diagnostics.
LEMMA JoinedOn ==
    ASSUME NEW s, NEW t, IsSeq(s), IsSeq(t)
    PROVE  /\ IsSeq(Join(s, t)) /\ DOMAIN s \subseteq DOMAIN Join(s, t)
           /\ \A i \in DOMAIN s : Join(s, t)[i] = s[i]
           /\ \A i \in DOMAIN Join(s, t) : i \notin DOMAIN s
                 => \E j \in DOMAIN t : Join(s, t)[i] = t[j]
<1> DEFINE r == Join(s, t)
<1>1. /\ IsSeq(r) /\ Len(s) \in Nat /\ Len(t) \in Nat
      /\ Len(r) = Len(s) + Len(t)
      /\ \A i \in 1..Len(s) : r[i] = s[i]
      /\ \A i \in 1..Len(t) : r[Len(s) + i] = t[i]
  BY Joined
<1> HIDE DEF r
<1>2. /\ DOMAIN s = 1..Len(s) /\ DOMAIN t = 1..Len(t)
      /\ DOMAIN r = 1..(Len(s) + Len(t))
  BY <1>1 DEF IsSeq
<1>3. \A i \in DOMAIN r : i \notin DOMAIN s => \E j \in DOMAIN t : r[i] = t[j]
  <2> SUFFICES ASSUME NEW i \in DOMAIN r, i \notin DOMAIN s
               PROVE  \E j \in DOMAIN t : r[i] = t[j]
    OBVIOUS
  <2>1. i - Len(s) \in DOMAIN t /\ i = Len(s) + (i - Len(s))
    BY <1>1, <1>2
  <2> QED BY <1>1, <1>2, <2>1
<1> QED BY <1>1, <1>2, <1>3 DEF r

Published(order, what) == [i \in DOMAIN order |-> Publish(order[i], what[order[i]])]

LEMMA AllPublished ==
    ASSUME NEW docs, NEW order \in Listings(Opened(docs)), NEW what
    PROVE  /\ IsSeq(Published(order, what))
           /\ \A j \in DOMAIN Published(order, what) :
                 Published(order, what)[j].method = "publish"
<1>1. IsFiniteSet(Opened(docs))
  BY UrisAssumption, FS_Subset DEF Opened
<1>2. PICK n \in Nat : DOMAIN order = 1..n
  BY <1>1, Listed
<1>3. /\ DOMAIN Published(order, what) = 1..n
      /\ \A j \in 1..n : Published(order, what)[j] = Publish(order[j], what[order[j]])
  BY <1>2 DEF Published
<1>4. \A u, problems : Publish(u, problems).method = "publish"
  BY DEF Publish
<1>5. Published(order, what) = [j \in 1..n |-> Published(order, what)[j]]
  BY <1>2 DEF Published
<1> QED BY <1>3, <1>4, <1>5, Written

LEMMA InPublished ==
    ASSUME Closing, NEW before, IsSeq(before),
           \A j \in DOMAIN before : before[j].method = "publish",
           NEW docs, NEW order \in Listings(Opened(docs)), NEW what,
           inbox' = Join(Join(inbox, before), Published(order, what))
    PROVE  InGrows
<1> DEFINE mid == Join(inbox, before)
           said == Published(order, what)
<1>1. /\ IsSeq(mid) /\ DOMAIN inbox \subseteq DOMAIN mid
      /\ \A i \in DOMAIN inbox : mid[i] = inbox[i]
      /\ \A i \in DOMAIN mid : i \notin DOMAIN inbox
            => \E j \in DOMAIN before : mid[i] = before[j]
  <2>1. IsSeq(inbox)
    BY DEF Closing
  <2> QED BY <2>1, JoinedOn
<1>2. IsSeq(said) /\ \A j \in DOMAIN said : said[j].method = "publish"
  BY AllPublished
<1> HIDE DEF mid, said
<1>3. /\ IsSeq(Join(mid, said)) /\ DOMAIN mid \subseteq DOMAIN Join(mid, said)
      /\ \A i \in DOMAIN mid : Join(mid, said)[i] = mid[i]
      /\ \A i \in DOMAIN Join(mid, said) : i \notin DOMAIN mid
            => \E j \in DOMAIN said : Join(mid, said)[i] = said[j]
  BY <1>1, <1>2, JoinedOn
<1>4. inbox' = Join(mid, said)
  BY DEF mid, said
<1>5. \A i \in DOMAIN inbox' : i \notin DOMAIN inbox => inbox'[i].method = "publish"
  BY <1>1, <1>2, <1>3, <1>4
<1> QED BY <1>1, <1>3, <1>4, <1>5 DEF InGrows, Farewell, Edit

\* Changes sent for the buffers a rename reached.
LEMMA OutTold ==
    ASSUME Closing, NEW open \in SUBSET Uris, NEW order \in Listings(open), NEW texts,
           outbox' = Join(outbox, Changes(order, texts))
    PROVE  NoNewsOut
<1> DEFINE said == Changes(order, texts)
<1>1. PICK n \in Nat : SaidOf(n, open, order, texts)
  BY UrisAssumption, FS_Subset, ChangesSaid
<1>2. IsSeq(said) /\ \A i \in 1..n : said[i].method = "didChange"
  BY <1>1 DEF SaidOf
<1>3. Len(said) = n /\ DOMAIN said = 1..n
  BY <1>1, <1>2 DEF SaidOf, IsSeq
<1> HIDE DEF said
<1>4. IsSeq(outbox)
  BY DEF Closing
<1>5. /\ IsSeq(Join(outbox, said)) /\ DOMAIN outbox \subseteq DOMAIN Join(outbox, said)
      /\ \A i \in DOMAIN outbox : Join(outbox, said)[i] = outbox[i]
      /\ \A i \in DOMAIN Join(outbox, said) : i \notin DOMAIN outbox
            => \E j \in DOMAIN said : Join(outbox, said)[i] = said[j]
  BY <1>2, <1>4, JoinedOn
<1>6. outbox' = Join(outbox, said)
  BY DEF said
<1> QED BY <1>2, <1>3, <1>5, <1>6 DEF NoNewsOut, AsksToStop

LEMMA ClosingEditor == Closing /\ Editor => Closing'
<1> SUFFICES ASSUME Closing, Editor PROVE Closing'
  OBVIOUS
<1>1. CASE Initialize
  <2>1. Say("initialize").method # "shutdown"
    BY DEF Say
  <2>2. NoNewsOut
    BY <1>1, <2>1, OutGrows DEF Initialize, Send
  <2>3. Leaving => Leaving'
    BY <1>1 DEF Initialize, Leaving
  <2> QED BY <1>1, <2>2, <2>3, ClosingSaid DEF Initialize, serverVars
<1>2. CASE Shutdown
  <2>1. ~Leaving /\ Leaving'
    BY <1>2 DEF Shutdown, Leaving
  <2> QED BY <1>2, <2>1, ClosingAsked DEF Shutdown, Send, serverVars
<1>3. CASE Exit
  <2>1. Say("exit").method # "shutdown"
    BY DEF Say
  <2>2. NoNewsOut
    BY <1>3, <2>1, OutGrows DEF Exit, Send
  <2>3. Leaving => Leaving'
    BY <1>3 DEF Exit, Leaving
  <2> QED BY <1>3, <2>2, <2>3, ClosingSaid DEF Exit, serverVars
<1>4. CASE Draw
  <2>1. NoNewsOut /\ (Leaving => Leaving')
    BY <1>4, OutStays DEF Draw, Leaving
  <2> QED BY <1>4, <2>1, ClosingRead DEF Draw, Received, serverVars
<1>5. CASE Answered
  <2>1. NoNewsOut
    BY <1>5, OutStays DEF Answered
  <2>2. Leaving => Leaving'
    BY <1>5 DEF Answered, Leaving
  <2>3. inbox # <<>> /\ inbox' = Tail(inbox) /\ Head(inbox).method = "answer"
        /\ waiting' = waiting \ {Head(inbox).id} /\ shuttingDown' = shuttingDown
    BY <1>5 DEF Answered, Received, serverVars
  <2>4. Head(inbox) = inbox[1]
    BY <2>3, Removed DEF Closing
  <2>5. "shutdown" \in waiting => "shutdown" \in waiting' \/ Farewell(1)
    BY <2>3, <2>4 DEF Farewell
  <2> QED BY <2>1, <2>2, <2>3, <2>5, ClosingRead
<1>6. CASE ApplyRename
  <2> DEFINE texts == Head(inbox).texts
             open == DOMAIN texts \cap Opened(buffer)
  <2>1. open \in SUBSET Uris
    BY DEF Opened
  <2>2. PICK order \in Listings(open) :
            outbox' = outbox \o [i \in DOMAIN order |->
                                     About("didChange", order[i], texts[order[i]])]
    BY <1>6 DEF ApplyRename
  <2>3. outbox' = Join(outbox, Changes(order, texts))
    BY <2>2 DEF Join, Changes
  <2>4. /\ inbox # <<>> /\ inbox' = Tail(inbox) /\ phase' = phase
        /\ waiting' = waiting \ {"rename"} /\ shuttingDown' = shuttingDown
    BY <1>6 DEF ApplyRename, Received, serverVars
  <2> HIDE DEF texts, open
  <2>5. NoNewsOut
    BY <2>1, <2>3, OutTold
  <2>6. Leaving => Leaving'
    BY <2>4 DEF Leaving
  <2>7. "shutdown" \in waiting => "shutdown" \in waiting'
    BY <2>4
  <2> QED BY <2>4, <2>5, <2>6, <2>7, ClosingRead
<1>7. ASSUME NEW u \in Uris, Open(u) PROVE Closing'
  <2>1. PICK t : outbox' = Append(outbox, About("didOpen", u, t))
    BY <1>7 DEF Open, Send
  <2>2. NoNewsOut
    BY <2>1, OutGrows, AboutSays
  <2> QED BY <1>7, <2>2, ClosingSaid DEF Open, Leaving, serverVars
<1>8. ASSUME NEW u \in Uris, Type(u) PROVE Closing'
  <2>1. PICK t : outbox' = Append(outbox, About("didChange", u, t))
    BY <1>8 DEF Type, Send
  <2>2. NoNewsOut
    BY <2>1, OutGrows, AboutSays
  <2> QED BY <1>8, <2>2, ClosingSaid DEF Type, Leaving, serverVars
<1>9. ASSUME NEW u \in Uris, Save(u) PROVE Closing'
  <2>1. NoNewsOut
    BY <1>9, OutStays DEF Save
  <2> QED BY <1>9, <2>1, ClosingSaid DEF Save, Leaving, editorVars, serverVars
<1>10. ASSUME NEW u \in Uris, Close(u) PROVE Closing'
  <2>1. NoNewsOut
    BY <1>10, OutGrows, AboutSays DEF Close, Send
  <2> QED BY <1>10, <2>1, ClosingSaid DEF Close, Leaving, serverVars
<1>11. ASSUME NEW u \in Uris, NEW def, AskRename(u, def) PROVE Closing'
  <2>1. Ask(u, def).method # "shutdown"
    BY DEF Ask
  <2>2. NoNewsOut
    BY <1>11, <2>1, OutGrows DEF AskRename, Send
  <2> QED BY <1>11, <2>2, ClosingSaid DEF AskRename, Leaving, serverVars
<1> QED BY <1>1, <1>2, <1>3, <1>4, <1>5, <1>6, <1>7, <1>8, <1>9, <1>10, <1>11 DEF Editor

LEMMA PublishedAll ==
    ASSUME Closing, NEW docs, NEW before, PublishAll(docs, before), IsSeq(before),
           \A j \in DOMAIN before : before[j].method = "publish"
    PROVE  InGrows
<1>1. PICK order \in Listings(Opened(docs)) :
          inbox' = inbox \o before \o [i \in DOMAIN order |->
                                         Publish(order[i], seen'[order[i]])]
  BY DEF PublishAll
<1>2. inbox' = Join(Join(inbox, before), Published(order, seen'))
  BY <1>1 DEF Join, Published
<1> QED BY <1>2, InPublished

LEMMA ClosingServer == Closing /\ Server => Closing'
<1> SUFFICES ASSUME Closing, Server PROVE Closing'
  OBVIOUS
<1>1. CASE HandleInitialize
  <2>1. PICK result \in {"ok", "refused"} :
            inbox' = Append(inbox, Answer("initialize", result, <<>>))
    BY <1>1 DEF HandleInitialize, Reply
  <2>2. InGrows
    BY <2>1, InAnswered
  <2> QED BY <1>1, <2>2, ClosingServed DEF HandleInitialize, Arrived, Taken, editorVars
<1>2. CASE HandleShutdown
  <2>1. PICK result \in {"ok", "refused"} :
            inbox' = Append(inbox, Answer("shutdown", result, <<>>))
    BY <1>2 DEF HandleShutdown, Reply
  <2> QED BY <1>2, <2>1, ClosingAnswered DEF HandleShutdown, Arrived, Taken, editorVars
<1>3. CASE HandleRename
  <2>1. PICK result, texts :
            /\ result \in {"refused", "edit"}
            /\ inbox' = Append(inbox, Answer("rename", result, texts))
            /\ shuttingDown => result # "edit"
    <3>1. CASE Gated("rename")
      BY <1>3, <3>1 DEF HandleRename, Reply
    <3>2. CASE ~Gated("rename")
      BY <1>3, <3>2 DEF HandleRename, Reply, Gated
    <3> QED BY <3>1, <3>2
  <2>2. InGrows
    BY <2>1, InAnswered
  <2> QED BY <1>3, <2>2, ClosingServed DEF HandleRename, Arrived, Taken, editorVars, serverVars
<1>4. CASE HandleText
  <2>1. IsSeq(<<>>)
    BY DEF IsSeq
  <2>2. InGrows
    BY <1>4, <2>1, PublishedAll DEF HandleText
  <2> QED BY <1>4, <2>2, ClosingServed DEF HandleText, Arrived, Taken, editorVars
<1>5. CASE HandleClose
  <2> DEFINE cleared == Publish(Head(outbox).uri, {})
  <2>1. cleared.method = "publish"
    BY DEF Publish
  <2>2. PublishAll(documents', <<cleared>>)
    BY <1>5 DEF HandleClose
  <2> HIDE DEF cleared
  <2>3. IsSeq(<<cleared>>) /\ \A j \in DOMAIN <<cleared>> : <<cleared>>[j].method = "publish"
    <3>1. <<cleared>> \in Seq({cleared})
      OBVIOUS
    <3>2. IsSeq(<<cleared>>)
      BY <3>1 DEF IsSeq
    <3>3. \A j \in DOMAIN <<cleared>> : j = 1
      OBVIOUS
    <3>4. <<cleared>>[1] = cleared
      OBVIOUS
    <3>5. \A j \in DOMAIN <<cleared>> : <<cleared>>[j].method = "publish"
      BY <2>1, <3>3, <3>4, Zenon
    <3> QED BY <3>2, <3>5
  <2>4. InGrows
    BY <2>2, <2>3, PublishedAll
  <2> QED BY <1>5, <2>4, ClosingServed DEF HandleClose, Arrived, Taken, editorVars
<1>6. CASE HandleExit
  <2>1. InGrows
    BY <1>6 DEF HandleExit, Closing, InGrows
  <2> QED BY <1>6, <2>1, ClosingServed DEF HandleExit, Arrived, Taken, editorVars
<1> QED BY <1>1, <1>2, <1>3, <1>4, <1>5, <1>6 DEF Server

LEMMA ClosingQuiet ==
    ASSUME Closing, UNCHANGED <<outbox, inbox, phase, waiting, shuttingDown>>
    PROVE  Closing'
<1>1. NoNewsOut
  BY OutStays
<1> QED BY <1>1, ClosingSaid DEF Leaving

\* No edit reaches an editor whose `shutdown` has been answered, however many
\* messages were on their way (server.rs request and its two gates).
THEOREM NothingAfterShutdown == Spec => []NoEditAfterShutdown
<1>1. Init => Closing
  BY DEF Init, Closing, AskedOnce, AnsweredOnce, EditsComeFirst, IsSeq
<1>2. Closing /\ [Next]_vars => Closing'
  <2> SUFFICES ASSUME Closing, [Next]_vars PROVE Closing'
    OBVIOUS
  <2>1. CASE Editor
    BY <2>1, ClosingEditor
  <2>2. CASE Server
    BY <2>2, ClosingServer
  <2>3. ASSUME NEW f \in Files, WriteFile(f) PROVE Closing'
    BY <2>3, ClosingQuiet DEF WriteFile, editorVars, serverVars
  <2>4. CASE UNCHANGED vars
    BY <2>4, ClosingQuiet DEF vars, editorVars, serverVars
  <2> QED BY <2>1, <2>2, <2>3, <2>4 DEF Next
<1>3. Closing => NoEditAfterShutdown
  BY DEF Closing, AnsweredOnce, EditsComeFirst, NoEditAfterShutdown, Edit, Farewell
<1> QED BY <1>1, <1>2, <1>3, PTL DEF Spec

(***************************************************************************)
(* What is drawn is what the last check said, once what was sent is.  Each *)
(* check says everything anew, of the documents open then, so only a close *)
(* takes a word back; a text that is opened or changed is never Closed.    *)
(***************************************************************************)
Last(u) == IF documents[u] # Closed THEN seen[u] ELSE {}
Current(u) ==
    IF Undrawn(u) = {} THEN squiggles[u] = Last(u)
    ELSE \E i \in Undrawn(u) : /\ \A j \in Undrawn(u) : j <= i
                               /\ inbox[i].problems = Last(u)

Drawing ==
    /\ IsSeq(inbox)
    /\ squiggles = [u \in Uris |-> squiggles[u]]
    /\ \A u \in Uris : Current(u)

\* Nothing new about any document on its way to the editor.
NothingToDraw ==
    /\ IsSeq(inbox') /\ DOMAIN inbox \subseteq DOMAIN inbox'
    /\ \A i \in DOMAIN inbox : inbox'[i] = inbox[i]
    /\ \A i \in DOMAIN inbox' : i \notin DOMAIN inbox => inbox'[i].method # "publish"

LEMMA DrawingAnswered ==
    ASSUME Drawing, NothingToDraw, UNCHANGED <<squiggles, documents, seen>>
    PROVE  Drawing'
<1>1. \A u \in Uris : Undrawn(u)' = Undrawn(u)
  BY DEF NothingToDraw, Undrawn
<1>2. \A u \in Uris : \A i \in Undrawn(u) : inbox'[i] = inbox[i]
  BY DEF NothingToDraw, Undrawn
<1>3. \A u \in Uris : Last(u)' = Last(u)
  BY DEF Last
<1>4. ASSUME NEW u \in Uris PROVE Current(u)'
  <2>1. Current(u)
    BY DEF Drawing
  <2> QED BY <1>1, <1>2, <1>3, <2>1 DEF Current
<1> QED BY <1>4 DEF Drawing, NothingToDraw

\* One answer.
LEMMA OnlyAnswered ==
    ASSUME Drawing, NEW id, NEW result, NEW texts,
           inbox' = Append(inbox, Answer(id, result, texts))
    PROVE  NothingToDraw
<1> DEFINE m == Answer(id, result, texts)
<1>1. m.method # "publish"
  BY DEF Answer
<1>2. inbox' = Append(inbox, m)
  OBVIOUS
<1> HIDE DEF m
<1>3. /\ IsSeq(inbox') /\ Len(inbox) \in Nat
      /\ Len(inbox') = Len(inbox) + 1
      /\ \A i \in 1..Len(inbox) : inbox'[i] = inbox[i]
      /\ inbox'[Len(inbox) + 1] = m
  BY <1>2, Appended DEF Drawing
<1>4. DOMAIN inbox = 1..Len(inbox) /\ DOMAIN inbox' = 1..(Len(inbox) + 1)
  BY <1>3 DEF Drawing, IsSeq
<1> QED BY <1>1, <1>3, <1>4 DEF NothingToDraw

LEMMA DrawingStays ==
    ASSUME Drawing, UNCHANGED <<inbox, squiggles, documents, seen>>
    PROVE  Drawing'
<1>1. NothingToDraw
  BY DEF NothingToDraw, Drawing
<1> QED BY <1>1, DrawingAnswered

\* The editor takes a message, and draws if there is something to draw.
LEMMA DrawingRead ==
    ASSUME Drawing, inbox # <<>>, inbox' = Tail(inbox), UNCHANGED <<documents, seen>>,
           squiggles' = IF Head(inbox).method = "publish"
                        THEN [squiggles EXCEPT ![Head(inbox).uri] = Head(inbox).problems]
                        ELSE squiggles
    PROVE  Drawing'
<1>1. /\ IsSeq(inbox') /\ Len(inbox) \in Nat /\ Len(inbox) > 0
      /\ Len(inbox') = Len(inbox) - 1
      /\ \A i \in 1..(Len(inbox) - 1) : inbox'[i] = inbox[i + 1]
      /\ Head(inbox) = inbox[1]
  BY Removed DEF Drawing
<1>2. DOMAIN inbox = 1..Len(inbox) /\ DOMAIN inbox' = 1..(Len(inbox) - 1)
  BY <1>1 DEF Drawing, IsSeq
<1>3. squiggles' = [u \in Uris |-> squiggles'[u]]
  BY DEF Drawing
<1>4. ASSUME NEW u \in Uris PROVE Current(u)'
  <2>0. Current(u) /\ Last(u)' = Last(u)
    BY DEF Drawing, Last
  <2>1. \A i \in Undrawn(u) \ {1} : i \in 2..Len(inbox) /\ i - 1 \in Undrawn(u)'
    BY <1>1, <1>2 DEF Undrawn
  <2>2. \A i \in Undrawn(u)' : /\ i \in 1..(Len(inbox) - 1) /\ i + 1 \in Undrawn(u)
                               /\ inbox'[i] = inbox[i + 1]
    BY <1>1, <1>2 DEF Undrawn
  <2>3. 1 \in Undrawn(u) <=> Head(inbox).method = "publish" /\ Head(inbox).uri = u
    BY <1>1, <1>2 DEF Undrawn
  <2>4. 1 \notin Undrawn(u) => squiggles'[u] = squiggles[u]
    BY <2>3 DEF Drawing
  <2>5. 1 \in Undrawn(u) => squiggles'[u] = inbox[1].problems
    BY <1>1, <2>3 DEF Drawing
  <2>6. CASE Undrawn(u) = {}
    BY <2>0, <2>2, <2>4, <2>6 DEF Current
  <2>7. CASE Undrawn(u) # {}
    <3>1. PICK i \in Undrawn(u) : /\ \A j \in Undrawn(u) : j <= i
                                  /\ inbox[i].problems = Last(u)
      BY <2>0, <2>7 DEF Current
    <3>2. CASE i = 1
      <4>1. Undrawn(u)' = {}
        BY <1>1, <2>2, <3>1, <3>2
      <4>2. squiggles'[u] = Last(u)
        BY <2>5, <3>1, <3>2
      <4> QED BY <2>0, <4>1, <4>2 DEF Current
    <3>3. CASE i # 1
      <4>1. i - 1 \in Undrawn(u)' /\ inbox'[i - 1] = inbox[i]
        BY <1>1, <2>1, <3>3
      <4>2. \A j \in Undrawn(u)' : j <= i - 1
        BY <2>1, <2>2, <3>1, <3>3
      <4> QED BY <2>0, <3>1, <4>1, <4>2 DEF Current
    <3> QED BY <3>2, <3>3
  <2> QED BY <2>6, <2>7
<1> QED BY <1>1, <1>3, <1>4 DEF Drawing

(***************************************************************************)
(* A check: a closed document cleared, if it was a close, and then every   *)
(* open one once.                                                          *)
(***************************************************************************)
\* What the stream holds after a check: n messages about v, then the listing.
Checked(n, v, k, order) ==
    /\ IsSeq(inbox') /\ Len(inbox) \in Nat /\ Len(inbox') = Len(inbox) + n + k
    /\ \A i \in 1..Len(inbox) : inbox'[i] = inbox[i]
    /\ \A i \in 1..n : /\ inbox'[Len(inbox) + i].method = "publish"
                       /\ inbox'[Len(inbox) + i].uri = v
                       /\ inbox'[Len(inbox) + i].problems = {}
    /\ \A i \in 1..k : /\ inbox'[Len(inbox) + n + i].method = "publish"
                       /\ inbox'[Len(inbox) + n + i].uri = order[i]
                       /\ inbox'[Len(inbox) + n + i].problems = seen'[order[i]]
    /\ \A i \in 1..k : order[i] \in Opened(documents')
    /\ \A x \in Opened(documents') : \E i \in 1..k : order[i] = x
    /\ \A i, j \in 1..k : order[i] = order[j] => i = j

LEMMA PublishSays ==
    ASSUME NEW u, NEW problems
    PROVE  /\ Publish(u, problems).method = "publish"
           /\ Publish(u, problems).uri = u /\ Publish(u, problems).problems = problems
BY DEF Publish

LEMMA PublishedEach ==
    ASSUME NEW docs, NEW order \in Listings(Opened(docs)), NEW what
    PROVE  \E k \in Nat :
              /\ IsSeq(Published(order, what)) /\ Len(Published(order, what)) = k
              /\ \A i \in 1..k : Published(order, what)[i] = Publish(order[i], what[order[i]])
              /\ \A i \in 1..k : order[i] \in Opened(docs)
              /\ \A x \in Opened(docs) : \E i \in 1..k : order[i] = x
              /\ \A i, j \in 1..k : order[i] = order[j] => i = j
<1>1. IsFiniteSet(Opened(docs))
  BY UrisAssumption, FS_Subset DEF Opened
<1>2. PICK k \in Nat : /\ DOMAIN order = 1..k
                       /\ \A i \in 1..k : order[i] \in Opened(docs)
                       /\ \A x \in Opened(docs) : \E i \in 1..k : order[i] = x
                       /\ \A i, j \in 1..k : order[i] = order[j] => i = j
  BY <1>1, Listed
<1>3. \A i \in 1..k : Published(order, what)[i] = Publish(order[i], what[order[i]])
  BY <1>2 DEF Published
<1>4. Published(order, what) = [i \in 1..k |-> Published(order, what)[i]]
  BY <1>2 DEF Published
<1> QED BY <1>2, <1>3, <1>4, Written

LEMMA ChecksAll ==
    ASSUME Drawing, NEW v, NEW n \in Nat, NEW before, IsSeq(before), Len(before) = n,
           \A i \in 1..n : before[i] = Publish(v, {}), PublishAll(documents', before)
    PROVE  \E k \in Nat : \E order : Checked(n, v, k, order)
<1>1. PICK order \in Listings(Opened(documents')) :
          inbox' = inbox \o before \o [i \in DOMAIN order |->
                                         Publish(order[i], seen'[order[i]])]
  BY DEF PublishAll
<1> DEFINE said == Published(order, seen')
           mid == Join(inbox, before)
<1>2. inbox' = Join(mid, said)
  BY <1>1 DEF Join, Published
<1>3. PICK docs, what : docs = documents' /\ what = seen'
  OBVIOUS
<1>4. PICK k \in Nat :
              /\ IsSeq(Published(order, what)) /\ Len(Published(order, what)) = k
              /\ \A i \in 1..k : Published(order, what)[i] = Publish(order[i], what[order[i]])
              /\ \A i \in 1..k : order[i] \in Opened(docs)
              /\ \A x \in Opened(docs) : \E i \in 1..k : order[i] = x
              /\ \A i, j \in 1..k : order[i] = order[j] => i = j
  <2>1. order \in Listings(Opened(docs))
    BY <1>3
  <2> QED BY <2>1, PublishedEach
<1>5. /\ IsSeq(said) /\ Len(said) = k
      /\ \A i \in 1..k : said[i] = Publish(order[i], what[order[i]])
  BY <1>3, <1>4
<1>6. /\ IsSeq(mid) /\ Len(inbox) \in Nat
      /\ Len(mid) = Len(inbox) + n
      /\ \A i \in 1..Len(inbox) : mid[i] = inbox[i]
      /\ \A i \in 1..n : mid[Len(inbox) + i] = before[i]
  BY Joined DEF Drawing
<1> HIDE DEF said, mid
<1>7. /\ IsSeq(inbox') /\ Len(mid) \in Nat /\ Len(inbox') = Len(mid) + Len(said)
      /\ \A i \in 1..Len(mid) : inbox'[i] = mid[i]
      /\ \A i \in 1..Len(said) : inbox'[Len(mid) + i] = said[i]
  <2>1. /\ IsSeq(Join(mid, said)) /\ Len(mid) \in Nat
        /\ Len(Join(mid, said)) = Len(mid) + Len(said)
        /\ \A i \in 1..Len(mid) : Join(mid, said)[i] = mid[i]
        /\ \A i \in 1..Len(said) : Join(mid, said)[Len(mid) + i] = said[i]
    <3>1. PICK a, b : a = mid /\ b = said
      OBVIOUS
    <3>2. IsSeq(a) /\ IsSeq(b)
      BY <1>5, <1>6, <3>1
    <3>3. PICK r : r = Join(a, b)
      OBVIOUS
    <3>4. /\ IsSeq(r) /\ Len(a) \in Nat /\ Len(r) = Len(a) + Len(b)
          /\ \A i \in 1..Len(a) : r[i] = a[i]
          /\ \A i \in 1..Len(b) : r[Len(a) + i] = b[i]
      BY <3>2, <3>3, JoinedAs
    <3> QED BY <3>1, <3>3, <3>4
  <2> QED BY <1>2, <2>1
<1>8. \A i \in 1..Len(inbox) : inbox'[i] = inbox[i]
  BY <1>6, <1>7
<1>9. \A i \in 1..n : inbox'[Len(inbox) + i] = Publish(v, {})
  <2> SUFFICES ASSUME NEW i \in 1..n PROVE inbox'[Len(inbox) + i] = Publish(v, {})
    OBVIOUS
  <2>1. Len(inbox) + i \in 1..Len(mid)
    BY <1>6
  <2> QED BY <1>6, <1>7, <2>1
<1>10. \A i \in 1..k : inbox'[Len(inbox) + n + i] = Publish(order[i], what[order[i]])
  BY <1>5, <1>6, <1>7
<1>11. \A i \in 1..n : /\ inbox'[Len(inbox) + i].method = "publish"
                       /\ inbox'[Len(inbox) + i].uri = v
                       /\ inbox'[Len(inbox) + i].problems = {}
  BY <1>9, PublishSays
<1>12. \A i \in 1..k : /\ inbox'[Len(inbox) + n + i].method = "publish"
                       /\ inbox'[Len(inbox) + n + i].uri = order[i]
                       /\ inbox'[Len(inbox) + n + i].problems = what[order[i]]
  BY <1>10, PublishSays
<1>13. Len(inbox') = Len(inbox) + n + k
  BY <1>5, <1>6, <1>7
<1>14. /\ \A i \in 1..k : order[i] \in Opened(documents')
       /\ \A x \in Opened(documents') : \E i \in 1..k : order[i] = x
  BY <1>3, <1>4
<1>15. Checked(n, v, k, order)
  BY <1>3, <1>4, <1>6, <1>7, <1>8, <1>11, <1>12, <1>13, <1>14 DEF Checked
<1> QED BY <1>15

\* One document was heard of, and a close says so once.
LEMMA DrawingChecked ==
    ASSUME Drawing, NEW v, NEW n \in {0, 1}, NEW k \in Nat, NEW order, Checked(n, v, k, order),
           \A u \in Uris : u # v => documents'[u] = documents[u],
           n = 0 /\ v \in Uris => documents'[v] # Closed,
           UNCHANGED squiggles
    PROVE  Drawing'
<1> DEFINE m == Len(inbox)
<1>1. m \in Nat /\ DOMAIN inbox = 1..m /\ DOMAIN inbox' = 1..(m + n + k)
  BY DEF Checked, IsSeq, Drawing
<1>2. \A j \in DOMAIN inbox' : \/ j \in 1..m
                               \/ j = m + 1 /\ n = 1
                               \/ \E i \in 1..k : j = m + n + i
  <2> SUFFICES ASSUME NEW j \in 1..(m + n + k), ~(j \in 1..m), ~(j = m + 1 /\ n = 1)
               PROVE  \E i \in 1..k : j = m + n + i
    BY <1>1
  <2> HIDE DEF m
  <2>1. j - m - n \in 1..k /\ j = m + n + (j - m - n)
    BY <1>1
  <2> QED BY <2>1
<1>3. ASSUME NEW u \in Uris PROVE Current(u)'
  <2>1. CASE u \in Opened(documents')
    <3>1. PICK i \in 1..k : order[i] = u
      BY <2>1 DEF Checked
    <3>2. documents'[u] # Closed
      BY <2>1 DEF Opened
    <3>3. m + n + i \in Undrawn(u)' /\ inbox'[m + n + i].problems = Last(u)'
      BY <1>1, <3>1, <3>2 DEF Checked, Undrawn, Last
    <3>4. \A j \in Undrawn(u)' : j <= m + n + i
      <4> SUFFICES ASSUME NEW j \in Undrawn(u)' PROVE j <= m + n + i
        OBVIOUS
      <4>1. j \in DOMAIN inbox' /\ inbox'[j].uri = u
        BY DEF Undrawn
      <4>2. CASE j \in 1..m \/ (j = m + 1 /\ n = 1)
        BY <1>1, <4>2
      <4>3. ASSUME NEW p \in 1..k, j = m + n + p PROVE j <= m + n + i
        <5>1. order[p] = u
          BY <4>1, <4>3 DEF Checked
        <5>2. p = i
          BY <3>1, <5>1 DEF Checked
        <5> QED BY <1>1, <4>3, <5>2
      <4> QED BY <1>2, <4>1, <4>2, <4>3
    <3> QED BY <3>3, <3>4 DEF Current
  <2>2. CASE u \notin Opened(documents')
    <3>1. documents'[u] = Closed /\ Last(u)' = {}
      BY <2>2 DEF Opened, Last
    <3>2. \A p \in 1..k : order[p] # u
      BY <2>2 DEF Checked
    <3>5. \A j \in Undrawn(u)' : j \in 1..m \/ (j = m + 1 /\ n = 1 /\ u = v)
      <4> SUFFICES ASSUME NEW j \in Undrawn(u)', ~(j \in 1..m)
                   PROVE  j = m + 1 /\ n = 1 /\ u = v
        OBVIOUS
      <4>1. j \in DOMAIN inbox' /\ inbox'[j].uri = u
        BY DEF Undrawn
      <4>2. ~(\E i \in 1..k : j = m + n + i)
        <5> SUFFICES ASSUME NEW i \in 1..k, j = m + n + i PROVE FALSE
          OBVIOUS
        <5>1. inbox'[j].uri = order[i]
          BY DEF Checked
        <5> QED BY <3>2, <4>1, <5>1
      <4>3. j = m + 1 /\ n = 1
        BY <1>2, <4>1, <4>2
      <4>4. 1 \in 1..n /\ inbox'[m + 1].uri = v
        BY <4>3 DEF Checked
      <4> QED BY <4>1, <4>3, <4>4
    <3>3. CASE n = 1 /\ u = v
      <4>1. m + 1 \in Undrawn(u)' /\ inbox'[m + 1].problems = {}
        BY <1>1, <3>3 DEF Checked, Undrawn
      <4>2. \A j \in Undrawn(u)' : j <= m + 1
        BY <1>1, <3>5
      <4> QED BY <3>1, <4>1, <4>2 DEF Current
    <3>4. CASE ~(n = 1 /\ u = v)
      <4>1. u # v
        BY <3>1, <3>4
      <4>2. Undrawn(u)' = Undrawn(u)
        <5>1. \A j \in Undrawn(u)' : j \in 1..m
          BY <3>4, <3>5
        <5>2. \A j \in 1..m : inbox'[j] = inbox[j]
          BY DEF Checked
        <5>3. 1..m \subseteq DOMAIN inbox'
          BY <1>1
        <5> QED BY <1>1, <5>1, <5>2, <5>3 DEF Undrawn
      <4>3. \A i \in Undrawn(u) : inbox'[i] = inbox[i]
        BY <1>1 DEF Checked, Undrawn
      <4>4. documents[u] = Closed /\ Last(u) = {}
        BY <3>1, <4>1 DEF Last
      <4> QED BY <3>1, <4>2, <4>3, <4>4 DEF Current, Drawing
    <3> QED BY <3>3, <3>4
  <2> QED BY <2>1, <2>2
<1> QED BY <1>3 DEF Drawing, Checked

(***************************************************************************)
(* Only a close says Closed.  A text is a record of the six things the     *)
(* resolver tells apart, and so is a text after a rename.                  *)
(***************************************************************************)
TextOf(m, uses, decls, calls, dots, deprecated) ==
    [module |-> m, uses |-> uses, decls |-> decls, calls |-> calls, dots |-> dots,
     deprecated |-> deprecated]
IsText(t) ==
    \E m, uses, decls, calls, dots, deprecated :
        t = TextOf(m, uses, decls, calls, dots, deprecated)

\* What people type, and what is on disk before the session, is text; the mark
\* of a document that is not open is none.
TextsAreTexts ==
    /\ FirstDisk = [f \in Files |-> FirstDisk[f]]
    /\ \A f \in Files : /\ \A t \in Texts[f] : IsText(t)
                        /\ FirstDisk[f] = Absent \/ IsText(FirstDisk[f])
    /\ ~IsText(Closed)

SendsText(m) == m.method \in {"didOpen", "didChange"} => IsText(m.text)
EditsTexts(m) ==
    m.method = "answer" => \A u \in DOMAIN m.texts : IsText(m.texts[u])

Shows(docs) == /\ docs = [u \in Uris |-> docs[u]]
               /\ \A u \in Uris : docs[u] = Closed \/ IsText(docs[u])
Holds(files) == /\ files = [f \in Files |-> files[f]]
                /\ \A f \in Files : files[f] = Absent \/ IsText(files[f])
Sends(s) == IsSeq(s) /\ \A i \in DOMAIN s : SendsText(s[i])
Answers(s) == IsSeq(s) /\ \A i \in DOMAIN s : EditsTexts(s[i])

Texted ==
    /\ Shows(buffer) /\ Shows(documents) /\ Holds(disk) /\ roots \subseteq Uris
    /\ Sends(outbox) /\ Answers(inbox)

LEMMA RenamedIsText ==
    ASSUME NEW t, IsText(t), NEW def, NEW new
    PROVE  IsText(Renamed(t, def, new))
<1> DEFINE Swap(n) == IF n = def.name THEN new ELSE n
           Op(d) == IF d = <<def.of, def.name>> THEN <<def.of, new>> ELSE d
           Decl(d) == [name |-> d.name,
                       ops |-> IF d.name = def.of THEN {Swap(o) : o \in d.ops} ELSE d.ops]
           d1 == [i \in Indices(t) |-> Decl(t.decls[i])]
           o1 == {Op(d) : d \in t.dots}
           u2 == {IF use = <<def.of, def.name>> THEN <<def.of, new>> ELSE use : use \in t.uses}
           c2 == {Swap(n) : n \in t.calls}
           o2 == {<<Swap(d[1]), d[2]>> : d \in t.dots}
           d3 == [i \in Indices(t) |-> [t.decls[i] EXCEPT !.name = Swap(t.decls[i].name)]]
<1>1. Renamed(t, def, new) =
          CASE def.kind = "op" -> [t EXCEPT !.decls = d1, !.dots = o1]
            [] def.kind = "import" -> [t EXCEPT !.uses = u2, !.calls = c2, !.dots = o2]
            [] OTHER -> [t EXCEPT !.decls = d3, !.calls = c2, !.dots = o2]
  BY DEF Renamed
<1> HIDE DEF d1, o1, u2, c2, o2, d3
<1>0. PICK m, u, d, c, o, q : t = TextOf(m, u, d, c, o, q)
  BY DEF IsText
<1>2. IsText([t EXCEPT !.decls = d1, !.dots = o1])
  <2>1. [t EXCEPT !.decls = d1, !.dots = o1] = [[t EXCEPT !.decls = d1] EXCEPT !.dots = o1]
    OBVIOUS
  <2>2. [t EXCEPT !.decls = d1] = TextOf(m, u, d1, c, o, q)
    BY <1>0 DEF TextOf
  <2>3. [TextOf(m, u, d1, c, o, q) EXCEPT !.dots = o1] = TextOf(m, u, d1, c, o1, q)
    BY DEF TextOf
  <2>4. [t EXCEPT !.decls = d1, !.dots = o1] = TextOf(m, u, d1, c, o1, q)
    BY <2>1, <2>2, <2>3
  <2> QED BY <2>4 DEF IsText
<1>3. IsText([t EXCEPT !.uses = u2, !.calls = c2, !.dots = o2])
  <2>1. [t EXCEPT !.uses = u2, !.calls = c2, !.dots = o2]
            = [[[t EXCEPT !.uses = u2] EXCEPT !.calls = c2] EXCEPT !.dots = o2]
    OBVIOUS
  <2>2. [t EXCEPT !.uses = u2] = TextOf(m, u2, d, c, o, q)
    BY <1>0 DEF TextOf
  <2>3. [TextOf(m, u2, d, c, o, q) EXCEPT !.calls = c2] = TextOf(m, u2, d, c2, o, q)
    BY DEF TextOf
  <2>4. [TextOf(m, u2, d, c2, o, q) EXCEPT !.dots = o2] = TextOf(m, u2, d, c2, o2, q)
    BY DEF TextOf
  <2>5. [t EXCEPT !.uses = u2, !.calls = c2, !.dots = o2] = TextOf(m, u2, d, c2, o2, q)
    BY <2>1, <2>2, <2>3, <2>4
  <2> QED BY <2>5 DEF IsText
<1>4. IsText([t EXCEPT !.decls = d3, !.calls = c2, !.dots = o2])
  <2>1. [t EXCEPT !.decls = d3, !.calls = c2, !.dots = o2]
            = [[[t EXCEPT !.decls = d3] EXCEPT !.calls = c2] EXCEPT !.dots = o2]
    OBVIOUS
  <2>2. [t EXCEPT !.decls = d3] = TextOf(m, u, d3, c, o, q)
    BY <1>0 DEF TextOf
  <2>3. [TextOf(m, u, d3, c, o, q) EXCEPT !.calls = c2] = TextOf(m, u, d3, c2, o, q)
    BY DEF TextOf
  <2>4. [TextOf(m, u, d3, c2, o, q) EXCEPT !.dots = o2] = TextOf(m, u, d3, c2, o2, q)
    BY DEF TextOf
  <2>5. [t EXCEPT !.decls = d3, !.calls = c2, !.dots = o2] = TextOf(m, u, d3, c2, o2, q)
    BY <2>1, <2>2, <2>3, <2>4
  <2> QED BY <2>5 DEF IsText
<1>5. CASE def.kind = "op"
  BY <1>1, <1>2, <1>5
<1>6. CASE def.kind # "op" /\ def.kind = "import"
  BY <1>1, <1>3, <1>6
<1>7. CASE def.kind # "op" /\ def.kind # "import"
  BY <1>1, <1>4, <1>7
<1> QED BY <1>5, <1>6, <1>7

\* What a rename answers with, over any view of texts.
LEMMA EditsAreTexts ==
    ASSUME NEW view, \A v \in DOMAIN view : IsText(view[v]), NEW u \in DOMAIN view, NEW def
    PROVE  \A v \in DOMAIN Edits(view, u, def) : IsText(Edits(view, u, def)[v])
<1>1. DOMAIN Occurrences(view, u, def) \subseteq DOMAIN view
  BY DEF Occurrences
<1>2. /\ DOMAIN Edits(view, u, def) = DOMAIN Occurrences(view, u, def)
      /\ \A v \in DOMAIN Occurrences(view, u, def) :
            Edits(view, u, def)[v] = Renamed(view[v], Occurrences(view, u, def)[v], Fresh)
  BY DEF Edits
<1> QED BY <1>1, <1>2, RenamedIsText

LEMMA ViewIsOfTexts ==
    ASSUME NEW docs, NEW files, NEW walk \in SUBSET Uris, Shows(docs), Holds(files)
    PROVE  /\ Opened(docs) \subseteq DOMAIN View(docs, files, walk)
           /\ \A v \in DOMAIN View(docs, files, walk) : IsText(View(docs, files, walk)[v])
<1>1. \A w \in Uris : FileOf[w] \in Files
  BY UrisAssumption
<1>2. \A w \in Opened(docs) : IsText(docs[w])
  BY DEF Opened, Shows
<1>3. \A w \in Uris : files[FileOf[w]] # Absent => IsText(files[FileOf[w]])
  BY <1>1 DEF Holds
<1> QED BY <1>2, <1>3 DEF View

\* How a stream is added to and read, by its entries.
Grown(s, e) == Append(s, e)

LEMMA GrownBy ==
    ASSUME NEW s, IsSeq(s), NEW e, NEW t, t = Grown(s, e)
    PROVE  IsSeq(t) /\ \A i \in DOMAIN t : (i \in DOMAIN s /\ t[i] = s[i]) \/ t[i] = e
<1>1. /\ IsSeq(t) /\ Len(s) \in Nat /\ Len(t) = Len(s) + 1
      /\ \A i \in 1..Len(s) : t[i] = s[i]
      /\ t[Len(s) + 1] = e
  BY Appended DEF Grown
<1>2. DOMAIN s = 1..Len(s) /\ DOMAIN t = 1..(Len(s) + 1)
  BY <1>1 DEF IsSeq
<1> QED BY <1>1, <1>2

LEMMA ShrunkBy ==
    ASSUME NEW s, IsSeq(s), s # <<>>, NEW t, t = Tail(s)
    PROVE  /\ IsSeq(t) /\ 1 \in DOMAIN s /\ Head(s) = s[1]
           /\ \A i \in DOMAIN t : i + 1 \in DOMAIN s /\ t[i] = s[i + 1]
<1>1. /\ IsSeq(t) /\ Len(s) \in Nat /\ Len(s) > 0 /\ Len(t) = Len(s) - 1
      /\ \A i \in 1..(Len(s) - 1) : t[i] = s[i + 1]
      /\ Head(s) = s[1]
  BY Removed
<1>2. DOMAIN s = 1..Len(s) /\ DOMAIN t = 1..(Len(s) - 1)
  BY <1>1 DEF IsSeq
<1> QED BY <1>1, <1>2

LEMMA SendsMore ==
    ASSUME NEW s, Sends(s), NEW m, SendsText(m), NEW t, t = Append(s, m) PROVE Sends(t)
<1>1. IsSeq(t) /\ \A i \in DOMAIN t : (i \in DOMAIN s /\ t[i] = s[i]) \/ t[i] = m
  <2>1. IsSeq(s)
    BY DEF Sends
  <2>2. PICK r : r = Grown(s, m)
    OBVIOUS
  <2>3. IsSeq(r) /\ \A i \in DOMAIN r : (i \in DOMAIN s /\ r[i] = s[i]) \/ r[i] = m
    BY <2>1, <2>2, GrownBy
  <2> QED BY <2>2, <2>3 DEF Grown
<1> QED BY <1>1 DEF Sends

LEMMA SendsLess ==
    ASSUME NEW s, Sends(s), s # <<>>, NEW t, t = Tail(s) PROVE Sends(t) /\ SendsText(Head(s))
<1>1. /\ IsSeq(t) /\ 1 \in DOMAIN s /\ Head(s) = s[1]
      /\ \A i \in DOMAIN t : i + 1 \in DOMAIN s /\ t[i] = s[i + 1]
  BY ShrunkBy DEF Sends
<1> QED BY <1>1 DEF Sends

LEMMA AnswersMore ==
    ASSUME NEW s, Answers(s), NEW m, EditsTexts(m), NEW t, t = Append(s, m) PROVE Answers(t)
<1>1. IsSeq(t) /\ \A i \in DOMAIN t : (i \in DOMAIN s /\ t[i] = s[i]) \/ t[i] = m
  <2>1. IsSeq(s)
    BY DEF Answers
  <2>2. PICK r : r = Grown(s, m)
    OBVIOUS
  <2>3. IsSeq(r) /\ \A i \in DOMAIN r : (i \in DOMAIN s /\ r[i] = s[i]) \/ r[i] = m
    BY <2>1, <2>2, GrownBy
  <2> QED BY <2>2, <2>3 DEF Grown
<1> QED BY <1>1 DEF Answers

LEMMA AnswersLess ==
    ASSUME NEW s, Answers(s), s # <<>>, NEW t, t = Tail(s) PROVE Answers(t) /\ EditsTexts(Head(s))
<1>1. /\ IsSeq(t) /\ 1 \in DOMAIN s /\ Head(s) = s[1]
      /\ \A i \in DOMAIN t : i + 1 \in DOMAIN s /\ t[i] = s[i + 1]
  BY ShrunkBy DEF Answers
<1> QED BY <1>1 DEF Answers

LEMMA SendsJoin ==
    ASSUME NEW s, NEW t, Sends(s), Sends(t) PROVE Sends(Join(s, t))
BY JoinedOn DEF Sends

LEMMA AnswersJoin ==
    ASSUME NEW s, NEW t, Answers(s), Answers(t) PROVE Answers(Join(s, t))
BY JoinedOn DEF Answers

LEMMA ShowsOne ==
    ASSUME NEW docs, Shows(docs), NEW v, NEW t, t = Closed \/ IsText(t),
           NEW next, next = [docs EXCEPT ![v] = t]
    PROVE  Shows(next)
BY DEF Shows

LEMMA HoldsOne ==
    ASSUME NEW files, Holds(files), NEW g, NEW t, t = Absent \/ IsText(t),
           NEW next, next = [files EXCEPT ![g] = t]
    PROVE  Holds(next)
BY DEF Holds

LEMMA SendsNoText ==
    ASSUME NEW u, NEW t, NEW def, NEW method, method \notin {"didOpen", "didChange"}
    PROVE  /\ SendsText(Say(method)) /\ SendsText(Ask(u, def))
           /\ SendsText(About("didClose", u, t))
BY DEF SendsText, Say, Ask, About

LEMMA SendsAText ==
    ASSUME NEW u, NEW t, IsText(t), NEW method
    PROVE  SendsText(About(method, u, t))
BY DEF SendsText, About

LEMMA AnswersNothing ==
    ASSUME NEW id, NEW result, NEW texts, \A u \in DOMAIN texts : IsText(texts[u])
    PROVE  EditsTexts(Answer(id, result, texts))
BY DEF EditsTexts, Answer

LEMMA Emptied == DOMAIN <<>> = {}
OBVIOUS

LEMMA TextedEditor == TextsAreTexts /\ Texted /\ Editor => Texted'
<1> SUFFICES ASSUME TextsAreTexts, Texted, Editor PROVE Texted'
  OBVIOUS
<1>0. /\ Shows(buffer) /\ Shows(documents) /\ Holds(disk) /\ roots \subseteq Uris
      /\ Sends(outbox) /\ Answers(inbox)
  BY DEF Texted
<1>s. ASSUME NEW m, SendsText(m), outbox' = Append(outbox, m) PROVE Sends(outbox')
  BY <1>0, <1>s, SendsMore
<1>1. CASE Initialize
  <2>1. Sends(outbox')
    BY <1>1, <1>s, SendsNoText DEF Initialize, Send
  <2> QED BY <1>0, <1>1, <2>1 DEF Initialize, Texted, serverVars
<1>2. CASE Shutdown
  <2>1. Sends(outbox')
    BY <1>2, <1>s, SendsNoText DEF Shutdown, Send
  <2> QED BY <1>0, <1>2, <2>1 DEF Shutdown, Texted, serverVars
<1>3. CASE Exit
  <2>1. Sends(outbox')
    BY <1>3, <1>s, SendsNoText DEF Exit, Send
  <2> QED BY <1>0, <1>3, <2>1 DEF Exit, Texted, serverVars
<1>4. CASE Draw
  <2>1. Answers(inbox')
    BY <1>0, <1>4, AnswersLess DEF Draw, Received
  <2> QED BY <1>0, <1>4, <2>1 DEF Draw, Texted, serverVars
<1>5. CASE Answered
  <2>1. Answers(inbox')
    BY <1>0, <1>5, AnswersLess DEF Answered, Received
  <2> QED BY <1>0, <1>5, <2>1 DEF Answered, Texted, serverVars
<1>6. CASE ApplyRename
  <2> DEFINE texts == Head(inbox).texts
             open == DOMAIN texts \cap Opened(buffer)
  <2>1. Answers(inbox') /\ EditsTexts(Head(inbox))
    BY <1>0, <1>6, AnswersLess DEF ApplyRename, Received
  <2>2. \A u \in DOMAIN texts : IsText(texts[u])
    BY <1>6, <2>1 DEF ApplyRename, EditsTexts
  <2>3. PICK order \in Listings(open) :
            outbox' = outbox \o [i \in DOMAIN order |->
                                     About("didChange", order[i], texts[order[i]])]
    BY <1>6 DEF ApplyRename
  <2>4. outbox' = Join(outbox, Changes(order, texts))
    BY <2>3 DEF Join, Changes
  <2>5. /\ buffer' = [u \in Uris |-> IF u \in open THEN texts[u] ELSE buffer[u]]
        /\ disk' = [f \in Files |->
                        IF \E u \in DOMAIN texts \ open : FileOf[u] = f
                        THEN texts[CHOOSE u \in DOMAIN texts \ open : FileOf[u] = f]
                        ELSE disk[f]]
        /\ documents' = documents /\ roots' = roots
    BY <1>6 DEF ApplyRename, serverVars
  <2>6. open \in SUBSET Uris /\ open \subseteq DOMAIN texts
    BY DEF Opened
  <2> HIDE DEF texts, open
  <2>7. Shows(buffer')
    BY <1>0, <2>2, <2>5, <2>6 DEF Shows
  <2>8. Holds(disk')
    <3>1. ASSUME NEW f \in Files PROVE disk'[f] = Absent \/ IsText(disk'[f])
      <4>1. CASE \E u \in DOMAIN texts \ open : FileOf[u] = f
        <5>1. PICK v : v = CHOOSE u \in DOMAIN texts \ open : FileOf[u] = f
          OBVIOUS
        <5>2. v \in DOMAIN texts
          BY <4>1, <5>1
        <5>3. disk'[f] = texts[v]
          BY <2>5, <4>1, <5>1
        <5> QED BY <2>2, <5>2, <5>3
      <4>2. CASE ~ \E u \in DOMAIN texts \ open : FileOf[u] = f
        BY <1>0, <2>5, <4>2 DEF Holds
      <4> QED BY <4>1, <4>2
    <3>2. disk' = [f \in Files |-> disk'[f]]
      BY <2>5
    <3> QED BY <3>1, <3>2 DEF Holds
  <2>9. Sends(outbox')
    <3>1. PICK n \in Nat : SaidOf(n, open, order, texts)
      BY <2>6, UrisAssumption, FS_Subset, ChangesSaid
    <3>2. PICK said : said = Changes(order, texts)
      OBVIOUS
    <3>3. IsSeq(said) /\ Len(said) = n
          /\ \A i \in 1..n : order[i] \in open /\ said[i].text = texts[order[i]]
      BY <3>1, <3>2 DEF SaidOf
    <3>4. DOMAIN said = 1..n
      BY <3>3 DEF IsSeq
    <3>5. Sends(said)
      BY <2>2, <2>6, <3>3, <3>4 DEF Sends, SendsText
    <3> QED BY <1>0, <2>4, <3>2, <3>5, SendsJoin
  <2> QED BY <1>0, <2>1, <2>5, <2>7, <2>8, <2>9 DEF Texted
<1>7. ASSUME NEW u \in Uris, Open(u) PROVE Texted'
  <2>1. PICK t \in (IF disk[FileOf[u]] = Absent THEN Texts[FileOf[u]] ELSE {disk[FileOf[u]]}) :
            /\ buffer' = [buffer EXCEPT ![u] = t]
            /\ outbox' = Append(outbox, About("didOpen", u, t))
    BY <1>7 DEF Open, Send
  <2>2. IsText(t)
    BY <1>0, <2>1, UrisAssumption DEF Holds, TextsAreTexts
  <2>3. Shows(buffer')
    BY <1>0, <2>1, <2>2, ShowsOne
  <2>4. Sends(outbox')
    BY <1>s, <2>1, <2>2, SendsAText
  <2> QED BY <1>0, <1>7, <2>3, <2>4 DEF Open, Texted, serverVars
<1>8. ASSUME NEW u \in Uris, Type(u) PROVE Texted'
  <2>1. PICK t \in Texts[FileOf[u]] :
            /\ buffer' = [buffer EXCEPT ![u] = t]
            /\ outbox' = Append(outbox, About("didChange", u, t))
    BY <1>8 DEF Type, Send
  <2>2. IsText(t)
    BY <2>1, UrisAssumption DEF TextsAreTexts
  <2>3. Shows(buffer')
    BY <1>0, <2>1, <2>2, ShowsOne
  <2>4. Sends(outbox')
    BY <1>s, <2>1, <2>2, SendsAText
  <2> QED BY <1>0, <1>8, <2>3, <2>4 DEF Type, Texted, serverVars
<1>9. ASSUME NEW u \in Uris, Save(u) PROVE Texted'
  <2>1. IsText(buffer[u])
    BY <1>0, <1>9 DEF Save, Opened, Shows
  <2>2. Holds(disk')
    BY <1>0, <1>9, <2>1, HoldsOne DEF Save
  <2> QED BY <1>0, <1>9, <2>2 DEF Save, Texted, editorVars, serverVars
<1>10. ASSUME NEW u \in Uris, Close(u) PROVE Texted'
  <2>1. Shows(buffer')
    BY <1>0, <1>10, ShowsOne DEF Close
  <2>2. Sends(outbox')
    <3>1. SendsText(About("didClose", u, Closed))
      BY DEF SendsText, About
    <3> QED BY <1>s, <1>10, <3>1 DEF Close, Send
  <2> QED BY <1>0, <1>10, <2>1, <2>2 DEF Close, Texted, serverVars
<1>11. ASSUME NEW u \in Uris, NEW def, AskRename(u, def) PROVE Texted'
  <2>1. SendsText(Ask(u, def))
    BY DEF SendsText, Ask
  <2>2. Sends(outbox')
    BY <1>s, <1>11, <2>1 DEF AskRename, Send
  <2> QED BY <1>0, <1>11, <2>2 DEF AskRename, Texted, serverVars
<1> QED BY <1>1, <1>2, <1>3, <1>4, <1>5, <1>6, <1>7, <1>8, <1>9, <1>10, <1>11 DEF Editor

LEMMA AnswersPublished ==
    ASSUME Answers(inbox), NEW docs, NEW before, PublishAll(docs, before), IsSeq(before),
           \A j \in DOMAIN before : before[j].method = "publish"
    PROVE  Answers(inbox')
<1>1. PICK order \in Listings(Opened(docs)) :
          inbox' = inbox \o before \o [i \in DOMAIN order |->
                                         Publish(order[i], seen'[order[i]])]
  BY DEF PublishAll
<1>2. inbox' = Join(Join(inbox, before), Published(order, seen'))
  BY <1>1 DEF Join, Published
<1>3. PICK said : said = Published(order, seen')
  OBVIOUS
<1>4. IsSeq(said) /\ \A j \in DOMAIN said : said[j].method = "publish"
  BY <1>3, AllPublished
<1>5. Answers(before) /\ Answers(said)
  BY <1>4 DEF Answers, EditsTexts
<1>6. Answers(Join(inbox, before))
  BY <1>5, AnswersJoin
<1> QED BY <1>2, <1>3, <1>5, <1>6, AnswersJoin

\* What a close is answered with first.
LEMMA ClearedOnce ==
    ASSUME NEW cleared, cleared.method = "publish"
    PROVE  /\ IsSeq(<<cleared>>) /\ Len(<<cleared>>) = 1
           /\ \A j \in DOMAIN <<cleared>> : <<cleared>>[j].method = "publish"
           /\ \A j \in 1..1 : <<cleared>>[j] = cleared
<1>1. <<cleared>> \in Seq({cleared})
  OBVIOUS
<1>2. IsSeq(<<cleared>>)
  BY <1>1 DEF IsSeq
<1>3. \A j \in DOMAIN <<cleared>> : j = 1
  OBVIOUS
<1>4. <<cleared>>[1] = cleared /\ Len(<<cleared>>) = 1
  OBVIOUS
<1>5. \A j \in DOMAIN <<cleared>> : <<cleared>>[j].method = "publish"
  BY <1>3, <1>4, Zenon
<1>6. \A j \in 1..1 : <<cleared>>[j] = cleared
  <2>1. \A j \in 1..1 : j = 1
    OBVIOUS
  <2> QED BY <1>4, <2>1, Zenon
<1> QED BY <1>2, <1>4, <1>5, <1>6

LEMMA TextedServer == TextsAreTexts /\ Texted /\ Server => Texted'
<1> SUFFICES ASSUME TextsAreTexts, Texted, Server PROVE Texted'
  OBVIOUS
<1>0. /\ Shows(buffer) /\ Shows(documents) /\ Holds(disk) /\ roots \subseteq Uris
      /\ Sends(outbox) /\ Answers(inbox)
  BY DEF Texted
<1>a. outbox # <<>> /\ outbox' = Tail(outbox)
  BY DEF Server, HandleInitialize, HandleShutdown, HandleRename, HandleText, HandleClose,
         HandleExit, Arrived, Taken
<1>b. Sends(outbox') /\ SendsText(Head(outbox))
  BY <1>0, <1>a, SendsLess
<1>r. ASSUME NEW id, NEW result, inbox' = Append(inbox, Answer(id, result, <<>>))
      PROVE  Answers(inbox')
  <2>1. EditsTexts(Answer(id, result, <<>>))
    BY AnswersNothing, Emptied
  <2>2. PICK m : m = Answer(id, result, <<>>)
    OBVIOUS
  <2> QED BY <1>0, <1>r, <2>1, <2>2, AnswersMore
<1>1. CASE HandleInitialize
  <2>1. Answers(inbox')
    BY <1>r, <1>1 DEF HandleInitialize, Reply
  <2>2. roots' \subseteq Uris
    BY <1>0, <1>1, UrisAssumption DEF HandleInitialize
  <2> QED BY <1>0, <1>b, <1>1, <2>1, <2>2 DEF HandleInitialize, Texted, editorVars
<1>2. CASE HandleShutdown
  <2>1. Answers(inbox')
    BY <1>r, <1>2 DEF HandleShutdown, Reply
  <2> QED BY <1>0, <1>b, <1>2, <2>1 DEF HandleShutdown, Texted, editorVars
<1>3. CASE HandleRename
  <2> DEFINE u == Head(outbox).uri
             def == Head(outbox).def
             refused == Gated("rename") \/ u \notin Opened(documents) \/ def \notin Defs(documents[u])
             view == View(documents, disk, roots)
  <2>1. IF refused THEN Reply("rename", "refused")
        ELSE inbox' = Append(inbox, Answer("rename", "edit", Edits(view, u, def)))
    BY <1>3 DEF HandleRename
  <2>2. ~refused => u \in Opened(documents)
    OBVIOUS
  <2>3. /\ Opened(documents) \subseteq DOMAIN view
        /\ \A v \in DOMAIN view : IsText(view[v])
    BY <1>0, ViewIsOfTexts
  <2> HIDE DEF u, def, refused, view
  <2>4. ASSUME refused PROVE Answers(inbox')
    BY <1>r, <2>1, <2>4 DEF Reply
  <2>5. ASSUME ~refused PROVE Answers(inbox')
    <3>1. u \in DOMAIN view
      BY <2>2, <2>3, <2>5
    <3>2. PICK texts : texts = Edits(view, u, def)
      OBVIOUS
    <3>3. \A v \in DOMAIN texts : IsText(texts[v])
      BY <2>3, <3>1, <3>2, EditsAreTexts
    <3>4. PICK m : m = Answer("rename", "edit", texts)
      OBVIOUS
    <3>5. EditsTexts(m)
      BY <3>3, <3>4, AnswersNothing
    <3>6. inbox' = Append(inbox, m)
      BY <2>1, <2>5, <3>2, <3>4
    <3> QED BY <1>0, <3>5, <3>6, AnswersMore
  <2>6. Answers(inbox')
    BY <2>4, <2>5
  <2> QED BY <1>0, <1>b, <1>3, <2>6 DEF HandleRename, Texted, editorVars, serverVars
<1>4. CASE HandleText
  <2>1. IsSeq(<<>>)
    BY DEF IsSeq
  <2>2. Answers(inbox')
    BY <1>0, <1>4, <2>1, AnswersPublished DEF HandleText
  <2>3. IsText(Head(outbox).text)
    BY <1>b, <1>4 DEF HandleText, Arrived, SendsText
  <2>4. Shows(documents')
    BY <1>0, <1>4, <2>3, ShowsOne DEF HandleText
  <2> QED BY <1>0, <1>b, <1>4, <2>2, <2>4 DEF HandleText, Texted, editorVars
<1>5. CASE HandleClose
  <2> DEFINE cleared == Publish(Head(outbox).uri, {})
  <2>1. cleared.method = "publish"
    BY DEF Publish
  <2>2. PublishAll(documents', <<cleared>>)
    BY <1>5 DEF HandleClose
  <2> HIDE DEF cleared
  <2>3. Answers(inbox')
    BY <1>0, <2>1, <2>2, ClearedOnce, AnswersPublished
  <2>4. Shows(documents')
    BY <1>0, <1>5, ShowsOne DEF HandleClose
  <2> QED BY <1>0, <1>b, <1>5, <2>3, <2>4 DEF HandleClose, Texted, editorVars
<1>6. CASE HandleExit
  BY <1>0, <1>b, <1>6 DEF HandleExit, Texted, editorVars
<1> QED BY <1>1, <1>2, <1>3, <1>4, <1>5, <1>6 DEF Server

LEMMA DrawingEditor == Drawing /\ Editor => Drawing'
<1> SUFFICES ASSUME Drawing, Editor PROVE Drawing'
  OBVIOUS
<1>1. CASE inbox' = inbox
  <2>1. UNCHANGED <<squiggles, documents, seen>>
    <3>1. CASE Initialize \/ Shutdown \/ Exit
      BY <3>1 DEF Initialize, Shutdown, Exit, serverVars
    <3>2. CASE Draw \/ Answered \/ ApplyRename
      <4>1. inbox # <<>> /\ inbox' = Tail(inbox)
        BY <3>2 DEF Draw, Answered, ApplyRename, Received
      <4>2. PICK t : t = Tail(inbox)
        OBVIOUS
      <4>3. Len(t) = Len(inbox) - 1 /\ Len(inbox) \in Nat
        BY <4>1, <4>2, Removed DEF Drawing
      <4> QED BY <1>1, <4>1, <4>2, <4>3
    <3>3. CASE \E u \in Uris : \/ Open(u) \/ Type(u) \/ Save(u) \/ Close(u)
                               \/ \E def \in Cursors(u) \cap Asked : AskRename(u, def)
      BY <3>3 DEF Open, Type, Save, Close, AskRename, editorVars, serverVars
    <3> QED BY <3>1, <3>2, <3>3 DEF Editor
  <2> QED BY <1>1, <2>1, DrawingStays
<1>2. CASE Draw
  BY <1>2, DrawingRead DEF Draw, Received, serverVars
<1>3. CASE Answered
  <2>1. squiggles' = squiggles /\ Head(inbox).method # "publish"
    BY <1>3 DEF Answered
  <2> QED BY <1>3, <2>1, DrawingRead DEF Answered, Received, serverVars
<1>4. CASE ApplyRename
  <2>1. squiggles' = squiggles /\ Head(inbox).method # "publish"
    BY <1>4 DEF ApplyRename
  <2> QED BY <1>4, <2>1, DrawingRead DEF ApplyRename, Received, serverVars
<1>5. CASE Initialize \/ Shutdown \/ Exit \/ \E u \in Uris :
          \/ Open(u) \/ Type(u) \/ Save(u) \/ Close(u)
          \/ \E def \in Cursors(u) \cap Asked : AskRename(u, def)
  BY <1>1, <1>5 DEF Initialize, Shutdown, Exit, Open, Type, Save, Close, AskRename,
                    editorVars
<1> QED BY <1>2, <1>3, <1>4, <1>5 DEF Editor

LEMMA DrawingServer == TextsAreTexts /\ Texted /\ Drawing /\ Server => Drawing'
<1> SUFFICES ASSUME TextsAreTexts, Texted, Drawing, Server PROVE Drawing'
  OBVIOUS
<1>1. CASE HandleInitialize
  <2>1. PICK result : inbox' = Append(inbox, Answer("initialize", result, <<>>))
    BY <1>1 DEF HandleInitialize, Reply
  <2> QED BY <1>1, <2>1, OnlyAnswered, DrawingAnswered DEF HandleInitialize, editorVars
<1>2. CASE HandleShutdown
  <2>1. PICK result : inbox' = Append(inbox, Answer("shutdown", result, <<>>))
    BY <1>2 DEF HandleShutdown, Reply
  <2> QED BY <1>2, <2>1, OnlyAnswered, DrawingAnswered DEF HandleShutdown, editorVars
<1>3. CASE HandleRename
  <2>1. PICK result, texts : inbox' = Append(inbox, Answer("rename", result, texts))
    BY <1>3 DEF HandleRename, Reply
  <2> QED BY <1>3, <2>1, OnlyAnswered, DrawingAnswered DEF HandleRename, editorVars, serverVars
<1>4. CASE HandleText
  <2> DEFINE v == Head(outbox).uri
  <2>1. SendsText(Head(outbox))
    <3>1. outbox # <<>> /\ Sends(outbox)
      BY <1>4 DEF HandleText, Arrived, Texted
    <3> QED BY <3>1, SendsLess
  <2>2. IsText(Head(outbox).text)
    BY <1>4, <2>1 DEF HandleText, Arrived, SendsText
  <2>3. /\ v \in Uris => documents'[v] # Closed
        /\ \A u \in Uris : u # v => documents'[u] = documents[u]
    BY <1>4, <2>2 DEF HandleText, Texted, Shows, TextsAreTexts
  <2>4. IsSeq(<<>>) /\ Len(<<>>) = 0
    BY DEF IsSeq
  <2>5. PublishAll(documents', <<>>) /\ squiggles' = squiggles
    BY <1>4 DEF HandleText, editorVars
  <2> HIDE DEF v
  <2>6. \E k \in Nat : \E order : Checked(0, v, k, order)
    <3>1. PICK before, n : before = <<>> /\ n = 0
      OBVIOUS
    <3>2. /\ n \in Nat /\ IsSeq(before) /\ Len(before) = n
          /\ \A i \in 1..n : before[i] = Publish(v, {})
      BY <2>4, <3>1
    <3>3. PublishAll(documents', before)
      BY <2>5, <3>1
    <3>4. \E k \in Nat : \E order : Checked(n, v, k, order)
      BY <3>2, <3>3, ChecksAll
    <3> QED BY <3>1, <3>4
  <2> QED BY <2>3, <2>5, <2>6, DrawingChecked
<1>5. CASE HandleClose
  <2> DEFINE v == Head(outbox).uri
             cleared == Publish(v, {})
  <2>1. /\ \A u \in Uris : u # v => documents'[u] = documents[u]
    BY <1>5 DEF HandleClose, Texted, Shows
  <2>2. PublishAll(documents', <<cleared>>) /\ squiggles' = squiggles
    BY <1>5 DEF HandleClose, editorVars
  <2>3. cleared.method = "publish"
    BY DEF Publish
  <2>4. v \in Uris => documents'[v] = Closed
    BY <1>5 DEF HandleClose, Texted, Shows
  <2>5. cleared = Publish(v, {})
    OBVIOUS
  <2> HIDE DEF v, cleared
  <2>6. PICK before : before = <<cleared>>
    OBVIOUS
  <2>7. IsSeq(before) /\ Len(before) = 1 /\ \A i \in 1..1 : before[i] = Publish(v, {})
    BY <2>3, <2>5, <2>6, ClearedOnce
  <2>8. PublishAll(documents', before)
    BY <2>2, <2>6
  <2>9. \E k \in Nat : \E order : Checked(1, v, k, order)
    BY <2>7, <2>8, ChecksAll
  <2> QED BY <2>1, <2>2, <2>4, <2>9, DrawingChecked
<1>6. CASE HandleExit
  BY <1>6, DrawingStays DEF HandleExit, editorVars
<1> QED BY <1>1, <1>2, <1>3, <1>4, <1>5, <1>6 DEF Server

\* Whatever the editor draws under a document, once what was sent is, is what
\* the last check of the workspace said of it, and nothing under one that was
\* closed: each publish replaces what is there and none is overtaken by an
\* older one (server.rs published, the clearing of a closed document).
THEOREM NothingDrawnIsStale ==
    ASSUME TextsAreTexts PROVE Spec => []SquigglesAreCurrent
<1>1. Init => Texted /\ Drawing
  <2> SUFFICES ASSUME Init PROVE Texted /\ Drawing
    OBVIOUS
  <2>1. IsSeq(<<>>) /\ DOMAIN <<>> = {}
    BY DEF IsSeq
  <2>2. disk = [f \in Files |-> disk[f]]
    BY DEF Init, TextsAreTexts
  <2>3. Texted
    BY <2>1, <2>2 DEF Init, Texted, Shows, Holds, Sends, Answers, TextsAreTexts
  <2>4. Drawing
    BY <2>1 DEF Init, Drawing, Current, Undrawn, Last
  <2> QED BY <2>3, <2>4
<1>2. Texted /\ Drawing /\ [Next]_vars => (Texted /\ Drawing)'
  <2> SUFFICES ASSUME Texted, Drawing, [Next]_vars PROVE Texted' /\ Drawing'
    OBVIOUS
  <2>1. CASE Editor
    BY <2>1, TextedEditor, DrawingEditor
  <2>2. CASE Server
    BY <2>2, TextedServer, DrawingServer
  <2>3. ASSUME NEW f \in Files, WriteFile(f) PROVE Texted' /\ Drawing'
    <3>1. PICK t \in Texts[f] \cup {Absent} : disk' = [disk EXCEPT ![f] = t]
      BY <2>3 DEF WriteFile
    <3>2. t = Absent \/ IsText(t)
      BY <3>1 DEF TextsAreTexts
    <3>3. Holds(disk')
      BY <3>1, <3>2, HoldsOne DEF Texted
    <3> QED BY <2>3, <3>3, DrawingStays DEF WriteFile, Texted, editorVars, serverVars
  <2>4. CASE UNCHANGED vars
    BY <2>4, DrawingStays DEF vars, editorVars, serverVars, Texted
  <2> QED BY <2>1, <2>2, <2>3, <2>4 DEF Next
<1>3. Drawing => SquigglesAreCurrent
  BY DEF Drawing, Current, Last, SquigglesAreCurrent
<1> QED BY <1>1, <1>2, <1>3, PTL DEF Spec

(***************************************************************************)
(* A rename breaks nothing.  First of the texts alone: what a text says,   *)
(* in the terms its diagnostics are made of, before and after.             *)
(***************************************************************************)
Swapped(x, n) == IF x = n THEN Fresh ELSE x

IsPair(p) == p = <<p[1], p[2]>>

\* A text in which the new name is new, in which no effect has an operation
\* named as an item is (of those, the name's first definition is found, which
\* may be either, server.rs:985), and whose `deprecated` lines say none of the
\* names asked for (a rename leaves those lines alone, resolver.rs:1018).
Plain(t) ==
    /\ IsText(t)
    /\ Len(t.decls) \in Nat
    /\ \A i \in Indices(t) : t.decls[i] = [name |-> t.decls[i].name, ops |-> t.decls[i].ops]
    /\ \A i, j \in Indices(t) : t.decls[i].name \notin t.decls[j].ops
    /\ IsFiniteSet(t.uses) /\ \A use \in t.uses : IsPair(use)
    /\ Fresh \notin InScope(t)
    /\ \A d \in t.deprecated : \A def \in Asked : def.name \notin {d[1], d[2]}

\* A name that is not the prelude's, whose definitions come first in the table
\* of every text (server.rs:985).
AskedFor(n) == n \notin ProvidedNames /\ \E def \in Asked : def.name = n

\* What the bodies mention, with one name replaced.
Respelled(t, t2, n) ==
    /\ \A x \in t2.calls : \E y \in t.calls : x = Swapped(y, n)
    /\ \A d \in t2.dots : \E e \in t.dots : d[1] = Swapped(e[1], n) /\ d[2] = e[2]

\* The text that declares the name.
ItemWise(t, t2, n) ==
    /\ t2.module = t.module /\ t2.uses = t.uses
    /\ Indices(t2) = Indices(t)
    /\ \A i \in Indices(t) : /\ t2.decls[i].name = Swapped(t.decls[i].name, n)
                             /\ t2.decls[i].ops = t.decls[i].ops
    /\ Respelled(t, t2, n) /\ t2.deprecated = t.deprecated

\* A text that imports it from the module h.
ImportWise(t, t2, h, n) ==
    /\ t2.module = t.module /\ t2.decls = t.decls
    /\ t2.uses = (t.uses \ {<<h, n>>}) \cup {<<h, Fresh>>}
    /\ Respelled(t, t2, n) /\ t2.deprecated = t.deprecated

LEMMA FunctionLen ==
    ASSUME NEW n \in Nat, NEW o, o = [i \in 1 .. n |-> o[i]]
    PROVE  Len(o) = n
<1>1. PICK T : T = {o[i] : i \in 1 .. n}
  OBVIOUS
<1>2. o \in [1 .. n -> T]
  BY <1>1
<1>3. o \in Seq(T) /\ DOMAIN o = 1 .. n
  BY <1>2
<1>4. Len(o) \in Nat /\ DOMAIN o = 1 .. Len(o)
  BY <1>3, LenProperties
<1> QED BY <1>3, <1>4

\* Calls and dots as the rename leaves them.
CallsAs(t, n) == {Swapped(x, n) : x \in t.calls}
DotsAs(t, n) == {<<Swapped(d[1], n), d[2]>> : d \in t.dots}
UsesAs(t, h, n) == {IF use = <<h, n>> THEN <<h, Fresh>> ELSE use : use \in t.uses}
DeclsAs(t, n) ==
    [i \in Indices(t) |-> [t.decls[i] EXCEPT !.name = Swapped(t.decls[i].name, n)]]

LEMMA RenamedImport ==
    ASSUME NEW t, IsText(t), NEW def, def.kind = "import"
    PROVE  Renamed(t, def, Fresh) =
               TextOf(t.module, UsesAs(t, def.of, def.name), t.decls,
                      CallsAs(t, def.name), DotsAs(t, def.name), t.deprecated)
<1> DEFINE u2 == UsesAs(t, def.of, def.name)
           c2 == CallsAs(t, def.name)
           o2 == DotsAs(t, def.name)
<1>1. Renamed(t, def, Fresh) = [t EXCEPT !.uses = u2, !.calls = c2, !.dots = o2]
  BY DEF Renamed, UsesAs, CallsAs, DotsAs, Swapped
<1> HIDE DEF u2, c2, o2
<1>2. PICK m, u, d, c, o, q : t = TextOf(m, u, d, c, o, q)
  BY DEF IsText
<1>3. m = t.module /\ d = t.decls /\ q = t.deprecated
  BY <1>2 DEF TextOf
<1>4. [t EXCEPT !.uses = u2, !.calls = c2, !.dots = o2]
          = [[[t EXCEPT !.uses = u2] EXCEPT !.calls = c2] EXCEPT !.dots = o2]
  OBVIOUS
<1>5. [t EXCEPT !.uses = u2] = TextOf(m, u2, d, c, o, q)
  BY <1>2 DEF TextOf
<1>6. [TextOf(m, u2, d, c, o, q) EXCEPT !.calls = c2] = TextOf(m, u2, d, c2, o, q)
  BY DEF TextOf
<1>7. [TextOf(m, u2, d, c2, o, q) EXCEPT !.dots = o2] = TextOf(m, u2, d, c2, o2, q)
  BY DEF TextOf
<1>8. Renamed(t, def, Fresh) = TextOf(m, u2, d, c2, o2, q)
  BY <1>1, <1>4, <1>5, <1>6, <1>7
<1> QED BY <1>3, <1>8 DEF u2, c2, o2

LEMMA RenamedItem ==
    ASSUME NEW t, IsText(t), NEW def, def.kind = "item"
    PROVE  Renamed(t, def, Fresh) =
               TextOf(t.module, t.uses, DeclsAs(t, def.name),
                      CallsAs(t, def.name), DotsAs(t, def.name), t.deprecated)
<1> DEFINE d2 == DeclsAs(t, def.name)
           c2 == CallsAs(t, def.name)
           o2 == DotsAs(t, def.name)
<1>1. Renamed(t, def, Fresh) = [t EXCEPT !.decls = d2, !.calls = c2, !.dots = o2]
  BY DEF Renamed, DeclsAs, CallsAs, DotsAs, Swapped
<1> HIDE DEF d2, c2, o2
<1>2. PICK m, u, d, c, o, q : t = TextOf(m, u, d, c, o, q)
  BY DEF IsText
<1>3. m = t.module /\ u = t.uses /\ q = t.deprecated
  BY <1>2 DEF TextOf
<1>4. [t EXCEPT !.decls = d2, !.calls = c2, !.dots = o2]
          = [[[t EXCEPT !.decls = d2] EXCEPT !.calls = c2] EXCEPT !.dots = o2]
  OBVIOUS
<1>5. [t EXCEPT !.decls = d2] = TextOf(m, u, d2, c, o, q)
  BY <1>2 DEF TextOf
<1>6. [TextOf(m, u, d2, c, o, q) EXCEPT !.calls = c2] = TextOf(m, u, d2, c2, o, q)
  BY DEF TextOf
<1>7. [TextOf(m, u, d2, c2, o, q) EXCEPT !.dots = o2] = TextOf(m, u, d2, c2, o2, q)
  BY DEF TextOf
<1>8. Renamed(t, def, Fresh) = TextOf(m, u, d2, c2, o2, q)
  BY <1>1, <1>4, <1>5, <1>6, <1>7
<1> QED BY <1>3, <1>8 DEF d2, c2, o2

LEMMA RenamedImportWise ==
    ASSUME NEW t, Plain(t), NEW def, def.kind = "import", <<def.of, def.name>> \in t.uses
    PROVE  ImportWise(t, Renamed(t, def, Fresh), def.of, def.name)
<1> DEFINE h == def.of
           n == def.name
<1>1. PICK t2 : t2 = Renamed(t, def, Fresh)
  OBVIOUS
<1>2. t2 = TextOf(t.module, UsesAs(t, h, n), t.decls, CallsAs(t, n), DotsAs(t, n),
                  t.deprecated)
  BY <1>1, RenamedImport DEF Plain
<1>3. /\ t2.module = t.module /\ t2.decls = t.decls /\ t2.uses = UsesAs(t, h, n)
      /\ t2.calls = CallsAs(t, n) /\ t2.dots = DotsAs(t, n)
      /\ t2.deprecated = t.deprecated
  BY <1>2 DEF TextOf
<1>4. UsesAs(t, h, n) = (t.uses \ {<<h, n>>}) \cup {<<h, Fresh>>}
  BY DEF UsesAs
<1>5. Respelled(t, t2, n)
  BY <1>3 DEF Respelled, CallsAs, DotsAs
<1> QED BY <1>1, <1>3, <1>4, <1>5 DEF ImportWise

LEMMA RenamedItemWise ==
    ASSUME NEW t, Plain(t), NEW def, def.kind = "item"
    PROVE  ItemWise(t, Renamed(t, def, Fresh), def.name)
<1> DEFINE n == def.name
<1>1. PICK t2 : t2 = Renamed(t, def, Fresh)
  OBVIOUS
<1>2. t2 = TextOf(t.module, t.uses, DeclsAs(t, n), CallsAs(t, n), DotsAs(t, n),
                  t.deprecated)
  BY <1>1, RenamedItem DEF Plain
<1>3. /\ t2.module = t.module /\ t2.decls = DeclsAs(t, n) /\ t2.uses = t.uses
      /\ t2.calls = CallsAs(t, n) /\ t2.dots = DotsAs(t, n)
      /\ t2.deprecated = t.deprecated
  BY <1>2 DEF TextOf
<1>4. Len(DeclsAs(t, n)) = Len(t.decls)
  <2>1. PICK o : o = DeclsAs(t, n)
    OBVIOUS
  <2>2. o = [i \in 1 .. Len(t.decls) |-> o[i]]
    BY <2>1 DEF DeclsAs, Indices
  <2> QED BY <2>1, <2>2, FunctionLen DEF Plain
<1>5. Indices(t2) = Indices(t)
  BY <1>3, <1>4 DEF Indices
<1>6. ASSUME NEW i \in Indices(t)
      PROVE  /\ t2.decls[i].name = Swapped(t.decls[i].name, n)
             /\ t2.decls[i].ops = t.decls[i].ops
  <2>1. t2.decls[i] = [t.decls[i] EXCEPT !.name = Swapped(t.decls[i].name, n)]
    BY <1>3 DEF DeclsAs
  <2>2. PICK d : d = t.decls[i] /\ d = [name |-> d.name, ops |-> d.ops]
    BY DEF Plain
  <2>3. PICK x : x = Swapped(d.name, n)
    OBVIOUS
  <2>4. [d EXCEPT !.name = x] = [name |-> x, ops |-> d.ops]
    BY <2>2
  <2> QED BY <2>1, <2>2, <2>3, <2>4
<1>7. Respelled(t, t2, n)
  BY <1>3 DEF Respelled, CallsAs, DotsAs
<1> QED BY <1>1, <1>3, <1>5, <1>6, <1>7 DEF ItemWise

\* How often a text says a name: declared, and imported.
Declaring(t, m) == {i \in Indices(t) : t.decls[i].name = m}
Importing(t, m) == {use \in t.uses : use[2] = m}
Said(t, m) == Cardinality(Declaring(t, m)) + Cardinality(Importing(t, m))

\* The operations behind a name that crossed with an export.
Crossing(t, universe, x) ==
    UNION {Operations(universe[use[1]], x) :
               use \in {use \in t.uses : use[2] = x /\ use[1] \in DOMAIN universe}}
Granted(t, x) == UNION {Provided[e] : e \in Given(t) \cap {x}}
MemberThere(t, universe, d) ==
    LET all == Operations(t, d[1]) \cup Crossing(t, universe, d[1])
    IN all # {} \/ d[1] \in Given(t) => d[2] \in all \cup Granted(t, d[1])

\* A text with nothing wrong in it but what it is warned of.
Sane(t, universe) ==
    /\ \A use \in t.uses : use[1] \in DOMAIN universe /\ use[2] \in Declared(universe[use[1]])
    /\ \A m \in Own(t) : ~(Said(t, m) > 1)
    /\ \A x \in t.calls : x \in InScope(t)
    /\ \A d \in t.dots : d[1] \in InScope(t) /\ MemberThere(t, universe, d)
    /\ \A d \in t.deprecated : {d[1], d[2]} \subseteq InScope(t)

Faultless(t, universe) ==
    \A p \in Unresolved(t, universe) \cup UnknownMembers(t, universe) : ~IsError(p)

LEMMA MembersThere ==
    ASSUME NEW t, NEW universe
    PROVE  UnknownMembers(t, universe)
               = {<<"UNKNOWN_MEMBER", d>> : d \in {d \in t.dots : ~MemberThere(t, universe, d)}}
<1>1. ASSUME NEW d
      PROVE  LET local == Operations(t, d[1])
                 from  == {use \in t.uses : /\ use[2] = d[1]
                                           /\ use[1] \in DOMAIN universe}
                 there == UNION {Operations(universe[use[1]], d[1]) : use \in from}
                 given == UNION {Provided[e] : e \in Given(t) \cap {d[1]}}
             IN ((local # {} \/ there # {} \/ d[1] \in Given(t))
                     /\ d[2] \notin local \cup there \cup given)
                    <=> ~MemberThere(t, universe, d)
  <2>1. PICK local : local = Operations(t, d[1])
    OBVIOUS
  <2>2. PICK there : there = Crossing(t, universe, d[1])
    OBVIOUS
  <2>3. PICK given : given = Granted(t, d[1])
    OBVIOUS
  <2>4. ((local # {} \/ there # {} \/ d[1] \in Given(t))
             /\ d[2] \notin local \cup there \cup given)
           <=> ~(local \cup there # {} \/ d[1] \in Given(t)
                    => d[2] \in local \cup there \cup given)
    OBVIOUS
  <2> QED BY <2>1, <2>2, <2>3, <2>4 DEF MemberThere, Crossing, Granted
<1> QED BY <1>1 DEF UnknownMembers

LEMMA SaneIsFaultless ==
    ASSUME NEW t, NEW universe
    PROVE  Sane(t, universe) => Faultless(t, universe)
<1> SUFFICES ASSUME Sane(t, universe),
                    NEW p \in Unresolved(t, universe) \cup UnknownMembers(t, universe)
             PROVE  FALSE
  BY DEF Faultless
<1>1. p \notin UnknownMembers(t, universe)
  BY MembersThere DEF Sane
<1>2. p \in Unresolved(t, universe)
  BY <1>1
<1>3. CASE \E use \in t.uses : use[1] \notin DOMAIN universe
  BY <1>3 DEF Sane
<1>4. CASE \E use \in t.uses : use[1] \in DOMAIN universe /\ use[2] \notin Declared(universe[use[1]])
  BY <1>4 DEF Sane
<1>5. CASE \E m \in Own(t) : Said(t, m) > 1
  BY <1>5 DEF Sane
<1>6. CASE \E n \in Mentioned(t) : n \notin InScope(t)
  BY <1>6 DEF Sane, Mentioned
<1>7. CASE \E d \in t.deprecated : Missing(t, d) # {}
  BY <1>7 DEF Sane, Missing
<1> QED BY <1>2, <1>3, <1>4, <1>5, <1>6, <1>7 DEF Unresolved, Said, Declaring, Importing

LEMMA FaultlessIsSane ==
    ASSUME NEW t, NEW universe, Faultless(t, universe)
    PROVE  Sane(t, universe)
<1>1. \A p \in Unresolved(t, universe) : ~IsError(p)
  BY DEF Faultless
<1>0. /\ \A x : IsError(<<"UNKNOWN_MODULE", x>>) /\ IsError(<<"UNKNOWN_EXPORT", x>>)
      /\ \A x : IsError(<<"DUPLICATE_DEFINITION", x>>) /\ IsError(<<"UNKNOWN_NAME", x>>)
      /\ \A x : IsError(<<"UNKNOWN_MEMBER", x>>)
  BY DEF IsError
<1>2. UnknownMembers(t, universe) = {}
  <2>1. ASSUME NEW p \in UnknownMembers(t, universe) PROVE FALSE
    <3>1. ~IsError(p)
      BY DEF Faultless
    <3> QED BY <1>0, <3>1, MembersThere
  <2> QED BY <2>1
<1>3. ASSUME NEW use \in t.uses PROVE use[1] \in DOMAIN universe
  <2> SUFFICES ASSUME use[1] \notin DOMAIN universe PROVE FALSE
    OBVIOUS
  <2>1. <<"UNKNOWN_MODULE", use[1]>> \in Unresolved(t, universe)
    BY DEF Unresolved
  <2> QED BY <2>1, <1>0, <1>1
<1>4. ASSUME NEW use \in t.uses PROVE use[2] \in Declared(universe[use[1]])
  <2> SUFFICES ASSUME use[2] \notin Declared(universe[use[1]]) PROVE FALSE
    OBVIOUS
  <2>1. <<"UNKNOWN_EXPORT", use>> \in Unresolved(t, universe)
    BY <1>3 DEF Unresolved
  <2> QED BY <2>1, <1>0, <1>1
<1>5. ASSUME NEW m \in Own(t) PROVE ~(Said(t, m) > 1)
  <2> SUFFICES ASSUME Said(t, m) > 1 PROVE FALSE
    OBVIOUS
  <2>1. <<"DUPLICATE_DEFINITION", m>> \in Unresolved(t, universe)
    BY DEF Unresolved, Said, Declaring, Importing, Own
  <2> QED BY <2>1, <1>0, <1>1
<1>6. ASSUME NEW n \in Mentioned(t) PROVE n \in InScope(t)
  <2> SUFFICES ASSUME n \notin InScope(t) PROVE FALSE
    OBVIOUS
  <2>1. <<"UNKNOWN_NAME", n>> \in Unresolved(t, universe)
    BY DEF Unresolved
  <2> QED BY <2>1, <1>0, <1>1
<1>7. \A d \in t.dots : MemberThere(t, universe, d)
  BY <1>2, MembersThere
<1>8. ASSUME NEW d \in t.deprecated PROVE {d[1], d[2]} \subseteq InScope(t)
  <2>1. ASSUME NEW n \in Missing(t, d) PROVE FALSE
    <3>1. <<"UNKNOWN_NAME", n>> \in Unresolved(t, universe)
      BY <2>1 DEF Unresolved
    <3> QED BY <3>1, <1>0, <1>1
  <2> QED BY <2>1 DEF Missing
<1>9. (\A x \in t.calls : x \in InScope(t)) /\ \A d \in t.dots : d[1] \in InScope(t)
  BY <1>6 DEF Mentioned
<1> QED BY <1>3, <1>4, <1>5, <1>7, <1>8, <1>9 DEF Sane

\* A name of a text is declared once, or imported once.
LEMMA SaidAtMostOnce ==
    ASSUME NEW D, NEW I, IsFiniteSet(D), IsFiniteSet(I),
           ~(Cardinality(D) + Cardinality(I) > 1)
    PROVE  /\ D = {} \/ I = {}
           /\ \A x, y \in I : x = y
           /\ \A D2 \in SUBSET D, I2 \in SUBSET I :
                 ~(Cardinality(D2) + Cardinality(I2) > 1)
<1>1. Cardinality(D) \in Nat /\ Cardinality(I) \in Nat
  BY FS_CardinalityType
<1>2. D = {} \/ I = {}
  <2>1. D # {} => Cardinality(D) # 0
    BY FS_EmptySet
  <2>2. I # {} => Cardinality(I) # 0
    BY FS_EmptySet
  <2> QED BY <1>1, <2>1, <2>2
<1>3. ASSUME NEW x \in I, NEW y \in I, x # y PROVE FALSE
  <2>1. {x, y} \subseteq I /\ IsFiniteSet({x, y})
    BY <1>3, FS_Subset
  <2>2. Cardinality({x, y}) <= Cardinality(I)
    BY <2>1, FS_Subset
  <2>3. Cardinality({y}) = 1 /\ IsFiniteSet({y})
    BY FS_Singleton
  <2>4. Cardinality({y} \cup {x}) = Cardinality({y}) + 1
    BY <1>3, <2>3, FS_AddElement
  <2>5. {y} \cup {x} = {x, y}
    OBVIOUS
  <2>6. Cardinality({x, y}) = 2
    BY <2>3, <2>4, <2>5
  <2>7. PICK d, i : d = Cardinality(D) /\ i = Cardinality(I)
    OBVIOUS
  <2>8. d \in Nat /\ i \in Nat /\ ~(d + i > 1) /\ 2 <= i
    BY <1>1, <2>2, <2>6, <2>7
  <2> QED BY <2>8
<1>4. ASSUME NEW D2 \in SUBSET D, NEW I2 \in SUBSET I
      PROVE  ~(Cardinality(D2) + Cardinality(I2) > 1)
  <2>1. Cardinality(D2) <= Cardinality(D) /\ IsFiniteSet(D2)
    BY FS_Subset
  <2>2. Cardinality(I2) <= Cardinality(I) /\ IsFiniteSet(I2)
    BY FS_Subset
  <2>3. Cardinality(D2) \in Nat /\ Cardinality(I2) \in Nat
    BY <2>1, <2>2, FS_CardinalityType
  <2> QED BY <1>1, <2>1, <2>2, <2>3
<1> QED BY <1>2, <1>3, <1>4

LEMMA NotSaidTwice ==
    ASSUME NEW D, NEW I, IsFiniteSet(D), IsFiniteSet(I),
           \/ D = {} /\ \E x : I = {x}
           \/ I = {} /\ ~(Cardinality(D) + 0 > 1)
    PROVE  ~(Cardinality(D) + Cardinality(I) > 1)
<1>1. Cardinality({}) = 0
  BY FS_EmptySet
<1>2. CASE D = {} /\ \E x : I = {x}
  <2>1. Cardinality(I) = 1
    BY <1>2, FS_Singleton
  <2> QED BY <1>1, <1>2, <2>1
<1>3. CASE I = {} /\ ~(Cardinality(D) + 0 > 1)
  BY <1>1, <1>3
<1> QED BY <1>2, <1>3

LEMMA SaidFinitely ==
    ASSUME NEW t, Plain(t), NEW m
    PROVE  IsFiniteSet(Declaring(t, m)) /\ IsFiniteSet(Importing(t, m))
<1>1. IsFiniteSet(1 .. Len(t.decls))
  BY FS_Interval DEF Plain
<1>2. Declaring(t, m) \subseteq 1 .. Len(t.decls) /\ Importing(t, m) \subseteq t.uses
  BY DEF Declaring, Importing, Indices
<1> QED BY <1>1, <1>2, FS_Subset DEF Plain

\* What is so of each name of a text with nothing wrong in it.
LEMMA NamedOnce ==
    ASSUME NEW t, Plain(t), NEW universe, Sane(t, universe), NEW m
    PROVE  /\ Declaring(t, m) = {} \/ Importing(t, m) = {}
           /\ \A x, y \in Importing(t, m) : x = y
           /\ \A D2 \in SUBSET Declaring(t, m), I2 \in SUBSET Importing(t, m) :
                 ~(Cardinality(D2) + Cardinality(I2) > 1)
<1>1. ~(Said(t, m) > 1)
  <2>1. CASE m \in Own(t)
    BY <2>1 DEF Sane
  <2>2. CASE m \notin Own(t)
    <3>1. Declaring(t, m) = {} /\ Importing(t, m) = {}
      BY <2>2 DEF Own, Declared, ImportedNames, Declaring, Importing
    <3>2. Cardinality({}) = 0
      BY FS_EmptySet
    <3> QED BY <3>1, <3>2 DEF Said
  <2> QED BY <2>1, <2>2
<1> QED BY <1>1, SaidFinitely, SaidAtMostOnce DEF Said

(***************************************************************************)
(* Two universes before and after the name n of the module h is replaced.  *)
(***************************************************************************)
Target(m, x, h, n) == m = h /\ h # NoModule /\ x = n

Matching(universe, universe2, h, n) ==
    /\ DOMAIN universe2 = DOMAIN universe
    /\ \A m \in DOMAIN universe : \A x :
          ~Target(m, x, h, n) =>
              /\ x \in Declared(universe[m]) => x \in Declared(universe2[m])
              /\ x # Fresh => Operations(universe2[m], x) = Operations(universe[m], x)
    /\ h # NoModule =>
          /\ h \in DOMAIN universe /\ Fresh \in Declared(universe2[h])
          /\ Operations(universe2[h], Fresh) = Operations(universe[h], n)

Uses(t, h, n) == h # NoModule /\ <<h, n>> \in t.uses

LEMMA CrossingKept ==
    ASSUME NEW t, Plain(t), NEW universe, NEW universe2, NEW h, NEW n,
           Matching(universe, universe2, h, n),
           NEW x, x # Fresh, ~(Uses(t, h, n) /\ x = n)
    PROVE  Crossing(t, universe2, x) = Crossing(t, universe, x)
<1>1. PICK from : from = {use \in t.uses : use[2] = x /\ use[1] \in DOMAIN universe}
  OBVIOUS
<1>2. from = {use \in t.uses : use[2] = x /\ use[1] \in DOMAIN universe2}
  BY <1>1 DEF Matching
<1>3. ASSUME NEW use \in from
      PROVE  Operations(universe2[use[1]], x) = Operations(universe[use[1]], x)
  <2>1. use \in t.uses /\ use[2] = x /\ use[1] \in DOMAIN universe /\ use = <<use[1], use[2]>>
    BY <1>1 DEF Plain, IsPair
  <2>2. ~Target(use[1], x, h, n)
    BY <2>1 DEF Target, Uses
  <2> QED BY <2>1, <2>2 DEF Matching
<1>4. Crossing(t, universe2, x) = UNION {Operations(universe2[use[1]], x) : use \in from}
  BY <1>2 DEF Crossing
<1>5. Crossing(t, universe, x) = UNION {Operations(universe[use[1]], x) : use \in from}
  BY <1>1 DEF Crossing
<1> QED BY <1>3, <1>4, <1>5

\* The names in scope when one of the text's own is replaced by the new name.
LEMMA ScopeKept ==
    ASSUME NEW t, Plain(t), NEW n, AskedFor(n), NEW t2, t2.deprecated = t.deprecated,
           Fresh \in Own(t2), \A x \in Own(t) : x # n => x \in Own(t2),
           \A x \in Own(t2) : x \in Own(t) \/ x = Fresh
    PROVE  /\ Given(t2) = Given(t) /\ n \notin Given(t) /\ Fresh \notin Given(t)
           /\ \A x \in InScope(t) : Swapped(x, n) \in InScope(t2)
           /\ (\A d \in t.deprecated : {d[1], d[2]} \subseteq InScope(t))
                  => \A d \in t2.deprecated : {d[1], d[2]} \subseteq InScope(t2)
<1>1. n \notin DOMAIN Provided /\ Fresh \notin DOMAIN Provided
  BY DEF AskedFor, ProvidedNames, Plain, InScope
<1>2. Given(t2) = Given(t)
  BY <1>1 DEF Given
<1>3. \A x \in InScope(t) : x # n => x \in InScope(t2)
  BY DEF InScope
<1>4. \A x \in InScope(t) : Swapped(x, n) \in InScope(t2)
  BY <1>3 DEF Swapped, InScope
<1>5. \A d \in t.deprecated : d[1] # n /\ d[2] # n
  BY DEF Plain, AskedFor
<1> QED BY <1>1, <1>2, <1>3, <1>4, <1>5 DEF Given

\* A text with nothing of the name in it.
LEMMA SaneBystander ==
    ASSUME NEW t, Plain(t), NEW universe, NEW universe2, NEW h, NEW n,
           Matching(universe, universe2, h, n), Sane(t, universe), ~Uses(t, h, n)
    PROVE  Sane(t, universe2)
<1>1. ASSUME NEW use \in t.uses
      PROVE  use[1] \in DOMAIN universe2 /\ use[2] \in Declared(universe2[use[1]])
  <2>1. use[1] \in DOMAIN universe /\ use[2] \in Declared(universe[use[1]])
    BY DEF Sane
  <2>2. use = <<use[1], use[2]>>
    BY DEF Plain, IsPair
  <2>3. ~Target(use[1], use[2], h, n)
    BY <2>2 DEF Target, Uses
  <2> QED BY <2>1, <2>3 DEF Matching
<1>2. ASSUME NEW d \in t.dots PROVE MemberThere(t, universe2, d)
  <2>1. d[1] \in InScope(t) /\ MemberThere(t, universe, d)
    BY DEF Sane
  <2>2. d[1] # Fresh
    BY <2>1 DEF Plain
  <2>3. Crossing(t, universe2, d[1]) = Crossing(t, universe, d[1])
    BY <2>2, CrossingKept
  <2> QED BY <2>1, <2>3 DEF MemberThere
<1> QED BY <1>1, <1>2 DEF Sane

\* A text that imports the name.
LEMMA SaneImporter ==
    ASSUME NEW t, Plain(t), NEW universe, NEW universe2, NEW h, NEW n,
           Matching(universe, universe2, h, n), Sane(t, universe), Uses(t, h, n),
           AskedFor(n), NEW t2, ImportWise(t, t2, h, n)
    PROVE  Sane(t2, universe2)
<1>1. /\ h # NoModule /\ <<h, n>> \in t.uses
      /\ t2.uses = (t.uses \ {<<h, n>>}) \cup {<<h, Fresh>>} /\ t2.decls = t.decls
  BY DEF Uses, ImportWise
<1>2. \A use \in t.uses : use = <<use[1], use[2]>> /\ use[2] # Fresh
  BY DEF Plain, IsPair, ImportedNames, InScope, Own
<1>3. /\ Declared(t2) = Declared(t)
      /\ \A m : Declaring(t2, m) = Declaring(t, m)
      /\ \A x : Operations(t2, x) = Operations(t, x)
  BY <1>1 DEF Declared, Declaring, Operations, Indices
<1>4. /\ Importing(t2, Fresh) = {<<h, Fresh>>} /\ Declaring(t2, Fresh) = {}
      /\ Importing(t, n) = {<<h, n>>} /\ Declaring(t, n) = {} /\ n # Fresh
  <2>1. Importing(t2, Fresh) = {<<h, Fresh>>}
    BY <1>1, <1>2 DEF Importing
  <2>2. Declaring(t2, Fresh) = {}
    BY <1>3 DEF Plain, Declared, Declaring, InScope, Own
  <2>3. <<h, n>> \in Importing(t, n)
    BY <1>1 DEF Importing
  <2>4. Importing(t, n) = {<<h, n>>}
    BY <2>3, NamedOnce
  <2>5. Declaring(t, n) = {}
    BY <2>3, NamedOnce
  <2>6. n # Fresh
    BY <1>1, <1>2
  <2> QED BY <2>1, <2>2, <2>4, <2>5, <2>6
<1>5. ASSUME NEW x, x # n, x # Fresh
      PROVE  Importing(t2, x) = Importing(t, x)
  BY <1>1, <1>5 DEF Importing
<1>6. Importing(t2, n) = {}
  BY <1>1, <1>4 DEF Importing
<1>7. /\ Fresh \in Own(t2)
      /\ \A x \in Own(t) : x # n => x \in Own(t2)
      /\ \A x \in Own(t2) : x \in Own(t) \/ x = Fresh
  <2>1. Fresh \in Own(t2)
    BY <1>1 DEF Own, ImportedNames
  <2>2. ASSUME NEW x \in Own(t), x # n PROVE x \in Own(t2)
    <3>1. CASE x \in Declared(t)
      BY <1>3, <3>1 DEF Own
    <3>2. CASE x \in ImportedNames(t)
      <4>1. PICK use \in t.uses : use[2] = x
        BY <3>2 DEF ImportedNames
      <4>2. use \in t2.uses
        BY <1>1, <2>2, <4>1
      <4> QED BY <4>1, <4>2 DEF Own, ImportedNames
    <3> QED BY <3>1, <3>2 DEF Own
  <2>3. \A x \in Own(t2) : x \in Own(t) \/ x = Fresh
    BY <1>1, <1>3 DEF Own, ImportedNames
  <2> QED BY <2>1, <2>2, <2>3
<1>12. /\ Given(t2) = Given(t) /\ n \notin Given(t) /\ Fresh \notin Given(t)
       /\ \A x \in InScope(t) : Swapped(x, n) \in InScope(t2)
       /\ \A d \in t2.deprecated : {d[1], d[2]} \subseteq InScope(t2)
  BY <1>7, ScopeKept DEF Sane, ImportWise
<1>8. ASSUME NEW use \in t2.uses
      PROVE  use[1] \in DOMAIN universe2 /\ use[2] \in Declared(universe2[use[1]])
  <2>1. CASE use = <<h, Fresh>>
    BY <1>1, <2>1 DEF Matching
  <2>2. CASE use \in t.uses /\ use # <<h, n>>
    <3>1. use[1] \in DOMAIN universe /\ use[2] \in Declared(universe[use[1]])
      BY <2>2 DEF Sane
    <3>2. ~Target(use[1], use[2], h, n)
      BY <1>2, <2>2 DEF Target
    <3> QED BY <3>1, <3>2 DEF Matching
  <2> QED BY <1>1, <2>1, <2>2
<1>9. ASSUME NEW m PROVE ~(Said(t2, m) > 1)
  <2>1. CASE m = Fresh
    <3>1. Cardinality({}) = 0 /\ Cardinality({<<h, Fresh>>}) = 1
      BY FS_EmptySet, FS_Singleton
    <3> QED BY <1>4, <2>1, <3>1 DEF Said
  <2>2. CASE m # Fresh
    <3>1. Declaring(t2, m) \in SUBSET Declaring(t, m)
      BY <1>3
    <3>2. Importing(t2, m) \in SUBSET Importing(t, m)
      BY <1>5, <1>6, <2>2
    <3> QED BY <3>1, <3>2, NamedOnce DEF Said
  <2> QED BY <2>1, <2>2
<1>10. ASSUME NEW x \in t2.calls PROVE x \in InScope(t2)
  <2>1. PICK y \in t.calls : x = Swapped(y, n)
    BY DEF ImportWise, Respelled
  <2> QED BY <1>12, <2>1 DEF Sane
<1>11. ASSUME NEW d \in t2.dots PROVE d[1] \in InScope(t2) /\ MemberThere(t2, universe2, d)
  <2>1. PICK e \in t.dots : d[1] = Swapped(e[1], n) /\ d[2] = e[2]
    BY DEF ImportWise, Respelled
  <2>2. e[1] \in InScope(t) /\ MemberThere(t, universe, e)
    BY DEF Sane
  <2>3. d[1] \in InScope(t2)
    BY <1>12, <2>1, <2>2
  <2>4. e[1] # Fresh
    BY <2>2 DEF Plain
  <2>7. Granted(t, n) = {} /\ Granted(t2, Fresh) = {} /\ Granted(t2, e[1]) = Granted(t, e[1])
    BY <1>12 DEF Granted
  <2>5. CASE e[1] = n
    <3>1. d[1] = Fresh
      BY <2>1, <2>5 DEF Swapped
    <3>2. Operations(t2, Fresh) = {} /\ Operations(t, n) = {}
      <4>1. Operations(t, n) = {}
        BY <1>4 DEF Operations, Declaring
      <4>2. Operations(t2, Fresh) = {}
        BY <1>4 DEF Operations, Declaring
      <4> QED BY <4>1, <4>2
    <3>3. Crossing(t2, universe2, Fresh) = Operations(universe2[h], Fresh)
      <4>1. {use \in t2.uses : use[2] = Fresh /\ use[1] \in DOMAIN universe2} = {<<h, Fresh>>}
        BY <1>1, <1>4 DEF Importing, Matching
      <4>2. Crossing(t2, universe2, Fresh) = UNION {Operations(universe2[use[1]], Fresh) : use \in {<<h, Fresh>>}}
        BY <4>1 DEF Crossing
      <4>3. PICK all : all = Operations(universe2[h], Fresh)
        OBVIOUS
      <4>4. Operations(universe2[<<h, Fresh>>[1]], Fresh) = all
        BY <4>3
      <4>5. {Operations(universe2[use[1]], Fresh) : use \in {<<h, Fresh>>}} = {all}
        BY <4>4
      <4>6. UNION {all} = all
        OBVIOUS
      <4> QED BY <4>2, <4>3, <4>5, <4>6
    <3>4. Crossing(t, universe, n) = Operations(universe[h], n)
      <4>1. {use \in t.uses : use[2] = n /\ use[1] \in DOMAIN universe} = {<<h, n>>}
        BY <1>1, <1>4 DEF Importing, Matching
      <4>2. Crossing(t, universe, n) = UNION {Operations(universe[use[1]], n) : use \in {<<h, n>>}}
        BY <4>1 DEF Crossing
      <4>3. PICK all : all = Operations(universe[h], n)
        OBVIOUS
      <4>4. Operations(universe[<<h, n>>[1]], n) = all
        BY <4>3
      <4>5. {Operations(universe[use[1]], n) : use \in {<<h, n>>}} = {all}
        BY <4>4
      <4>6. UNION {all} = all
        OBVIOUS
      <4> QED BY <4>2, <4>3, <4>5, <4>6
    <3>5. Operations(universe2[h], Fresh) = Operations(universe[h], n)
      BY <1>1 DEF Matching
    <3> QED BY <1>12, <2>1, <2>2, <2>3, <2>5, <2>7, <3>1, <3>2, <3>3, <3>4, <3>5
        DEF MemberThere
  <2>6. CASE e[1] # n
    <3>1. d[1] = e[1]
      BY <2>1, <2>6 DEF Swapped
    <3>2. Importing(t2, e[1]) = Importing(t, e[1])
      BY <1>5, <2>4, <2>6
    <3>3. Crossing(t2, universe2, e[1]) = Crossing(t, universe2, e[1])
      <4>1. {use \in t2.uses : use[2] = e[1] /\ use[1] \in DOMAIN universe2}
               = {use \in t.uses : use[2] = e[1] /\ use[1] \in DOMAIN universe2}
        BY <3>2 DEF Importing
      <4> QED BY <4>1 DEF Crossing
    <3>4. Crossing(t, universe2, e[1]) = Crossing(t, universe, e[1])
      BY <2>4, <2>6, CrossingKept
    <3>5. Operations(t2, e[1]) = Operations(t, e[1])
      BY <1>3
    <3> QED BY <1>12, <2>1, <2>2, <2>3, <2>7, <3>1, <3>3, <3>4, <3>5 DEF MemberThere
  <2> QED BY <2>5, <2>6
<1> QED BY <1>8, <1>9, <1>10, <1>11, <1>12 DEF Sane

\* What the text that declares the name declares afterwards.
LEMMA OwnerKeeps ==
    ASSUME NEW t, Plain(t), NEW n, n \in Declared(t), NEW t2, ItemWise(t, t2, n)
    PROVE  /\ n # Fresh
           /\ Declaring(t2, Fresh) = Declaring(t, n) /\ Declaring(t2, n) = {}
           /\ \A x : x # n /\ x # Fresh => /\ Declaring(t2, x) = Declaring(t, x)
                                           /\ Operations(t2, x) = Operations(t, x)
           /\ Operations(t2, Fresh) = Operations(t, n)
<1>1. Indices(t2) = Indices(t)
  BY DEF ItemWise
<1>2. \A i \in Indices(t) : /\ t2.decls[i].name = Swapped(t.decls[i].name, n)
                            /\ t2.decls[i].ops = t.decls[i].ops
  BY DEF ItemWise
<1>3. (\A i \in Indices(t) : t.decls[i].name # Fresh) /\ n # Fresh
  BY DEF Plain, Declared, InScope, Own
<1>4. Declaring(t2, Fresh) = Declaring(t, n) /\ Declaring(t2, n) = {}
  <2>1. \A i \in Indices(t) : t2.decls[i].name = Fresh <=> t.decls[i].name = n
    BY <1>2, <1>3 DEF Swapped
  <2>2. \A i \in Indices(t) : t2.decls[i].name # n
    BY <1>2, <1>3 DEF Swapped
  <2> QED BY <1>1, <2>1, <2>2 DEF Declaring
<1>5. ASSUME NEW x, x # n, x # Fresh PROVE Declaring(t2, x) = Declaring(t, x)
  <2>1. \A i \in Indices(t) : t2.decls[i].name = x <=> t.decls[i].name = x
    BY <1>2, <1>5 DEF Swapped
  <2> QED BY <1>1, <2>1 DEF Declaring
<1>6. /\ Operations(t2, Fresh) = Operations(t, n)
      /\ \A x : x # n /\ x # Fresh => Operations(t2, x) = Operations(t, x)
  <2>1. \A t3, x : Operations(t3, x) = UNION {t3.decls[i].ops : i \in Declaring(t3, x)}
    BY DEF Operations, Declaring
  <2>2. \A x : \A i \in Declaring(t, x) : t2.decls[i].ops = t.decls[i].ops
    BY <1>2 DEF Declaring
  <2>3. Operations(t2, Fresh) = Operations(t, n)
    BY <1>4, <2>1, <2>2
  <2>4. ASSUME NEW x, x # n, x # Fresh PROVE Operations(t2, x) = Operations(t, x)
    <3>1. PICK at : at = Declaring(t, x)
      OBVIOUS
    <3>2. at = Declaring(t2, x)
      BY <1>5, <2>4, <3>1
    <3>3. \A i \in at : t2.decls[i].ops = t.decls[i].ops
      BY <2>2, <3>1
    <3>4. UNION {t2.decls[i].ops : i \in at} = UNION {t.decls[i].ops : i \in at}
      BY <3>3
    <3> QED BY <2>1, <3>1, <3>2, <3>4
  <2> QED BY <2>3, <2>4
<1> QED BY <1>3, <1>4, <1>5, <1>6

\* The text that declares it.
LEMMA SaneOwner ==
    ASSUME NEW t, Plain(t), NEW universe, NEW universe2, NEW h, NEW n,
           Matching(universe, universe2, h, n), Sane(t, universe), n \in Declared(t),
           AskedFor(n), NEW t2, ItemWise(t, t2, n)
    PROVE  Sane(t2, universe2)
<1>1. t2.uses = t.uses /\ Indices(t2) = Indices(t)
  BY DEF ItemWise
<1>3. /\ \A i \in Indices(t) : t.decls[i].name # Fresh
      /\ \A use \in t.uses : use[2] # Fresh /\ use = <<use[1], use[2]>>
      /\ n # Fresh
  BY DEF Plain, IsPair, Declared, ImportedNames, InScope, Own
<1>4. Declaring(t, n) # {}
  BY DEF Declared, Declaring
<1>5. Importing(t, n) = {}
  BY <1>4, NamedOnce
<1>6. ~Uses(t, h, n)
  BY <1>5 DEF Uses, Importing
<1>7. Declaring(t2, Fresh) = Declaring(t, n) /\ Declaring(t2, n) = {}
  BY OwnerKeeps
<1>8. ASSUME NEW x, x # n, x # Fresh PROVE Declaring(t2, x) = Declaring(t, x)
  BY <1>8, OwnerKeeps
<1>9. \A m : Importing(t2, m) = Importing(t, m)
  BY <1>1 DEF Importing
<1>10. Importing(t, Fresh) = {}
  BY <1>3 DEF Importing
<1>11. /\ \A t3, m : m \in Declared(t3) <=> Declaring(t3, m) # {}
       /\ ImportedNames(t2) = ImportedNames(t)
  BY <1>1 DEF Declared, Declaring, ImportedNames
<1>18. /\ Fresh \in Own(t2)
       /\ \A x \in Own(t) : x # n => x \in Own(t2)
       /\ \A x \in Own(t2) : x \in Own(t) \/ x = Fresh
  <2>1. Fresh \in Own(t2)
    BY <1>4, <1>7, <1>11 DEF Own
  <2>2. ASSUME NEW x \in Own(t), x # n PROVE x \in Own(t2)
    <3>1. x # Fresh
      BY DEF Plain, InScope
    <3> QED BY <1>8, <1>11, <2>2, <3>1 DEF Own
  <2>3. ASSUME NEW x \in Own(t2), x # Fresh PROVE x \in Own(t)
    <3>1. x # n \/ x \in Own(t)
      BY DEF Own
    <3> QED BY <1>8, <1>11, <2>3, <3>1 DEF Own
  <2> QED BY <2>1, <2>2, <2>3
<1>12. /\ Given(t2) = Given(t) /\ n \notin Given(t) /\ Fresh \notin Given(t)
       /\ \A x \in InScope(t) : Swapped(x, n) \in InScope(t2)
       /\ \A d \in t2.deprecated : {d[1], d[2]} \subseteq InScope(t2)
  BY <1>18, ScopeKept DEF Sane, ItemWise
<1>13. /\ Operations(t2, Fresh) = Operations(t, n)
       /\ \A x : x # n /\ x # Fresh => Operations(t2, x) = Operations(t, x)
  BY OwnerKeeps
<1>14. ASSUME NEW use \in t2.uses
       PROVE  use[1] \in DOMAIN universe2 /\ use[2] \in Declared(universe2[use[1]])
  <2>1. use \in t.uses /\ use[1] \in DOMAIN universe /\ use[2] \in Declared(universe[use[1]])
    BY <1>1 DEF Sane
  <2>2. ~Target(use[1], use[2], h, n)
    BY <1>3, <1>6, <2>1 DEF Target, Uses
  <2> QED BY <2>1, <2>2 DEF Matching
<1>15. ASSUME NEW m PROVE ~(Said(t2, m) > 1)
  <2>1. CASE m = Fresh
    <3>1. Said(t2, m) = Said(t, n)
      BY <1>5, <1>7, <1>9, <1>10, <2>1 DEF Said
    <3>2. n \in Own(t)
      BY DEF Own
    <3> QED BY <3>1, <3>2 DEF Sane
  <2>2. CASE m # Fresh
    <3>1. Declaring(t2, m) \in SUBSET Declaring(t, m)
      BY <1>7, <1>8, <2>2
    <3>2. Importing(t2, m) \in SUBSET Importing(t, m)
      BY <1>9
    <3> QED BY <3>1, <3>2, NamedOnce DEF Said
  <2> QED BY <2>1, <2>2
<1>16. ASSUME NEW x \in t2.calls PROVE x \in InScope(t2)
  <2>1. PICK y \in t.calls : x = Swapped(y, n)
    BY DEF ItemWise, Respelled
  <2> QED BY <1>12, <2>1 DEF Sane
<1>17. ASSUME NEW d \in t2.dots PROVE d[1] \in InScope(t2) /\ MemberThere(t2, universe2, d)
  <2>1. PICK e \in t.dots : d[1] = Swapped(e[1], n) /\ d[2] = e[2]
    BY DEF ItemWise, Respelled
  <2>2. e[1] \in InScope(t) /\ MemberThere(t, universe, e)
    BY DEF Sane
  <2>3. d[1] \in InScope(t2)
    BY <1>12, <2>1, <2>2
  <2>4. e[1] # Fresh
    BY <2>2 DEF Plain
  <2>8. Granted(t, n) = {} /\ Granted(t2, Fresh) = {} /\ Granted(t2, e[1]) = Granted(t, e[1])
    BY <1>12 DEF Granted
  <2>5. \A x : Crossing(t2, universe2, x) = Crossing(t, universe2, x)
    BY <1>1 DEF Crossing
  <2>6. CASE e[1] = n
    <3>1. d[1] = Fresh
      BY <2>1, <2>6 DEF Swapped
    <3>2. {use \in t.uses : use[2] = Fresh /\ use[1] \in DOMAIN universe2} = {}
      BY <1>3
    <3>3. {use \in t.uses : use[2] = n /\ use[1] \in DOMAIN universe} = {}
      BY <1>5 DEF Importing
    <3>4. Crossing(t, universe2, Fresh) = {}
      BY <3>2 DEF Crossing
    <3>5. Crossing(t, universe, n) = {}
      BY <3>3 DEF Crossing
    <3> QED BY <1>12, <1>13, <2>1, <2>2, <2>3, <2>5, <2>6, <2>8, <3>1, <3>4, <3>5
        DEF MemberThere
  <2>7. CASE e[1] # n
    <3>1. d[1] = e[1]
      BY <2>1, <2>7 DEF Swapped
    <3>2. Crossing(t, universe2, e[1]) = Crossing(t, universe, e[1])
      BY <1>6, <2>4, CrossingKept
    <3>3. Operations(t2, e[1]) = Operations(t, e[1])
      BY <1>13, <2>4, <2>7
    <3> QED BY <1>12, <2>1, <2>2, <2>3, <2>5, <2>8, <3>1, <3>2, <3>3 DEF MemberThere
  <2> QED BY <2>6, <2>7
<1> QED BY <1>12, <1>14, <1>15, <1>16, <1>17 DEF Sane

(***************************************************************************)
(* A set of texts before and after, v0 being where the name is declared.   *)
(***************************************************************************)
Turned(texts, texts2, v0, h, n) ==
    /\ DOMAIN texts2 = DOMAIN texts /\ v0 \in DOMAIN texts
    /\ texts[v0].module = h /\ n \in Declared(texts[v0])
    /\ ItemWise(texts[v0], texts2[v0], n)
    /\ \A v \in DOMAIN texts \ {v0} :
          IF Uses(texts[v], h, n) THEN ImportWise(texts[v], texts2[v], h, n)
          ELSE texts2[v] = texts[v]

\* One text claims each module of a set without errors, and is what it offers.
Unclaimed(texts, m) == \A v \in DOMAIN texts : texts[v].module # m
Settled(texts, universe) ==
    \A m \in DOMAIN universe :
        \/ \E c \in DOMAIN texts : /\ texts[c].module = m /\ m # NoModule
                                   /\ universe[m] = texts[c]
                                   /\ \A v \in DOMAIN texts : texts[v].module = m => v = c
        \/ /\ m \in DOMAIN Shipped /\ universe[m] = Shipped[m]
           /\ m = NoModule \/ Unclaimed(texts, m)

LEMMA ModulesStay ==
    ASSUME NEW texts, NEW texts2, NEW v0, NEW h, NEW n, Turned(texts, texts2, v0, h, n),
           \A v \in DOMAIN texts : Plain(texts[v])
    PROVE  \A v \in DOMAIN texts : /\ texts2[v].module = texts[v].module
                                   /\ ImportsOf(texts2[v]) = ImportsOf(texts[v])
<1> SUFFICES ASSUME NEW v \in DOMAIN texts
             PROVE  /\ texts2[v].module = texts[v].module
                    /\ ImportsOf(texts2[v]) = ImportsOf(texts[v])
  OBVIOUS
<1>1. CASE v = v0
  BY <1>1 DEF Turned, ItemWise, ImportsOf
<1>2. CASE v # v0 /\ ~Uses(texts[v], h, n)
  BY <1>2 DEF Turned
<1>3. CASE v # v0 /\ Uses(texts[v], h, n)
  <2>1. PICK t, t2 : t = texts[v] /\ t2 = texts2[v]
    OBVIOUS
  <2>2. ImportWise(t, t2, h, n) /\ <<h, n>> \in t.uses
    BY <1>3, <2>1 DEF Turned, Uses
  <2>3. {use[1] : use \in t2.uses} = {use[1] : use \in t.uses}
    <3>1. <<h, n>>[1] = h /\ <<h, Fresh>>[1] = h
      OBVIOUS
    <3>2. ASSUME NEW m PROVE (\E use \in t2.uses : use[1] = m) <=> \E use \in t.uses : use[1] = m
      <4>1. CASE m = h
        <5>1. <<h, Fresh>> \in t2.uses
          BY <2>2 DEF ImportWise
        <5> QED BY <2>2, <3>1, <4>1, <5>1
      <4>2. CASE m # h
        <5>1. t2.uses = (t.uses \ {<<h, n>>}) \cup {<<h, Fresh>>}
          BY <2>2 DEF ImportWise
        <5>2. ASSUME NEW use \in t2.uses, use[1] = m PROVE use \in t.uses
          BY <3>1, <4>2, <5>1, <5>2
        <5>3. ASSUME NEW use \in t.uses, use[1] = m PROVE use \in t2.uses
          BY <3>1, <4>2, <5>1, <5>3
        <5> QED BY <5>2, <5>3
      <4> QED BY <4>1, <4>2
    <3> QED BY <3>2
  <2> QED BY <2>1, <2>2, <2>3 DEF ImportWise, ImportsOf
<1> QED BY <1>1, <1>2, <1>3

\* Which modules there are depends on what texts say they are and ask for.
LEMMA SameModules ==
    ASSUME NEW texts, NEW texts2, DOMAIN texts2 = DOMAIN texts,
           \A v \in DOMAIN texts : /\ texts2[v].module = texts[v].module
                                   /\ ImportsOf(texts2[v]) = ImportsOf(texts[v])
    PROVE  /\ \A m : Claims(texts2, m) = Claims(texts, m)
           /\ Known(texts2) = Known(texts)
           /\ ShippedFor(texts2) = ShippedFor(texts)
<1>1. \A m : Claims(texts2, m) = Claims(texts, m)
  BY DEF Claims
<1>2. Known(texts2) = Known(texts)
  BY DEF Known
<1>3. Wanted(texts2) = Wanted(texts)
  BY DEF Wanted
<1>4. ShippedFor(texts2) = ShippedFor(texts)
  BY <1>2, <1>3 DEF ShippedFor
<1> QED BY <1>1, <1>2, <1>4

\* A module line that nobody else writes.
OneEach(texts) ==
    \A c, v \in DOMAIN texts :
        texts[c].module # NoModule /\ texts[v].module = texts[c].module => v = c

LEMMA CleanIsOneEach ==
    ASSUME NEW texts, NEW rank, IsFiniteSet(DOMAIN texts), Clean(texts, rank)
    PROVE  OneEach(texts)
<1>1. PICK universe : universe = Universe(texts, rank)
  OBVIOUS
<1>2. ASSUME NEW c \in DOMAIN texts, texts[c].module # NoModule
      PROVE  \A v \in DOMAIN texts : texts[v].module = texts[c].module => v = c
  <2>1. PICK m : m = texts[c].module
    OBVIOUS
  <2>2. ~(Cardinality(Claims(texts, m)) > 1)
    <3> SUFFICES ASSUME Cardinality(Claims(texts, m)) > 1 PROVE FALSE
      OBVIOUS
    <3>1. <<"AMBIGUOUS_MODULE", m>> \in Diagnoses(texts, universe, c)
      BY <1>2, <2>1 DEF Diagnoses
    <3>2. ~IsError(<<"AMBIGUOUS_MODULE", m>>)
      BY <1>1, <3>1 DEF Clean
    <3> QED BY <3>2 DEF IsError
  <2>3. IsFiniteSet(Claims(texts, m)) /\ c \in Claims(texts, m)
    BY <2>1, FS_Subset DEF Claims
  <2>4. Cardinality({}) + Cardinality(Claims(texts, m)) = Cardinality(Claims(texts, m))
    BY <2>3, FS_EmptySet, FS_CardinalityType
  <2>5. \A x, y \in Claims(texts, m) : x = y
    BY <2>2, <2>3, <2>4, FS_EmptySet, SaidAtMostOnce
  <2> QED BY <2>1, <2>3, <2>5 DEF Claims
<1> QED BY <1>2 DEF OneEach

LEMMA OneEachIsSettled ==
    ASSUME NEW texts, NEW rank, OneEach(texts), \A u \in DOMAIN texts : rank[u] \in Nat
    PROVE  Settled(texts, Universe(texts, rank))
<1>1. PICK universe : universe = Universe(texts, rank)
  OBVIOUS
<1>3. DOMAIN universe = Known(texts) \cup ShippedFor(texts)
  BY <1>1 DEF Universe, Offered
<1>4. ASSUME NEW m \in Known(texts)
      PROVE  \E c \in DOMAIN texts : /\ texts[c].module = m /\ m # NoModule
                                     /\ universe[m] = texts[c]
                                     /\ \A v \in DOMAIN texts : texts[v].module = m => v = c
  <2>1. PICK c \in DOMAIN texts : texts[c].module = m /\ m # NoModule
    BY DEF Known
  <2>2. \A v \in DOMAIN texts : texts[v].module = m => v = c
    BY <2>1 DEF OneEach
  <2>3. Claims(texts, m) = {c}
    BY <2>1, <2>2 DEF Claims
  <2>4. universe[m] = texts[CHOOSE u \in Claims(texts, m) :
                               \A v \in Claims(texts, m) : rank[v] <= rank[u]]
    BY <1>1 DEF Universe, Offered
  <2>5. \E u \in Claims(texts, m) : \A v \in Claims(texts, m) : rank[v] <= rank[u]
    BY <2>3
  <2>6. (CHOOSE u \in Claims(texts, m) : \A v \in Claims(texts, m) : rank[v] <= rank[u]) = c
    BY <2>3, <2>5
  <2> QED BY <2>1, <2>2, <2>4, <2>6
<1>5. ASSUME NEW m \in ShippedFor(texts)
      PROVE  /\ m \in DOMAIN Shipped /\ universe[m] = Shipped[m]
             /\ m = NoModule \/ Unclaimed(texts, m)
  <2>1. m \in DOMAIN Shipped /\ m \notin Known(texts)
    BY DEF ShippedFor
  <2>2. universe[m] = Shipped[m]
    BY <1>1, <2>1 DEF Universe, Offered
  <2> QED BY <2>1, <2>2 DEF Known, Unclaimed
<1> QED BY <1>1, <1>3, <1>4, <1>5 DEF Settled

LEMMA UniversesMatch ==
    ASSUME NEW texts, \A v \in DOMAIN texts : Plain(texts[v]), OneEach(texts),
           NEW rank, \A v \in DOMAIN texts : rank[v] \in Nat,
           NEW texts2, NEW v0, NEW h, NEW n, Turned(texts, texts2, v0, h, n)
    PROVE  Matching(Universe(texts, rank), Universe(texts2, rank), h, n)
<1>1. /\ DOMAIN texts2 = DOMAIN texts /\ v0 \in DOMAIN texts /\ texts[v0].module = h
      /\ n \in Declared(texts[v0]) /\ ItemWise(texts[v0], texts2[v0], n)
  BY DEF Turned
<1>2. \A v \in DOMAIN texts : /\ texts2[v].module = texts[v].module
                              /\ ImportsOf(texts2[v]) = ImportsOf(texts[v])
  BY ModulesStay
<1>3. OneEach(texts2)
  BY <1>1, <1>2 DEF OneEach
<1>4. PICK universe : universe = Universe(texts, rank)
  OBVIOUS
<1>5. PICK universe2 : universe2 = Universe(texts2, rank)
  OBVIOUS
<1>6. Settled(texts, universe) /\ Settled(texts2, universe2)
  BY <1>1, <1>3, <1>4, <1>5, OneEachIsSettled
<1>7. DOMAIN universe2 = DOMAIN universe
  <2>1. Known(texts2) = Known(texts) /\ ShippedFor(texts2) = ShippedFor(texts)
    BY <1>1, <1>2, SameModules
  <2> QED BY <1>4, <1>5, <2>1 DEF Universe, Offered
<1>8. ASSUME NEW m \in DOMAIN universe
      PROVE  \/ \E c \in DOMAIN texts : /\ texts[c].module = m /\ m # NoModule
                                        /\ universe[m] = texts[c] /\ universe2[m] = texts2[c]
             \/ universe2[m] = universe[m] /\ (m = NoModule \/ Unclaimed(texts, m))
  <2>1. CASE m = NoModule
    BY <1>6, <1>7, <2>1 DEF Settled
  <2>2. CASE m # NoModule /\ Unclaimed(texts, m)
    <3>1. Unclaimed(texts2, m)
      BY <1>1, <1>2, <2>2 DEF Unclaimed
    <3>2. universe[m] = Shipped[m]
      BY <1>6, <2>2 DEF Settled, Unclaimed
    <3>3. universe2[m] = Shipped[m]
      BY <1>6, <1>7, <3>1 DEF Settled, Unclaimed
    <3> QED BY <2>2, <3>2, <3>3
  <2>3. CASE m # NoModule /\ ~Unclaimed(texts, m)
    <3>1. PICK c \in DOMAIN texts : /\ texts[c].module = m /\ universe[m] = texts[c]
                                    /\ \A v \in DOMAIN texts : texts[v].module = m => v = c
      BY <1>6, <2>3 DEF Settled
    <3>2. ~Unclaimed(texts2, m)
      BY <1>1, <1>2, <3>1 DEF Unclaimed
    <3>3. PICK d \in DOMAIN texts2 : texts2[d].module = m /\ universe2[m] = texts2[d]
      BY <1>6, <1>7, <2>3, <3>2 DEF Settled
    <3>4. d = c
      BY <1>1, <1>2, <3>1, <3>3
    <3> QED BY <2>3, <3>1, <3>3, <3>4
  <2> QED BY <2>1, <2>2, <2>3
<1>9. ASSUME NEW t
      PROVE  \A x : x \in Declared(t) <=> Declaring(t, x) # {}
  BY DEF Declared, Declaring
<1>10. /\ n # Fresh
       /\ Declaring(texts2[v0], Fresh) = Declaring(texts[v0], n)
       /\ \A x : x # n /\ x # Fresh =>
              /\ Declaring(texts2[v0], x) = Declaring(texts[v0], x)
              /\ Operations(texts2[v0], x) = Operations(texts[v0], x)
       /\ Operations(texts2[v0], Fresh) = Operations(texts[v0], n)
  BY <1>1, OwnerKeeps
<1>11. ASSUME NEW c \in DOMAIN texts, c # v0
       PROVE  \A x : /\ Declared(texts2[c]) = Declared(texts[c])
                     /\ Operations(texts2[c], x) = Operations(texts[c], x)
  <2>1. texts2[c].decls = texts[c].decls
    BY <1>11 DEF Turned, ImportWise
  <2> QED BY <2>1 DEF Declared, Operations, Indices
<1>12. ASSUME NEW m \in DOMAIN universe, NEW x, ~Target(m, x, h, n)
       PROVE  /\ x \in Declared(universe[m]) => x \in Declared(universe2[m])
              /\ x # Fresh => Operations(universe2[m], x) = Operations(universe[m], x)
  <2>1. CASE universe2[m] = universe[m]
    BY <2>1
  <2>2. ASSUME NEW c \in DOMAIN texts, texts[c].module = m, m # NoModule,
               universe[m] = texts[c], universe2[m] = texts2[c]
        PROVE  /\ x \in Declared(universe[m]) => x \in Declared(universe2[m])
               /\ x # Fresh => Operations(universe2[m], x) = Operations(universe[m], x)
    <3>1. CASE c # v0
      BY <1>11, <2>2, <3>1
    <3>2. CASE c = v0
      <4>1. x # n
        BY <1>1, <1>12, <2>2, <3>2 DEF Target
      <4>2. Fresh \notin Declared(texts[v0])
        BY <1>1 DEF Plain, InScope, Own
      <4>3. x \in Declared(texts[v0]) => x \in Declared(texts2[v0])
        BY <1>9, <1>10, <4>1, <4>2
      <4> QED BY <1>10, <2>2, <3>2, <4>1, <4>3
    <3> QED BY <3>1, <3>2
  <2> QED BY <1>8, <2>1, <2>2
<1>13. ASSUME h # NoModule
       PROVE  /\ h \in DOMAIN universe /\ Fresh \in Declared(universe2[h])
              /\ Operations(universe2[h], Fresh) = Operations(universe[h], n)
  <2>1. h \in DOMAIN universe
    BY <1>1, <1>4, <1>13 DEF Universe, Offered, Known
  <2>2. ~Unclaimed(texts, h)
    BY <1>1 DEF Unclaimed
  <2>3. PICK c \in DOMAIN texts : /\ texts[c].module = h /\ universe[h] = texts[c]
                                  /\ universe2[h] = texts2[c]
    BY <1>8, <1>13, <2>1, <2>2
  <2>4. c = v0
    BY <1>1, <1>13, <2>3 DEF OneEach
  <2>5. Fresh \in Declared(texts2[v0])
    BY <1>1, <1>9, <1>10
  <2> QED BY <1>10, <2>1, <2>3, <2>4, <2>5
<1>14. Matching(universe, universe2, h, n)
  BY <1>7, <1>12, <1>13 DEF Matching
<1> QED BY <1>4, <1>5, <1>14

\* No errors before, none after.
LEMMA CleanStays ==
    ASSUME NEW texts, \A v \in DOMAIN texts : Plain(texts[v]), IsFiniteSet(DOMAIN texts),
           NEW rank, \A v \in DOMAIN texts : rank[v] \in Nat, Clean(texts, rank),
           NEW texts2, NEW v0, NEW h, NEW n, AskedFor(n), Turned(texts, texts2, v0, h, n)
    PROVE  Clean(texts2, rank)
<1>1. OneEach(texts)
  BY CleanIsOneEach
<1>2. PICK universe : universe = Universe(texts, rank)
  OBVIOUS
<1>3. PICK universe2 : universe2 = Universe(texts2, rank)
  OBVIOUS
<1>4. Matching(universe, universe2, h, n)
  BY <1>1, <1>2, <1>3, UniversesMatch
<1>5. \A v \in DOMAIN texts : Sane(texts[v], universe)
  <2>1. ASSUME NEW v \in DOMAIN texts PROVE Sane(texts[v], universe)
    <3>1. \A p \in Diagnoses(texts, universe, v) : ~IsError(p)
      BY <1>2 DEF Clean
    <3>2. Faultless(texts[v], universe)
      BY <3>1 DEF Diagnoses, Faultless
    <3> QED BY <3>2, FaultlessIsSane
  <2> QED BY <2>1
<1>6. DOMAIN texts2 = DOMAIN texts
  BY DEF Turned
<1>7. ASSUME NEW v \in DOMAIN texts PROVE Sane(texts2[v], universe2)
  <2>1. PICK t : t = texts[v]
    OBVIOUS
  <2>2. PICK t2 : t2 = texts2[v]
    OBVIOUS
  <2>3. Plain(t) /\ Sane(t, universe)
    BY <1>5, <2>1
  <2>4. CASE v = v0
    <3>1. ItemWise(t, t2, n) /\ n \in Declared(t)
      BY <2>1, <2>2, <2>4 DEF Turned
    <3> QED BY <1>4, <2>2, <2>3, <3>1, SaneOwner
  <2>5. CASE v # v0 /\ Uses(t, h, n)
    <3>1. ImportWise(t, t2, h, n)
      BY <2>1, <2>2, <2>5 DEF Turned
    <3> QED BY <1>4, <2>2, <2>3, <2>5, <3>1, SaneImporter
  <2>6. CASE v # v0 /\ ~Uses(t, h, n)
    <3>1. t2 = t
      BY <2>1, <2>2, <2>6 DEF Turned
    <3>2. Sane(t, universe2)
      BY <1>4, <2>3, <2>6, SaneBystander
    <3> QED BY <2>2, <3>1, <3>2
  <2> QED BY <2>4, <2>5, <2>6
<1>8. \A v \in DOMAIN texts : texts2[v].module = texts[v].module
  BY ModulesStay
<1>9. ASSUME NEW v \in DOMAIN texts2, NEW p \in Diagnoses(texts2, universe2, v)
      PROVE  ~IsError(p)
  <2>1. Faultless(texts2[v], universe2)
    BY <1>6, <1>7, SaneIsFaultless
  <2>2. CASE p \in Unresolved(texts2[v], universe2) \cup UnknownMembers(texts2[v], universe2)
    BY <2>1, <2>2 DEF Faultless
  <2>3. CASE p \in Warnings(texts2[v], universe2)
    BY <2>3 DEF Warnings, UnusedImports, HiddenEffects, Deprecations, IsError
  <2>4. CASE /\ texts2[v].module # NoModule
             /\ Cardinality(Claims(texts2, texts2[v].module)) > 1
    <3>1. PICK m : m = texts[v].module
      OBVIOUS
    <3>2. Claims(texts2, m) = Claims(texts, m) /\ texts2[v].module = m
      BY <1>6, <1>8, <3>1 DEF Claims
    <3>3. <<"AMBIGUOUS_MODULE", m>> \in Diagnoses(texts, universe, v)
      BY <2>4, <3>1, <3>2 DEF Diagnoses
    <3>4. ~IsError(<<"AMBIGUOUS_MODULE", m>>)
      BY <1>2, <1>6, <3>3 DEF Clean
    <3> QED BY <3>4 DEF IsError
  <2> QED BY <2>2, <2>3, <2>4 DEF Diagnoses
<1> QED BY <1>3, <1>9 DEF Clean

(***************************************************************************)
(* The edits a rename answers with are the name's replacement everywhere.  *)
(***************************************************************************)
LEMMA DefsAre ==
    ASSUME NEW t, NEW def \in Defs(t)
    PROVE  \/ def.kind = "op"
           \/ def.kind = "item" /\ (def.name \in Declared(t) \/ def.name \in ProvidedNames)
           \/ def.kind = "import" /\ \E use \in t.uses : def.of = use[1] /\ def.name = use[2]
<1>1. CASE def \in {[kind |-> "item", of |-> t.module, name |-> n] :
                        n \in Declared(t) \cup (Mentioned(t) \cap Given(t))}
  BY <1>1 DEF Given, ProvidedNames
<1>2. CASE def \in {[kind |-> "import", of |-> use[1], name |-> use[2]] : use \in t.uses}
  BY <1>2
<1>3. CASE def \in {[kind |-> "op", of |-> d[1], name |-> d[2]] :
                        d \in {dot \in t.dots : \/ dot[1] \in Own(t)
                                                \/ /\ dot[1] \in Given(t)
                                                   /\ dot[2] \in Provided[dot[1]]}}
  BY <1>3
<1>4. ASSUME NEW i \in Indices(t),
             def \in {[kind |-> "op", of |-> t.decls[i].name, name |-> o] : o \in t.decls[i].ops}
      PROVE  def.kind = "op"
  BY <1>4
<1> QED BY <1>1, <1>2, <1>3, <1>4 DEF Defs

LEMMA ItemFirst ==
    ASSUME NEW t, Plain(t), NEW universe, Sane(t, universe), NEW n, n \in Declared(t),
           n \notin ProvidedNames
    PROVE  /\ Named(t, n)
           /\ FirstNamed(t, n) = [kind |-> "item", of |-> t.module, name |-> n]
<1>1. PICK k \in Indices(t) : t.decls[k].name = n
  BY DEF Declared
<1>2. [kind |-> "item", of |-> t.module, name |-> n] \in Defs(t)
  BY DEF Defs
<1>3. Named(t, n)
  <2>1. PICK d : d = [kind |-> "item", of |-> t.module, name |-> n]
    OBVIOUS
  <2>2. d.kind # "import" /\ d.name = n
    BY <2>1
  <2> QED BY <1>2, <2>1, <2>2 DEF Named, ProvidedNames
<1>4. \A x, y \in Declaring(t, n) : x = y
  <2>1. IsFiniteSet(Declaring(t, n)) /\ IsFiniteSet({}) /\ Cardinality({}) = 0
    BY SaidFinitely, FS_EmptySet
  <2>2. ~(Cardinality(Declaring(t, n)) + Cardinality({}) > 1)
    BY NamedOnce
  <2>3. Cardinality(Declaring(t, n)) \in Nat
    BY <2>1, FS_CardinalityType
  <2>4. ~(Cardinality({}) + Cardinality(Declaring(t, n)) > 1)
    BY <2>1, <2>2, <2>3
  <2> QED BY <2>1, <2>4, SaidAtMostOnce
<1>5. PICK at : at = {i \in Indices(t) : t.decls[i].name = n \/ n \in t.decls[i].ops}
  OBVIOUS
<1>6. at = {k}
  <2>1. k \in at
    BY <1>1, <1>5
  <2>2. ASSUME NEW i \in at PROVE i = k
    <3>1. i \in Indices(t) /\ t.decls[i].name = n
      BY <1>1, <1>5 DEF Plain
    <3> QED BY <1>1, <1>4, <3>1 DEF Declaring
  <2> QED BY <2>1, <2>2
<1>7. k \in Int
  BY <1>1 DEF Indices, Plain
<1>8. (CHOOSE i \in at : \A j \in at : i <= j) = k
  BY <1>6, <1>7
<1>9. FirstNamed(t, n) =
         IF at # {}
         THEN IF t.decls[CHOOSE i \in at : \A j \in at : i <= j].name = n
              THEN [kind |-> "item", of |-> t.module, name |-> n]
              ELSE [kind |-> "op", of |-> t.decls[CHOOSE i \in at : \A j \in at : i <= j].name,
                    name |-> n]
         ELSE CHOOSE d \in Defs(t) : d.kind = "op" /\ d.name = n
  BY <1>5 DEF FirstNamed, ProvidedNames
<1> QED BY <1>1, <1>3, <1>6, <1>8, <1>9

\* The set with the edits in it.
Edited(texts, changed) ==
    [v \in DOMAIN texts |-> IF v \in DOMAIN changed THEN changed[v] ELSE texts[v]]

\* A name others can import, asked for from anywhere.
LEMMA EditsOfExport ==
    ASSUME NEW texts, \A v \in DOMAIN texts : Plain(texts[v]), OneEach(texts),
           NEW universe, \A v \in DOMAIN texts : Sane(texts[v], universe),
           NEW u \in DOMAIN texts, NEW def, NEW h, h = Home(texts[u], def), h # NoModule,
           NEW n, n = def.name, n \notin ProvidedNames,
           NEW v0 \in DOMAIN texts, texts[v0].module = h, n \in Declared(texts[v0]),
           NEW changed, changed = Edits(texts, u, def)
    PROVE  /\ DOMAIN changed \subseteq DOMAIN texts
           /\ Turned(texts, Edited(texts, changed), v0, h, n)
<1>1. \A v \in DOMAIN texts : texts[v].module = h <=> v = v0
  BY DEF OneEach
<1>2. Named(texts[v0], n)
      /\ FirstNamed(texts[v0], n) = [kind |-> "item", of |-> texts[v0].module, name |-> n]
  BY ItemFirst
<1>3. PICK found : found = Occurrences(texts, u, def)
  OBVIOUS
<1>4. /\ DOMAIN found = {v \in DOMAIN texts :
                            \/ texts[v].module = h /\ Named(texts[v], n)
                            \/ texts[v].module # h /\ <<h, n>> \in texts[v].uses}
      /\ \A v \in DOMAIN found :
            found[v] = IF texts[v].module = h THEN FirstNamed(texts[v], n)
                       ELSE [kind |-> "import", of |-> h, name |-> n]
  BY <1>3 DEF Occurrences
<1>5. /\ DOMAIN changed = DOMAIN found
      /\ \A v \in DOMAIN found : changed[v] = Renamed(texts[v], found[v], Fresh)
  BY <1>3 DEF Edits
<1>6. v0 \in DOMAIN found /\ found[v0] = [kind |-> "item", of |-> h, name |-> n]
  BY <1>1, <1>2, <1>4
<1>7. \A v \in DOMAIN texts \ {v0} : v \in DOMAIN found <=> Uses(texts[v], h, n)
  BY <1>1, <1>4 DEF Uses
<1>8. \A v \in DOMAIN found \ {v0} : found[v] = [kind |-> "import", of |-> h, name |-> n]
  BY <1>1, <1>4
<1>9. PICK texts2 : texts2 = Edited(texts, changed)
  OBVIOUS
<1>10. /\ DOMAIN texts2 = DOMAIN texts
       /\ \A v \in DOMAIN texts :
             texts2[v] = IF v \in DOMAIN found THEN Renamed(texts[v], found[v], Fresh)
                         ELSE texts[v]
  BY <1>5, <1>9 DEF Edited
<1>11. ItemWise(texts[v0], texts2[v0], n)
  <2>1. PICK d : d = found[v0]
    OBVIOUS
  <2>2. d.kind = "item" /\ d.name = n
    BY <1>6, <2>1
  <2>3. ItemWise(texts[v0], Renamed(texts[v0], d, Fresh), n)
    BY <2>2, RenamedItemWise
  <2> QED BY <1>6, <1>10, <2>1, <2>3
<1>12. ASSUME NEW v \in DOMAIN texts \ {v0}, Uses(texts[v], h, n)
       PROVE  ImportWise(texts[v], texts2[v], h, n)
  <2>1. PICK d : d = found[v]
    OBVIOUS
  <2>2. v \in DOMAIN found \ {v0}
    BY <1>7, <1>12
  <2>3. d.kind = "import" /\ d.of = h /\ d.name = n
    BY <1>8, <2>1, <2>2
  <2>4. <<d.of, d.name>> \in texts[v].uses
    BY <1>12, <2>3 DEF Uses
  <2>5. ImportWise(texts[v], Renamed(texts[v], d, Fresh), d.of, d.name)
    BY <2>3, <2>4, RenamedImportWise
  <2> QED BY <1>10, <2>1, <2>2, <2>3, <2>5
<1>13. ASSUME NEW v \in DOMAIN texts \ {v0}, ~Uses(texts[v], h, n)
       PROVE  texts2[v] = texts[v]
  BY <1>7, <1>10, <1>13
<1>14. Turned(texts, texts2, v0, h, n)
  BY <1>10, <1>11, <1>12, <1>13 DEF Turned
<1>15. DOMAIN changed \subseteq DOMAIN texts
  BY <1>4, <1>5
<1> QED BY <1>9, <1>14, <1>15

\* A name that stays in its file.
LEMMA EditsOfPrivate ==
    ASSUME NEW texts, \A v \in DOMAIN texts : Plain(texts[v]),
           NEW u \in DOMAIN texts, NEW def, def.kind = "item", def.name \in Declared(texts[u]),
           NoModule = Home(texts[u], def), NEW changed, changed = Edits(texts, u, def)
    PROVE  /\ DOMAIN changed \subseteq DOMAIN texts
           /\ Turned(texts, Edited(texts, changed), u, NoModule, def.name)
<1>1. PICK found : found = Occurrences(texts, u, def)
  OBVIOUS
<1>2. DOMAIN found = {u} /\ found[u] = def
  BY <1>1 DEF Occurrences
<1>3. DOMAIN changed = {u} /\ changed[u] = Renamed(texts[u], def, Fresh)
  BY <1>1, <1>2 DEF Edits
<1>4. PICK texts2 : texts2 = Edited(texts, changed)
  OBVIOUS
<1>5. /\ DOMAIN texts2 = DOMAIN texts /\ texts2[u] = Renamed(texts[u], def, Fresh)
      /\ \A v \in DOMAIN texts \ {u} : texts2[v] = texts[v]
  BY <1>3, <1>4 DEF Edited
<1>6. ItemWise(texts[u], texts2[u], def.name)
  BY <1>5, RenamedItemWise
<1>7. texts[u].module = NoModule
  BY DEF Home
<1>8. Turned(texts, texts2, u, NoModule, def.name)
  BY <1>5, <1>6, <1>7 DEF Turned, Uses
<1> QED BY <1>3, <1>4, <1>8

\* What a person may ask to be renamed everywhere: an item of their own, whose
\* name the prelude does not give to an effect or an operation too.
Theirs(def) ==
    /\ def.kind # "op" /\ def.name \notin ProvidedNames
    /\ def.kind = "import" => def.of \notin DOMAIN Shipped

LEMMA RenameStaysClean ==
    ASSUME NEW texts, \A v \in DOMAIN texts : Plain(texts[v]), IsFiniteSet(DOMAIN texts),
           NEW rank, \A v \in DOMAIN texts : rank[v] \in Nat, Clean(texts, rank),
           NEW u \in DOMAIN texts, NEW def \in Defs(texts[u]) \cap Asked, Theirs(def),
           NEW changed, changed = Edits(texts, u, def)
    PROVE  /\ DOMAIN changed \subseteq DOMAIN texts
           /\ Clean(Edited(texts, changed), rank)
<1>0. AskedFor(def.name) /\ def.name \notin ProvidedNames
  BY DEF AskedFor, Theirs
<1>1. OneEach(texts)
  BY CleanIsOneEach
<1>2. PICK universe : universe = Universe(texts, rank)
  OBVIOUS
<1>3. \A v \in DOMAIN texts : Sane(texts[v], universe)
  <2>1. ASSUME NEW v \in DOMAIN texts PROVE Sane(texts[v], universe)
    <3>1. \A p \in Diagnoses(texts, universe, v) : ~IsError(p)
      BY <1>2 DEF Clean
    <3>2. Faultless(texts[v], universe)
      BY <3>1 DEF Diagnoses, Faultless
    <3> QED BY <3>2, FaultlessIsSane
  <2> QED BY <2>1
<1>4. PICK h : h = Home(texts[u], def)
  OBVIOUS
<1>5. CASE def.kind = "item" /\ def.name \in Declared(texts[u])
  <2>1. h = texts[u].module
    BY <1>4, <1>5 DEF Home
  <2>2. \E v0, m : /\ DOMAIN changed \subseteq DOMAIN texts
                   /\ Turned(texts, Edited(texts, changed), v0, m, def.name)
    <3>1. CASE h = NoModule
      BY <1>4, <1>5, <3>1, EditsOfPrivate
    <3>2. CASE h # NoModule
      <4>1. /\ DOMAIN changed \subseteq DOMAIN texts
            /\ Turned(texts, Edited(texts, changed), u, h, def.name)
        BY <1>0, <1>1, <1>3, <1>4, <1>5, <2>1, <3>2, EditsOfExport
      <4> QED BY <4>1
    <3> QED BY <3>1, <3>2
  <2> QED BY <1>0, <2>2, CleanStays
<1>6. ASSUME def.kind = "import",
             \E use \in texts[u].uses : def.of = use[1] /\ def.name = use[2]
      PROVE  /\ DOMAIN changed \subseteq DOMAIN texts
             /\ Clean(Edited(texts, changed), rank)
  <2>1. h = def.of
    BY <1>4, <1>6 DEF Home
  <2>2. h \in DOMAIN universe /\ def.name \in Declared(universe[h])
    BY <1>3, <1>6, <2>1 DEF Sane
  <2>3. Settled(texts, universe)
    BY <1>1, <1>2, OneEachIsSettled
  <2>4. h \notin DOMAIN Shipped
    BY <1>6, <2>1 DEF Theirs
  <2>5. PICK c \in DOMAIN texts : texts[c].module = h /\ h # NoModule /\ universe[h] = texts[c]
    BY <2>2, <2>3, <2>4 DEF Settled
  <2>6. def.name \in Declared(texts[c])
    BY <2>2, <2>5
  <2>7. /\ DOMAIN changed \subseteq DOMAIN texts
        /\ Turned(texts, Edited(texts, changed), c, h, def.name)
    BY <1>0, <1>1, <1>3, <1>4, <2>5, <2>6, EditsOfExport
  <2> QED BY <1>0, <2>7, CleanStays
<1> QED BY <1>5, <1>6, DefsAre DEF Theirs

(***************************************************************************)
(* Then of the two streams: one rename is under way at a time, and while   *)
(* nobody disturbs it what comes back is about the texts the editor shows. *)
(***************************************************************************)
Wishes(m) == m.method = "rename"
Promises(m) == m.method = "answer" /\ m.id = "rename"
Editing(m) == m.method = "answer" /\ m.result = "edit"

Lone(out, in, wait) ==
    /\ IsSeq(out) /\ IsSeq(in)
    /\ \A i, j \in DOMAIN out : Wishes(out[i]) /\ Wishes(out[j]) => i = j
    /\ \A i, j \in DOMAIN in : Promises(in[i]) /\ Promises(in[j]) => i = j
    /\ \A i \in DOMAIN out : \A j \in DOMAIN in : ~(Wishes(out[i]) /\ Promises(in[j]))
    /\ \A i \in DOMAIN out : Wishes(out[i]) => "rename" \in wait /\ out[i].def \in Asked
    /\ \A j \in DOMAIN in : Promises(in[j]) => "rename" \in wait
    /\ \A j \in DOMAIN in : Editing(in[j]) => Promises(in[j])

\* The server hears of every text before it hears of the rename.
Behind(out) ==
    \A i, j \in DOMAIN out : Wishes(out[i]) /\ out[j].method \in Notifications => j < i

\* Nothing in the first that is not in the second.
Among(s, t) == \A j \in DOMAIN s : \E i \in DOMAIN t : s[j] = t[i]

Added(s, t, m) == \A j \in DOMAIN s : (j \in DOMAIN t /\ s[j] = t[j]) \/ s[j] = m

NoWish(out) == \A i \in DOMAIN out : ~Wishes(out[i])
NoPromise(in) == \A j \in DOMAIN in : ~Promises(in[j])

LEMMA LoneSays ==
    ASSUME NEW out, NEW in, NEW wait, Lone(out, in, wait),
           NEW m, ~Wishes(m), NEW out2, out2 = Append(out, m)
    PROVE  /\ Lone(out2, in, wait)
           /\ Behind(out) /\ m.method \notin Notifications => Behind(out2)
<1>1. IsSeq(out2) /\ \A i \in DOMAIN out2 : (i \in DOMAIN out /\ out2[i] = out[i]) \/ out2[i] = m
  <2>1. PICK r : r = Grown(out, m)
    OBVIOUS
  <2>2. IsSeq(r) /\ \A i \in DOMAIN r : (i \in DOMAIN out /\ r[i] = out[i]) \/ r[i] = m
    BY <2>1, GrownBy DEF Lone
  <2> QED BY <2>1, <2>2 DEF Grown
<1>2. Lone(out2, in, wait)
  BY <1>1 DEF Lone
<1>3. ASSUME Behind(out), m.method \notin Notifications PROVE Behind(out2)
  BY <1>1, <1>3 DEF Behind
<1> QED BY <1>2, <1>3

LEMMA LoneAsks ==
    ASSUME NEW out, NEW in, NEW wait, Lone(out, in, wait), "rename" \notin wait,
           NEW m, Wishes(m), m.def \in Asked, NEW out2, out2 = Append(out, m),
           NEW wait2, "rename" \in wait2
    PROVE  Lone(out2, in, wait2) /\ Behind(out2) /\ NoPromise(in)
<1>1. /\ IsSeq(out2) /\ DOMAIN out2 = 1 .. (Len(out) + 1) /\ Len(out) \in Nat
      /\ DOMAIN out = 1 .. Len(out)
      /\ \A i \in DOMAIN out : out2[i] = out[i]
      /\ out2[Len(out) + 1] = m
  <2>1. PICK r : r = Grown(out, m)
    OBVIOUS
  <2>2. /\ IsSeq(r) /\ Len(out) \in Nat /\ Len(r) = Len(out) + 1
        /\ \A i \in 1..Len(out) : r[i] = out[i]
        /\ r[Len(out) + 1] = m
    BY <2>1, Appended DEF Lone, Grown
  <2>3. DOMAIN out = 1..Len(out) /\ DOMAIN r = 1..(Len(out) + 1)
    BY <2>2 DEF IsSeq, Lone
  <2> QED BY <2>1, <2>2, <2>3 DEF Grown
<1>2. NoWish(out) /\ NoPromise(in)
  BY DEF Lone, NoWish, NoPromise
<1>3. \A i \in DOMAIN out2 : Wishes(out2[i]) => i = Len(out) + 1
  <2>1. ASSUME NEW i \in DOMAIN out2, Wishes(out2[i]), i # Len(out) + 1 PROVE FALSE
    <3>1. i \in DOMAIN out
      BY <1>1, <2>1
    <3> QED BY <1>1, <1>2, <2>1, <3>1 DEF NoWish
  <2> QED BY <2>1
<1>4. Lone(out2, in, wait2)
  BY <1>1, <1>2, <1>3 DEF Lone, NoPromise
<1>5. Behind(out2)
  <2>1. ASSUME NEW j \in DOMAIN out2, out2[j].method \in Notifications PROVE j < Len(out) + 1
    <3>1. j # Len(out) + 1
      BY <1>1, <2>1 DEF Wishes, Notifications
    <3> QED BY <1>1, <3>1
  <2> QED BY <1>3, <2>1 DEF Behind
<1> QED BY <1>2, <1>4, <1>5

LEMMA LoneTells ==
    ASSUME NEW out, NEW in, NEW wait, Lone(out, in, wait), NEW said, IsSeq(said), NoWish(said),
           NEW out2, out2 = Join(out, said)
    PROVE  Lone(out2, in, wait) /\ (NoWish(out) => NoWish(out2))
<1>1. /\ IsSeq(out2)
      /\ \A i \in DOMAIN out2 : \/ i \in DOMAIN out /\ out2[i] = out[i]
                                \/ \E j \in DOMAIN said : out2[i] = said[j]
  BY JoinedOn DEF Lone
<1>2. \A i \in DOMAIN out2 : Wishes(out2[i]) => i \in DOMAIN out /\ out2[i] = out[i]
  BY <1>1 DEF NoWish
<1> QED BY <1>1, <1>2 DEF Lone, NoWish

LEMMA LoneTaken ==
    ASSUME NEW out, NEW in, NEW wait, Lone(out, in, wait), out # <<>>, NEW out2, out2 = Tail(out)
    PROVE  /\ Lone(out2, in, wait)
           /\ Behind(out) => Behind(out2)
           /\ 1 \in DOMAIN out /\ Head(out) = out[1]
           /\ Wishes(out[1]) => NoWish(out2) /\ NoPromise(in)
<1>0. IsSeq(out)
  BY DEF Lone
<1>1. /\ IsSeq(out2) /\ 1 \in DOMAIN out /\ Head(out) = out[1]
      /\ \A i \in DOMAIN out2 : i + 1 \in DOMAIN out /\ out2[i] = out[i + 1]
  BY <1>0, ShrunkBy
<1>2. \A i \in DOMAIN out2 : i \in Int /\ i + 1 # 1
  <2>1. DOMAIN out2 = 1 .. Len(out2) /\ Len(out2) \in Nat
    BY <1>1 DEF IsSeq
  <2> QED BY <2>1
<1>3. \A i, j \in DOMAIN out2 : Wishes(out2[i]) /\ Wishes(out2[j]) => i = j
  <2>1. ASSUME NEW i \in DOMAIN out2, NEW j \in DOMAIN out2, Wishes(out2[i]), Wishes(out2[j])
        PROVE  i = j
    <3>1. i + 1 = j + 1
      BY <1>1, <2>1 DEF Lone
    <3> QED BY <1>2, <3>1
  <2> QED BY <2>1
<1>4. Lone(out2, in, wait)
  BY <1>1, <1>3 DEF Lone
<1>5. ASSUME Behind(out) PROVE Behind(out2)
  <2>1. ASSUME NEW i \in DOMAIN out2, NEW j \in DOMAIN out2, Wishes(out2[i]),
               out2[j].method \in Notifications
        PROVE  j < i
    <3>1. j + 1 < i + 1
      BY <1>1, <1>5, <2>1 DEF Behind
    <3> QED BY <1>2, <3>1
  <2> QED BY <2>1 DEF Behind
<1>6. ASSUME Wishes(out[1]) PROVE NoWish(out2) /\ NoPromise(in)
  <2>1. NoPromise(in)
    BY <1>1, <1>6 DEF Lone, NoPromise
  <2>2. NoWish(out2)
    BY <1>1, <1>2, <1>6 DEF Lone, NoWish
  <2> QED BY <2>1, <2>2
<1> QED BY <1>1, <1>4, <1>5, <1>6

LEMMA LoneHears ==
    ASSUME NEW out, NEW in, NEW wait, Lone(out, in, wait), in # <<>>, NEW in2, in2 = Tail(in)
    PROVE  /\ Lone(out, in2, wait) /\ 1 \in DOMAIN in /\ Head(in) = in[1]
           /\ Among(in2, in)
           /\ Promises(in[1]) => NoWish(out) /\ NoPromise(in2)
<1>0. IsSeq(in)
  BY DEF Lone
<1>1. /\ IsSeq(in2) /\ 1 \in DOMAIN in /\ Head(in) = in[1]
      /\ \A j \in DOMAIN in2 : j + 1 \in DOMAIN in /\ in2[j] = in[j + 1]
  BY <1>0, ShrunkBy
<1>2. \A j \in DOMAIN in2 : j \in Int /\ j + 1 # 1
  <2>1. DOMAIN in2 = 1 .. Len(in2) /\ Len(in2) \in Nat
    BY <1>1 DEF IsSeq
  <2> QED BY <2>1
<1>3. \A i, j \in DOMAIN in2 : Promises(in2[i]) /\ Promises(in2[j]) => i = j
  <2>1. ASSUME NEW i \in DOMAIN in2, NEW j \in DOMAIN in2, Promises(in2[i]), Promises(in2[j])
        PROVE  i = j
    <3>1. i + 1 = j + 1
      BY <1>1, <2>1 DEF Lone
    <3> QED BY <1>2, <3>1
  <2> QED BY <2>1
<1>4. Lone(out, in2, wait)
  BY <1>1, <1>3 DEF Lone
<1>5. ASSUME Promises(in[1]) PROVE NoWish(out) /\ NoPromise(in2)
  <2>1. NoWish(out)
    BY <1>1, <1>5 DEF Lone, NoWish
  <2>2. NoPromise(in2)
    BY <1>1, <1>2, <1>5 DEF Lone, NoPromise
  <2> QED BY <2>1, <2>2
<1>6. Among(in2, in)
  BY <1>1 DEF Among
<1> QED BY <1>1, <1>4, <1>5, <1>6

LEMMA LoneWaits ==
    ASSUME NEW out, NEW in, NEW wait, Lone(out, in, wait), NEW wait2,
           ("rename" \in wait => "rename" \in wait2) \/ (NoWish(out) /\ NoPromise(in))
    PROVE  Lone(out, in, wait2)
BY DEF Lone, NoWish, NoPromise

LEMMA LoneReplies ==
    ASSUME NEW out, NEW in, NEW wait, Lone(out, in, wait),
           NEW m, NEW in2, in2 = Append(in, m),
           \/ ~Promises(m) /\ ~Editing(m)
           \/ Promises(m) /\ NoWish(out) /\ NoPromise(in) /\ "rename" \in wait
    PROVE  /\ Lone(out, in2, wait)
           /\ Added(in2, in, m)
<1>1. /\ IsSeq(in2) /\ DOMAIN in2 = 1 .. (Len(in) + 1) /\ Len(in) \in Nat
      /\ DOMAIN in = 1 .. Len(in)
      /\ \A i \in DOMAIN in : in2[i] = in[i]
      /\ in2[Len(in) + 1] = m
  <2>1. PICK r : r = Grown(in, m)
    OBVIOUS
  <2>2. /\ IsSeq(r) /\ Len(in) \in Nat /\ Len(r) = Len(in) + 1
        /\ \A i \in 1..Len(in) : r[i] = in[i]
        /\ r[Len(in) + 1] = m
    BY <2>1, Appended DEF Lone, Grown
  <2>3. DOMAIN in = 1..Len(in) /\ DOMAIN r = 1..(Len(in) + 1)
    BY <2>2 DEF IsSeq, Lone
  <2> QED BY <2>1, <2>2, <2>3 DEF Grown
<1>2. \A j \in DOMAIN in2 : (j \in DOMAIN in /\ in2[j] = in[j]) \/ (j = Len(in) + 1 /\ in2[j] = m)
  <2>1. ASSUME NEW j \in DOMAIN in2, j # Len(in) + 1 PROVE j \in DOMAIN in
    BY <1>1, <2>1
  <2> QED BY <1>1, <2>1
<1>3. Added(in2, in, m)
  BY <1>2 DEF Added
<1>4. CASE ~Promises(m) /\ ~Editing(m)
  BY <1>1, <1>2, <1>3, <1>4 DEF Lone
<1>5. CASE Promises(m) /\ NoWish(out) /\ NoPromise(in) /\ "rename" \in wait
  BY <1>1, <1>2, <1>3, <1>5 DEF Lone, NoWish, NoPromise
<1> QED BY <1>4, <1>5

LEMMA LonePublishes ==
    ASSUME NEW out, NEW in, NEW wait, Lone(out, in, wait), NEW said, IsSeq(said),
           \A j \in DOMAIN said : said[j].method = "publish",
           NEW in2, in2 = Join(in, said)
    PROVE  /\ Lone(out, in2, wait)
           /\ \A j \in DOMAIN in2 : Editing(in2[j]) => j \in DOMAIN in /\ in2[j] = in[j]
<1>1. /\ IsSeq(in2)
      /\ \A i \in DOMAIN in2 : \/ i \in DOMAIN in /\ in2[i] = in[i]
                               \/ \E j \in DOMAIN said : in2[i] = said[j]
  BY JoinedOn DEF Lone
<1>2. \A i \in DOMAIN in2 : Editing(in2[i]) \/ Promises(in2[i]) => i \in DOMAIN in /\ in2[i] = in[i]
  BY <1>1 DEF Editing, Promises
<1> QED BY <1>1, <1>2 DEF Lone

\* Texts that could be what a rename asked for in the editor's texts is
\* answered with.
EditOf(docs, view, texts) ==
    \E u \in Opened(docs) : \E def \in Defs(docs[u]) \cap Asked : texts = Edits(view, u, def)

Renaming ==
    /\ Lone(outbox, inbox, waiting)
    /\ roots \subseteq Walked /\ (initialized => roots = Walked)
    /\ \A j \in DOMAIN inbox : Editing(inbox[j]) => initialized
    /\ ~disturbed =>
          /\ Behind(outbox)
          /\ \A j \in DOMAIN inbox :
                Editing(inbox[j]) => EditOf(buffer, EditorView, inbox[j].texts)

\* Steps after which every edit under way is one that was, about the same texts.
SameEdits ==
    /\ ~disturbed' => ~disturbed /\ buffer' = buffer /\ EditorView' = EditorView
    /\ \A j \in DOMAIN inbox' :
          Editing(inbox'[j]) => \E i \in DOMAIN inbox : inbox'[j] = inbox[i]
    /\ initialized => initialized' /\ roots' = roots

LEMMA RenamingKept ==
    ASSUME Renaming, Lone(outbox, inbox, waiting)', ~disturbed' => Behind(outbox'),
           roots' \subseteq Walked /\ (initialized' => roots' = Walked), SameEdits
    PROVE  Renaming'
<1>1. ASSUME NEW j \in DOMAIN inbox', Editing(inbox'[j])
      PROVE  /\ initialized'
             /\ ~disturbed' => EditOf(buffer, EditorView, inbox[j].texts)'
  <2>1. PICK i \in DOMAIN inbox : inbox'[j] = inbox[i]
    BY <1>1 DEF SameEdits
  <2>2. initialized'
    BY <1>1, <2>1 DEF Renaming, SameEdits
  <2>3. ASSUME ~disturbed' PROVE EditOf(buffer, EditorView, inbox[j].texts)'
    <3>1. PICK docs, view, texts :
              docs = buffer /\ view = EditorView /\ texts = inbox[i].texts
      OBVIOUS
    <3>2. docs = buffer' /\ view = EditorView' /\ texts = (inbox[j].texts)'
      BY <2>1, <2>3, <3>1 DEF SameEdits
    <3>3. EditOf(docs, view, texts)
      BY <1>1, <2>1, <2>3, <3>1 DEF Renaming, SameEdits
    <3>4. EditOf(docs, view, texts)' <=> EditOf(docs, view, texts)
      BY DEF EditOf, Opened
    <3> QED BY <3>2, <3>3
  <2> QED BY <2>2, <2>3
<1> QED BY <1>1 DEF Renaming

\* Nothing under way, nothing to keep.
LEMMA RenamingOver ==
    ASSUME Lone(outbox, inbox, waiting)', NoPromise(inbox'), ~disturbed' => Behind(outbox'),
           roots' \subseteq Walked /\ (initialized' => roots' = Walked)
    PROVE  Renaming'
<1>1. \A j \in DOMAIN inbox' : ~Editing(inbox'[j])
  BY DEF Lone, NoPromise
<1> QED BY <1>1 DEF Renaming

LEMMA ViewStays ==
    ASSUME buffer' = buffer, disk' = disk, roots' = roots
    PROVE  EditorView' = EditorView
<1>1. PICK docs, files, walk : docs = buffer /\ files = disk /\ walk = roots
  OBVIOUS
<1>2. docs = buffer' /\ files = disk' /\ walk = roots'
  BY <1>1
<1>3. EditorView = View(docs, files, walk)
  BY <1>1 DEF EditorView
<1>4. EditorView' = View(docs, files, walk)
  BY <1>2 DEF EditorView, View, Opened
<1> QED BY <1>3, <1>4

\* A save is of a file no view reads.
LEMMA ViewSaved ==
    ASSUME NEW u \in Opened(buffer), disk' = [disk EXCEPT ![FileOf[u]] = buffer[u]],
           buffer' = buffer, roots' = roots
    PROVE  EditorView' = EditorView
<1>1. PICK docs, files, walk : docs = buffer /\ files = disk /\ walk = roots
  OBVIOUS
<1>2. PICK files2 : files2 = disk'
  OBVIOUS
<1>3. u \in Opened(docs)
  BY <1>1
<1>4. \A f : f # FileOf[u] => files2[f] = files[f]
  BY <1>1, <1>2
<1>5. View(docs, files2, walk) = View(docs, files, walk)
  <2>1. \A w : (\A v \in Opened(docs) : FileOf[v] # FileOf[w]) => files2[FileOf[w]] = files[FileOf[w]]
    BY <1>3, <1>4
  <2>2. {w \in walk : /\ files2[FileOf[w]] # Absent
                      /\ \A v \in Opened(docs) : FileOf[v] # FileOf[w]}
         = {w \in walk : /\ files[FileOf[w]] # Absent
                         /\ \A v \in Opened(docs) : FileOf[v] # FileOf[w]}
    BY <2>1
  <2>3. PICK unopened : unopened = {w \in walk : /\ files[FileOf[w]] # Absent
                                                 /\ \A v \in Opened(docs) : FileOf[v] # FileOf[w]}
    OBVIOUS
  <2>4. /\ View(docs, files2, walk) = [w \in Opened(docs) \cup unopened |->
               IF w \in Opened(docs) THEN docs[w] ELSE files2[FileOf[w]]]
        /\ View(docs, files, walk) = [w \in Opened(docs) \cup unopened |->
               IF w \in Opened(docs) THEN docs[w] ELSE files[FileOf[w]]]
    BY <2>2, <2>3 DEF View
  <2>5. \A w \in unopened : files2[FileOf[w]] = files[FileOf[w]]
    BY <2>1, <2>3
  <2> QED BY <2>4, <2>5
<1>6. docs = buffer' /\ walk = roots'
  BY <1>1
<1>7. EditorView = View(docs, files, walk)
  BY <1>1 DEF EditorView
<1>8. EditorView' = View(docs, files2, walk)
  BY <1>2, <1>6 DEF EditorView, View, Opened
<1> QED BY <1>5, <1>7, <1>8

\* The editor writes a message that is no rename.
LEMMA RenamingSays ==
    ASSUME Renaming, NEW m, ~Wishes(m), outbox' = Append(outbox, m), inbox' = inbox,
           "rename" \in waiting => "rename" \in waiting',
           roots' = roots, initialized' = initialized,
           ~disturbed' => /\ m.method \notin Notifications
                          /\ ~disturbed /\ buffer' = buffer /\ disk' = disk
    PROVE  Renaming'
<1>1. PICK out, out2, in, wait, wait2 :
          /\ out = outbox /\ out2 = outbox' /\ in = inbox /\ wait = waiting /\ wait2 = waiting'
  OBVIOUS
<1>2. Lone(out, in, wait) /\ out2 = Append(out, m)
  BY <1>1 DEF Renaming
<1>3. Lone(out2, in, wait)
  BY <1>2, LoneSays
<1>4. Lone(out2, in, wait2)
  BY <1>1, <1>3, LoneWaits
<1>5. Lone(outbox, inbox, waiting)'
  BY <1>1, <1>4
<1>6. ASSUME ~disturbed' PROVE Behind(outbox')
  <2>1. Behind(out) /\ m.method \notin Notifications
    BY <1>1, <1>6 DEF Renaming
  <2>2. Behind(out2)
    BY <1>2, <2>1, LoneSays
  <2> QED BY <1>1, <2>2
<1>7. SameEdits
  BY ViewStays DEF SameEdits
<1> QED BY <1>5, <1>6, <1>7, RenamingKept DEF Renaming

\* The editor reads a message and changes no text.
LEMMA RenamingReads ==
    ASSUME Renaming, inbox # <<>>, inbox' = Tail(inbox), outbox' = outbox,
           buffer' = buffer, disk' = disk, roots' = roots, initialized' = initialized,
           disturbed' = disturbed,
           waiting' = waiting \/ waiting' = waiting \ {Head(inbox).id},
           waiting' # waiting => Head(inbox).method = "answer"
    PROVE  Renaming'
<1>1. PICK out, in, in2, wait, wait2 :
          /\ out = outbox /\ in = inbox /\ in2 = inbox' /\ wait = waiting /\ wait2 = waiting'
  OBVIOUS
<1>2. Lone(out, in, wait) /\ in2 = Tail(in) /\ in # <<>>
  BY <1>1 DEF Renaming
<1>3. /\ Lone(out, in2, wait) /\ 1 \in DOMAIN in /\ Head(in) = in[1]
      /\ Among(in2, in)
      /\ Promises(in[1]) => NoWish(out) /\ NoPromise(in2)
  BY <1>2, LoneHears
<1>4. ("rename" \in wait => "rename" \in wait2) \/ (NoWish(out) /\ NoPromise(in2))
  BY <1>1, <1>3 DEF Promises
<1>5. Lone(out, in2, wait2)
  BY <1>3, <1>4, LoneWaits
<1>6. Lone(outbox, inbox, waiting)'
  BY <1>1, <1>5
<1>7. SameEdits
  <2>1. \A j \in DOMAIN inbox' : \E i \in DOMAIN inbox : inbox'[j] = inbox[i]
    BY <1>1, <1>3 DEF Among
  <2> QED BY <2>1, ViewStays DEF SameEdits
<1>8. ~disturbed' => Behind(outbox')
  BY DEF Renaming
<1> QED BY <1>6, <1>7, <1>8, RenamingKept DEF Renaming

\* The edits of a rename are put in place.
LEMMA RenamingApplied == Renaming /\ ApplyRename => Renaming'
<1> SUFFICES ASSUME Renaming, ApplyRename PROVE Renaming'
  OBVIOUS
<1>1. PICK out, in, in2, wait, wait2 :
          /\ out = outbox /\ in = inbox /\ in2 = inbox' /\ wait = waiting /\ wait2 = waiting'
  OBVIOUS
<1>2. Lone(out, in, wait) /\ in2 = Tail(in) /\ in # <<>>
  BY <1>1 DEF Renaming, ApplyRename, Received
<1>3. /\ Lone(out, in2, wait) /\ 1 \in DOMAIN in /\ Head(in) = in[1]
      /\ Promises(in[1]) => NoWish(out) /\ NoPromise(in2)
  BY <1>2, LoneHears
<1>4. Promises(in[1])
  <2>1. Editing(in[1])
    BY <1>1, <1>3 DEF ApplyRename, Editing
  <2> QED BY <1>2, <1>3, <2>1 DEF Lone
<1>5. Lone(out, in2, wait2) /\ NoWish(out) /\ NoPromise(in2)
  BY <1>3, <1>4, LoneWaits
<1>6. PICK texts : texts = Head(inbox).texts
  OBVIOUS
<1>7. PICK open : open = DOMAIN texts \cap Opened(buffer)
  OBVIOUS
<1>8. PICK order \in Listings(open) :
          outbox' = outbox \o [i \in DOMAIN order |->
                                   About("didChange", order[i], texts[order[i]])]
  BY <1>6, <1>7 DEF ApplyRename
<1>9. PICK said : said = Changes(order, texts)
  OBVIOUS
<1>10. outbox' = Join(out, said)
  BY <1>1, <1>8, <1>9 DEF Join, Changes
<1>11. IsSeq(said) /\ NoWish(said)
  <2>1. IsFiniteSet(open)
    BY <1>7, UrisAssumption, FS_Subset DEF Opened
  <2>2. PICK n \in Nat : SaidOf(n, open, order, texts)
    BY <2>1, ChangesSaid
  <2>3. /\ IsSeq(said) /\ Len(said) = n
        /\ \A i \in 1..n : said[i].method = "didChange"
    BY <1>9, <2>2 DEF SaidOf
  <2>4. DOMAIN said = 1..n
    BY <2>3 DEF IsSeq
  <2> QED BY <2>3, <2>4 DEF NoWish, Wishes
<1>12. PICK out2 : out2 = outbox'
  OBVIOUS
<1>13. Lone(out2, in2, wait2) /\ NoWish(out2)
  BY <1>5, <1>10, <1>11, <1>12, LoneTells
<1>14. Behind(out2)
  BY <1>13 DEF Behind, NoWish
<1>15. Lone(outbox, inbox, waiting)' /\ NoPromise(inbox') /\ Behind(outbox')
  BY <1>1, <1>5, <1>12, <1>13, <1>14
<1>16. roots' \subseteq Walked /\ (initialized' => roots' = Walked)
  BY DEF Renaming, ApplyRename, serverVars
<1> QED BY <1>15, <1>16, RenamingOver

LEMMA RenamingAsked ==
    ASSUME Renaming, NEW u, NEW def \in Asked, AskRename(u, def) PROVE Renaming'
<1>1. PICK out, out2, in, wait, wait2 :
          /\ out = outbox /\ out2 = outbox' /\ in = inbox /\ wait = waiting /\ wait2 = waiting'
  OBVIOUS
<1>2. PICK m : m = Ask(u, def)
  OBVIOUS
<1>3. Wishes(m) /\ m.def \in Asked
  BY <1>2 DEF Ask, Wishes
<1>4. /\ Lone(out, in, wait) /\ "rename" \notin wait /\ out2 = Append(out, m)
      /\ "rename" \in wait2
  BY <1>1, <1>2 DEF Renaming, AskRename, Send
<1>5. Lone(out2, in, wait2) /\ Behind(out2) /\ NoPromise(in)
  BY <1>3, <1>4, LoneAsks
<1>6. Lone(outbox, inbox, waiting)' /\ NoPromise(inbox') /\ Behind(outbox')
  BY <1>1, <1>5 DEF AskRename
<1>7. roots' \subseteq Walked /\ (initialized' => roots' = Walked)
  BY DEF Renaming, AskRename, serverVars
<1> QED BY <1>6, <1>7, RenamingOver

LEMMA RenamingEditor == Following /\ Renaming /\ Editor => Renaming'
<1> SUFFICES ASSUME Following, Renaming, Editor PROVE Renaming'
  OBVIOUS
<1>m. \A x \in {"initialize", "shutdown", "exit"} :
          ~Wishes(Say(x)) /\ Say(x).method \notin Notifications
  BY DEF Say, Wishes, Notifications
<1>1. CASE Initialize
  BY <1>1, <1>m, RenamingSays DEF Initialize, Send, serverVars, countVars
<1>2. CASE Shutdown
  BY <1>2, <1>m, RenamingSays DEF Shutdown, Send, serverVars, countVars
<1>3. CASE Exit
  BY <1>3, <1>m, RenamingSays DEF Exit, Send, serverVars, countVars
<1>4. CASE Draw
  BY <1>4, RenamingReads DEF Draw, Received, serverVars, countVars
<1>5. CASE Answered
  BY <1>5, RenamingReads DEF Answered, Received, serverVars, countVars
<1>6. CASE ApplyRename
  BY <1>6, RenamingApplied
<1>7. ASSUME NEW u \in Uris, Open(u) PROVE Renaming'
  <2>1. PICK t : outbox' = Append(outbox, About("didOpen", u, t))
    BY <1>7 DEF Open, Send
  <2>2. PICK m : m = About("didOpen", u, t)
    OBVIOUS
  <2>3. ~Wishes(m)
    BY <2>2 DEF About, Wishes
  <2> QED BY <1>7, <2>1, <2>2, <2>3, RenamingSays DEF Open, serverVars
<1>8. ASSUME NEW u \in Uris, Type(u) PROVE Renaming'
  <2>1. PICK t : outbox' = Append(outbox, About("didChange", u, t))
    BY <1>8 DEF Type, Send
  <2>2. PICK m : m = About("didChange", u, t)
    OBVIOUS
  <2>3. ~Wishes(m)
    BY <2>2 DEF About, Wishes
  <2> QED BY <1>8, <2>1, <2>2, <2>3, RenamingSays DEF Type, serverVars
<1>9. ASSUME NEW u \in Uris, Close(u) PROVE Renaming'
  <2>2. PICK m : m = About("didClose", u, Closed)
    OBVIOUS
  <2>3. ~Wishes(m)
    BY <2>2 DEF About, Wishes
  <2> QED BY <1>9, <2>2, <2>3, RenamingSays DEF Close, Send, serverVars
<1>10. ASSUME NEW u \in Uris, Save(u) PROVE Renaming'
  <2>1. EditorView' = EditorView
    BY <1>10, ViewSaved DEF Save, editorVars, serverVars
  <2>2. SameEdits
    BY <1>10, <2>1 DEF Save, editorVars, serverVars, countVars, SameEdits
  <2>3. Lone(outbox, inbox, waiting)'
    <3>1. PICK out, in, wait : out = outbox /\ in = inbox /\ wait = waiting
      OBVIOUS
    <3>2. out = outbox' /\ in = inbox' /\ wait = waiting'
      BY <1>10, <3>1 DEF Save, editorVars
    <3> QED BY <3>1, <3>2 DEF Renaming
  <2>4. ~disturbed' => Behind(outbox')
    BY <1>10 DEF Renaming, Save, countVars
  <2> QED BY <1>10, <2>2, <2>3, <2>4, RenamingKept DEF Renaming, Save, serverVars
<1>11. ASSUME NEW u \in Uris, NEW def \in Asked, AskRename(u, def) PROVE Renaming'
  BY <1>11, RenamingAsked
<1> QED BY <1>1, <1>2, <1>3, <1>4, <1>5, <1>6, <1>7, <1>8, <1>9, <1>10, <1>11 DEF Editor

\* The server reads a message and writes what is no edit.
LEMMA RenamingServed ==
    ASSUME Renaming, outbox # <<>>, outbox' = Tail(outbox), waiting' = waiting,
           Lone(outbox', inbox, waiting) => Lone(outbox', inbox', waiting),
           \A j \in DOMAIN inbox' : Editing(inbox'[j]) => \E i \in DOMAIN inbox : inbox'[j] = inbox[i],
           buffer' = buffer, disk' = disk, disturbed' = disturbed,
           roots' = roots \/ roots' = Walked, initialized => initialized',
           initialized' => initialized \/ roots' = Walked
    PROVE  Renaming'
<1>1. PICK out, out2, in, wait :
          out = outbox /\ out2 = outbox' /\ in = inbox /\ wait = waiting
  OBVIOUS
<1>2. Lone(out, in, wait) /\ out2 = Tail(out) /\ out # <<>>
  BY <1>1 DEF Renaming
<1>3. Lone(out2, in, wait) /\ (Behind(out) => Behind(out2))
  BY <1>2, LoneTaken
<1>4. Lone(outbox', inbox', waiting)
  BY <1>1, <1>3
<1>5. Lone(outbox, inbox, waiting)'
  BY <1>4
<1>6. ~disturbed' => Behind(outbox')
  BY <1>1, <1>3 DEF Renaming
<1>7. roots' \subseteq Walked /\ (initialized' => roots' = Walked)
  BY DEF Renaming
<1>8. CASE initialized
  <2>1. roots' = roots
    BY <1>7, <1>8 DEF Renaming
  <2>2. SameEdits
    BY <1>8, <2>1, ViewStays DEF SameEdits
  <2> QED BY <1>5, <1>6, <1>7, <2>2, RenamingKept
<1>9. CASE ~initialized
  <2>1. \A j \in DOMAIN inbox' : ~Editing(inbox'[j])
    BY <1>9 DEF Renaming
  <2> QED BY <1>5, <1>6, <1>7, <2>1 DEF Renaming
<1> QED BY <1>8, <1>9

LEMMA ServedReply ==
    ASSUME NEW id, NEW result, ~(id = "rename"), result # "edit",
           inbox' = Append(inbox, Answer(id, result, <<>>))
    PROVE  /\ Lone(outbox', inbox, waiting) => Lone(outbox', inbox', waiting)
           /\ Lone(outbox', inbox, waiting) =>
                \A j \in DOMAIN inbox' : Editing(inbox'[j]) => \E i \in DOMAIN inbox : inbox'[j] = inbox[i]
<1> SUFFICES ASSUME Lone(outbox', inbox, waiting)
             PROVE  /\ Lone(outbox', inbox', waiting)
                    /\ \A j \in DOMAIN inbox' :
                          Editing(inbox'[j]) => \E i \in DOMAIN inbox : inbox'[j] = inbox[i]
  OBVIOUS
<1>1. PICK m : m = Answer(id, result, <<>>)
  OBVIOUS
<1>2. ~Promises(m) /\ ~Editing(m)
  BY <1>1 DEF Answer, Promises, Editing
<1>3. PICK out, in, in2, wait : out = outbox' /\ in = inbox /\ in2 = inbox' /\ wait = waiting
  OBVIOUS
<1>4. Lone(out, in, wait) /\ in2 = Append(in, m)
  BY <1>1, <1>3
<1>5. /\ Lone(out, in2, wait)
      /\ Added(in2, in, m)
  BY <1>2, <1>4, LoneReplies
<1>6. \A j \in DOMAIN in2 : Editing(in2[j]) => \E i \in DOMAIN in : in2[j] = in[i]
  BY <1>2, <1>5 DEF Added
<1> QED BY <1>3, <1>5, <1>6

LEMMA ServedPublish ==
    ASSUME NEW docs, NEW before, PublishAll(docs, before), IsSeq(before),
           \A j \in DOMAIN before : before[j].method = "publish"
    PROVE  /\ Lone(outbox', inbox, waiting) => Lone(outbox', inbox', waiting)
           /\ Lone(outbox', inbox, waiting) =>
                \A j \in DOMAIN inbox' : Editing(inbox'[j]) => \E i \in DOMAIN inbox : inbox'[j] = inbox[i]
<1> SUFFICES ASSUME Lone(outbox', inbox, waiting)
             PROVE  /\ Lone(outbox', inbox', waiting)
                    /\ \A j \in DOMAIN inbox' :
                          Editing(inbox'[j]) => \E i \in DOMAIN inbox : inbox'[j] = inbox[i]
  OBVIOUS
<1>1. PICK order \in Listings(Opened(docs)) :
          inbox' = inbox \o before \o [i \in DOMAIN order |->
                                         Publish(order[i], seen'[order[i]])]
  BY DEF PublishAll
<1>2. inbox' = Join(Join(inbox, before), Published(order, seen'))
  BY <1>1 DEF Join, Published
<1>3. PICK said : said = Published(order, seen')
  OBVIOUS
<1>4. IsSeq(said) /\ \A j \in DOMAIN said : said[j].method = "publish"
  BY <1>3, AllPublished
<1>5. PICK out, in, in2, wait : out = outbox' /\ in = inbox /\ in2 = inbox' /\ wait = waiting
  OBVIOUS
<1>6. PICK mid : mid = Join(in, before)
  OBVIOUS
<1>7. Lone(out, in, wait) /\ in2 = Join(mid, said)
  BY <1>2, <1>3, <1>5, <1>6
<1>8. /\ Lone(out, mid, wait)
      /\ \A j \in DOMAIN mid : Editing(mid[j]) => j \in DOMAIN in /\ mid[j] = in[j]
  BY <1>6, <1>7, LonePublishes
<1>9. /\ Lone(out, in2, wait)
      /\ \A j \in DOMAIN in2 : Editing(in2[j]) => j \in DOMAIN mid /\ in2[j] = mid[j]
  BY <1>4, <1>7, <1>8, LonePublishes
<1>10. \A j \in DOMAIN in2 : Editing(in2[j]) => \E i \in DOMAIN in : in2[j] = in[i]
  BY <1>8, <1>9
<1> QED BY <1>5, <1>9, <1>10

\* The server hears of a rename when it has heard of every text.
LEMMA RenamingHandled == Following /\ Renaming /\ HandleRename => Renaming'
<1> SUFFICES ASSUME Following, Renaming, HandleRename PROVE Renaming'
  OBVIOUS
<1>1. PICK out, out2, in, wait :
          out = outbox /\ out2 = outbox' /\ in = inbox /\ wait = waiting
  OBVIOUS
<1>2. Lone(out, in, wait) /\ out2 = Tail(out) /\ out # <<>>
  BY <1>1 DEF Renaming, HandleRename, Arrived, Taken
<1>3. /\ Lone(out2, in, wait) /\ (Behind(out) => Behind(out2))
      /\ 1 \in DOMAIN out /\ Head(out) = out[1]
      /\ Wishes(out[1]) => NoWish(out2) /\ NoPromise(in)
  BY <1>2, LoneTaken
<1>4. Wishes(out[1])
  BY <1>1, <1>3 DEF HandleRename, Arrived, Wishes
<1>5. NoWish(out2) /\ NoPromise(in) /\ "rename" \in wait /\ out[1].def \in Asked
  BY <1>2, <1>3, <1>4 DEF Lone
<1>6. PICK u, def : u = Head(outbox).uri /\ def = Head(outbox).def
  OBVIOUS
<1>7. def \in Asked
  BY <1>1, <1>3, <1>5, <1>6
<1>8. PICK refused : refused \in BOOLEAN /\
          (refused <=> Gated("rename") \/ u \notin Opened(documents) \/ def \notin Defs(documents[u]))
  OBVIOUS
<1>9. PICK texts : texts = Edits(View(documents, disk, roots), u, def)
  OBVIOUS
<1>10. PICK m : m = IF refused THEN Answer("rename", "refused", <<>>)
                    ELSE Answer("rename", "edit", texts)
  OBVIOUS
<1>11. inbox' = Append(inbox, m)
  BY <1>6, <1>8, <1>9, <1>10 DEF HandleRename, Reply
<1>12. /\ Promises(m) /\ (Editing(m) => ~refused /\ m.texts = texts)
  BY <1>10 DEF Answer, Promises, Editing
<1>13. PICK in2 : in2 = inbox'
  OBVIOUS
<1>14. in2 = Append(in, m)
  BY <1>1, <1>11, <1>13
<1>15. /\ Lone(out2, in2, wait)
       /\ Added(in2, in, m)
  BY <1>3, <1>5, <1>12, <1>14, LoneReplies
<1>16. UNCHANGED <<disk, editorVars, serverVars, countVars>>
  BY DEF HandleRename
<1>17. Lone(outbox, inbox, waiting)'
  BY <1>1, <1>13, <1>15, <1>16 DEF editorVars
<1>18. \A j \in DOMAIN in2 : Editing(in2[j]) => in2[j] = m
  BY <1>5, <1>15 DEF NoPromise, Lone, Added
<1>19. ~refused => initialized
  BY <1>8 DEF Gated
<1>20. ASSUME ~disturbed PROVE documents = buffer
  <2>1. \A j \in DOMAIN out : j \in Nat /\ j >= 1
    <3>1. DOMAIN out = 1 .. Len(out) /\ Len(out) \in Nat
      BY <1>2 DEF Lone, IsSeq
    <3> QED BY <3>1
  <2>2. \A j \in DOMAIN out : out[j].method \notin Notifications
    <3> SUFFICES ASSUME NEW j \in DOMAIN out, out[j].method \in Notifications PROVE FALSE
      OBVIOUS
    <3>1. j < 1
      BY <1>1, <1>3, <1>4, <1>20 DEF Renaming, Behind
    <3> QED BY <2>1, <3>1
  <2>3. \A v \in Uris : Unheard(v) = {}
    BY <1>1, <2>2 DEF Unheard
  <2>4. \A v \in Uris : documents[v] = buffer[v]
    BY <2>3 DEF Following, DocumentsFollow
  <2> QED BY <2>4 DEF Following
<1>21. ASSUME ~disturbed, ~refused PROVE EditOf(buffer, EditorView, texts)
  <2>1. PICK docs : docs = buffer
    OBVIOUS
  <2>2. docs = documents
    BY <1>20, <1>21, <2>1
  <2>3. u \in Opened(docs) /\ def \in Defs(docs[u])
    BY <1>8, <1>21, <2>2
  <2>4. texts = Edits(View(docs, disk, roots), u, def)
    BY <1>9, <2>2
  <2>5. EditorView = View(docs, disk, roots)
    BY <2>1 DEF EditorView
  <2> QED BY <1>7, <2>1, <2>3, <2>4, <2>5 DEF EditOf
<1>22. ASSUME NEW j \in DOMAIN inbox', Editing(inbox'[j])
       PROVE  /\ initialized'
              /\ ~disturbed' => EditOf(buffer, EditorView, inbox[j].texts)'
  <2>1. inbox'[j] = m /\ ~refused /\ m.texts = texts
    BY <1>12, <1>13, <1>18, <1>22
  <2>2. initialized'
    BY <1>16, <1>19, <2>1 DEF serverVars
  <2>3. ASSUME ~disturbed' PROVE EditOf(buffer, EditorView, inbox[j].texts)'
    <3>1. PICK docs, view : docs = buffer /\ view = EditorView
      OBVIOUS
    <3>2. EditorView' = EditorView
      BY <1>16, ViewStays DEF editorVars, serverVars
    <3>3. docs = buffer' /\ view = EditorView' /\ texts = (inbox[j].texts)'
      BY <1>16, <2>1, <3>1, <3>2 DEF editorVars
    <3>4. EditOf(docs, view, texts)
      BY <1>16, <1>21, <2>1, <2>3, <3>1 DEF countVars
    <3>5. EditOf(docs, view, texts)' <=> EditOf(docs, view, texts)
      BY DEF EditOf, Opened
    <3> QED BY <3>3, <3>4
  <2> QED BY <2>2, <2>3
<1>23. ~disturbed' => Behind(outbox')
  BY <1>1, <1>3, <1>16 DEF Renaming, countVars
<1>24. roots' \subseteq Walked /\ (initialized' => roots' = Walked)
  BY <1>16 DEF Renaming, serverVars
<1> QED BY <1>17, <1>22, <1>23, <1>24 DEF Renaming

LEMMA RenamingServer == Following /\ Renaming /\ Server => Renaming'
<1> SUFFICES ASSUME Following, Renaming, Server PROVE Renaming'
  OBVIOUS
<1>a. outbox # <<>> /\ outbox' = Tail(outbox)
  BY DEF Server, HandleInitialize, HandleShutdown, HandleRename, HandleText, HandleClose,
         HandleExit, Arrived, Taken
<1>b. Lone(outbox', inbox, waiting)
  <2>1. PICK out, out2, in, wait :
            out = outbox /\ out2 = outbox' /\ in = inbox /\ wait = waiting
    OBVIOUS
  <2>2. Lone(out, in, wait) /\ out2 = Tail(out) /\ out # <<>>
    BY <1>a, <2>1 DEF Renaming
  <2>3. Lone(out2, in, wait)
    BY <2>2, LoneTaken
  <2> QED BY <2>1, <2>3
<1>1. CASE HandleInitialize
  <2>1. PICK result : result # "edit" /\ inbox' = Append(inbox, Answer("initialize", result, <<>>))
    BY <1>1 DEF HandleInitialize, Reply
  <2>2. /\ Lone(outbox', inbox, waiting) => Lone(outbox', inbox', waiting)
        /\ \A j \in DOMAIN inbox' : Editing(inbox'[j]) => \E i \in DOMAIN inbox : inbox'[j] = inbox[i]
    BY <1>b, <2>1, ServedReply
  <2>3. /\ roots' = roots \/ roots' = Walked
        /\ initialized => initialized'
        /\ initialized' => initialized \/ roots' = Walked
    BY <1>1 DEF HandleInitialize
  <2>4. waiting' = waiting /\ buffer' = buffer /\ disk' = disk /\ disturbed' = disturbed
    BY <1>1 DEF HandleInitialize, editorVars, countVars
  <2> QED BY <1>a, <2>2, <2>3, <2>4, RenamingServed
<1>2. CASE HandleShutdown
  <2>1. PICK result : result # "edit" /\ inbox' = Append(inbox, Answer("shutdown", result, <<>>))
    BY <1>2 DEF HandleShutdown, Reply
  <2>2. /\ Lone(outbox', inbox, waiting) => Lone(outbox', inbox', waiting)
        /\ \A j \in DOMAIN inbox' : Editing(inbox'[j]) => \E i \in DOMAIN inbox : inbox'[j] = inbox[i]
    BY <1>b, <2>1, ServedReply
  <2>3. /\ roots' = roots /\ initialized' = initialized
        /\ waiting' = waiting /\ buffer' = buffer /\ disk' = disk /\ disturbed' = disturbed
    BY <1>2 DEF HandleShutdown, editorVars, countVars
  <2> QED BY <1>a, <2>2, <2>3, RenamingServed
<1>3. CASE HandleRename
  BY <1>3, RenamingHandled
<1>4. CASE HandleText
  <2>1. IsSeq(<<>>) /\ DOMAIN <<>> = {}
    BY DEF IsSeq
  <2>2. /\ Lone(outbox', inbox, waiting) => Lone(outbox', inbox', waiting)
        /\ \A j \in DOMAIN inbox' : Editing(inbox'[j]) => \E i \in DOMAIN inbox : inbox'[j] = inbox[i]
    BY <1>b, <1>4, <2>1, ServedPublish DEF HandleText
  <2>3. /\ roots' = roots /\ initialized' = initialized
        /\ waiting' = waiting /\ buffer' = buffer /\ disk' = disk /\ disturbed' = disturbed
    BY <1>4 DEF HandleText, editorVars, countVars
  <2> QED BY <1>a, <2>2, <2>3, RenamingServed
<1>5. CASE HandleClose
  <2> DEFINE cleared == Publish(Head(outbox).uri, {})
  <2>1. cleared.method = "publish"
    BY DEF Publish
  <2>2. PublishAll(documents', <<cleared>>)
    BY <1>5 DEF HandleClose
  <2> HIDE DEF cleared
  <2>3. /\ Lone(outbox', inbox, waiting) => Lone(outbox', inbox', waiting)
        /\ \A j \in DOMAIN inbox' : Editing(inbox'[j]) => \E i \in DOMAIN inbox : inbox'[j] = inbox[i]
    BY <1>b, <2>1, <2>2, ClearedOnce, ServedPublish
  <2>4. /\ roots' = roots /\ initialized' = initialized
        /\ waiting' = waiting /\ buffer' = buffer /\ disk' = disk /\ disturbed' = disturbed
    BY <1>5 DEF HandleClose, editorVars, countVars
  <2> QED BY <1>a, <2>3, <2>4, RenamingServed
<1>6. CASE HandleExit
  <2>1. /\ roots' = roots /\ initialized' = initialized /\ inbox' = inbox
        /\ waiting' = waiting /\ buffer' = buffer /\ disk' = disk /\ disturbed' = disturbed
    BY <1>6 DEF HandleExit, editorVars, countVars
  <2>2. /\ Lone(outbox', inbox, waiting) => Lone(outbox', inbox', waiting)
        /\ \A j \in DOMAIN inbox' : Editing(inbox'[j]) => \E i \in DOMAIN inbox : inbox'[j] = inbox[i]
    BY <2>1
  <2> QED BY <1>a, <2>1, <2>2, RenamingServed
<1> QED BY <1>1, <1>2, <1>3, <1>4, <1>5, <1>6 DEF Server

LEMMA RenamingHolds == Spec => [](Following /\ Renaming)
<1>1. Init => Following /\ Renaming
  <2> SUFFICES ASSUME Init PROVE Following /\ Renaming
    OBVIOUS
  <2>1. IsSeq(<<>>) /\ DOMAIN <<>> = {}
    BY DEF IsSeq
  <2>2. Following
    BY <2>1 DEF Init, Following, DocumentsFollow, Unheard
  <2>3. Lone(<<>>, <<>>, {})
    BY <2>1 DEF Lone
  <2>4. Renaming
    BY <2>1, <2>3 DEF Init, Renaming, Behind
  <2> QED BY <2>2, <2>4
<1>2. Following /\ Renaming /\ [Next]_vars => (Following /\ Renaming)'
  <2> SUFFICES ASSUME Following, Renaming, [Next]_vars PROVE Following' /\ Renaming'
    OBVIOUS
  <2>1. CASE Editor
    BY <2>1, FollowsEditor, RenamingEditor
  <2>2. CASE Server
    BY <2>2, FollowsServer, RenamingServer
  <2>3. ASSUME outbox' = outbox, inbox' = inbox, waiting' = waiting, roots' = roots,
               initialized' = initialized, buffer' = buffer, documents' = documents,
               disturbed' \/ (disturbed' = disturbed /\ disk' = disk)
        PROVE  Following' /\ Renaming'
    <3>1. Following'
      BY <2>3, FollowsQuiet
    <3>2. Lone(outbox, inbox, waiting)'
      <4>1. PICK out, in, wait : out = outbox /\ in = inbox /\ wait = waiting
        OBVIOUS
      <4>2. out = outbox' /\ in = inbox' /\ wait = waiting'
        BY <2>3, <4>1
      <4> QED BY <4>1, <4>2 DEF Renaming
    <3>3. SameEdits
      BY <2>3, ViewStays DEF SameEdits
    <3>4. ~disturbed' => Behind(outbox')
      BY <2>3 DEF Renaming
    <3> QED BY <2>3, <3>1, <3>2, <3>3, <3>4, RenamingKept DEF Renaming
  <2>4. ASSUME NEW f \in Files, WriteFile(f) PROVE Following' /\ Renaming'
    BY <2>3, <2>4 DEF WriteFile, editorVars, serverVars
  <2>5. CASE UNCHANGED vars
    BY <2>3, <2>5 DEF vars, editorVars, serverVars, countVars
  <2> QED BY <2>1, <2>2, <2>4, <2>5 DEF Next
<1> QED BY <1>1, <1>2, PTL DEF Spec

(***************************************************************************)
(* What the workspace is once the edits are in place: the same texts with  *)
(* the name replaced, some of them in buffers and some in files.           *)
(***************************************************************************)
Unopened(docs, files, walk) ==
    {w \in walk : /\ files[FileOf[w]] # Absent
                  /\ \A v \in Opened(docs) : FileOf[v] # FileOf[w]}

Views(view, docs, files, walk) ==
    /\ DOMAIN view = Opened(docs) \cup Unopened(docs, files, walk)
    /\ \A w \in Opened(docs) : view[w] = docs[w]
    /\ \A w \in Unopened(docs, files, walk) :
          w \notin Opened(docs) /\ view[w] = files[FileOf[w]]
    /\ view = [w \in DOMAIN view |-> view[w]]

LEMMA ViewIs ==
    ASSUME NEW docs, NEW files, NEW walk, NEW view, view = View(docs, files, walk)
    PROVE  Views(view, docs, files, walk)
<1>1. view = [w \in Opened(docs) \cup Unopened(docs, files, walk) |->
          IF w \in Opened(docs) THEN docs[w] ELSE files[FileOf[w]]]
  BY DEF View, Unopened
<1>2. \A w \in Unopened(docs, files, walk) : w \notin Opened(docs)
  BY DEF Unopened
<1> QED BY <1>1, <1>2 DEF Views

\* What an edit leaves in the buffers, and in the files of what is not open.
Shown(docs2, docs, texts, open) ==
    \A u \in Uris : docs2[u] = IF u \in open THEN texts[u] ELSE docs[u]
PutBack(files2, files, texts, open) ==
    \A f \in Files :
        files2[f] = IF \E u \in DOMAIN texts \ open : FileOf[u] = f
                    THEN texts[CHOOSE u \in DOMAIN texts \ open : FileOf[u] = f]
                    ELSE files[f]

LEMMA ViewEdited ==
    ASSUME NEW docs, NEW files, NEW walk \in SUBSET Walked, NEW texts,
           ~IsText(Closed), ~IsText(Absent), \A v \in DOMAIN texts : IsText(texts[v]),
           NEW view, view = View(docs, files, walk), DOMAIN texts \subseteq DOMAIN view,
           NEW open, open = DOMAIN texts \cap Opened(docs),
           NEW docs2, Shown(docs2, docs, texts, open),
           NEW files2, PutBack(files2, files, texts, open)
    PROVE  Opened(docs2) = Opened(docs) /\ View(docs2, files2, walk) = Edited(view, texts)
<1>1. Opened(docs2) = Opened(docs)
  BY DEF Opened, Shown
<1>2. walk \subseteq Uris /\ \A w \in Uris : FileOf[w] \in Files
  BY UrisAssumption
<1>0. Views(view, docs, files, walk)
  BY ViewIs
<1>3. DOMAIN texts \ open \subseteq Unopened(docs, files, walk)
  BY <1>0 DEF Views
<1>4. ASSUME NEW w \in walk, \A v \in Opened(docs) : FileOf[v] # FileOf[w]
      PROVE  files2[FileOf[w]] = IF w \in DOMAIN texts THEN texts[w] ELSE files[FileOf[w]]
  <2>1. PICK f : f = FileOf[w]
    OBVIOUS
  <2>2. f \in Files
    BY <1>2, <2>1
  <2>3. \A u \in DOMAIN texts \ open : FileOf[u] = f => u = w
    BY <1>3, <2>1, WalkAssumption DEF Unopened
  <2>4. w \notin Opened(docs)
    BY <1>4
  <2>5. CASE w \in DOMAIN texts
    <3>1. w \in DOMAIN texts \ open
      BY <2>4, <2>5
    <3>2. PICK c : c = CHOOSE u \in DOMAIN texts \ open : FileOf[u] = f
      OBVIOUS
    <3>3. c \in DOMAIN texts \ open /\ FileOf[c] = f
      BY <2>1, <3>1, <3>2
    <3>4. c = w
      BY <2>3, <3>3
    <3>5. files2[f] = texts[c]
      BY <2>1, <2>2, <3>1, <3>2 DEF PutBack
    <3> QED BY <2>1, <2>5, <3>4, <3>5
  <2>6. CASE w \notin DOMAIN texts
    <3>1. ~ \E u \in DOMAIN texts \ open : FileOf[u] = f
      BY <2>3, <2>6
    <3>2. files2[f] = files[f]
      BY <2>2, <3>1 DEF PutBack
    <3> QED BY <2>1, <2>6, <3>2
  <2> QED BY <2>5, <2>6
<1>5. Unopened(docs2, files2, walk) = Unopened(docs, files, walk)
  <2>1. ASSUME NEW w \in walk, \A v \in Opened(docs) : FileOf[v] # FileOf[w]
        PROVE  files2[FileOf[w]] # Absent <=> files[FileOf[w]] # Absent
    <3>1. CASE w \in DOMAIN texts
      <4>1. files2[FileOf[w]] # Absent
        BY <1>4, <2>1, <3>1
      <4>2. w \in Unopened(docs, files, walk)
        BY <1>3, <2>1, <3>1
      <4> QED BY <4>1, <4>2 DEF Unopened
    <3>2. CASE w \notin DOMAIN texts
      BY <1>4, <2>1, <3>2
    <3> QED BY <3>1, <3>2
  <2> QED BY <1>1, <2>1 DEF Unopened
<1>6. PICK view2 : view2 = View(docs2, files2, walk)
  OBVIOUS
<1>7. /\ DOMAIN view = Opened(docs) \cup Unopened(docs, files, walk)
      /\ \A w \in Opened(docs) : view[w] = docs[w]
      /\ \A w \in Unopened(docs, files, walk) :
            w \notin Opened(docs) /\ view[w] = files[FileOf[w]]
  BY <1>0 DEF Views
<1>8a. Views(view2, docs2, files2, walk)
  BY <1>6, ViewIs
<1>8. /\ DOMAIN view2 = DOMAIN view
      /\ \A w \in Opened(docs) : view2[w] = docs2[w]
      /\ \A w \in Unopened(docs, files, walk) : view2[w] = files2[FileOf[w]]
      /\ view2 = [w \in DOMAIN view2 |-> view2[w]]
  BY <1>1, <1>5, <1>7, <1>8a DEF Views
<1>9. \A w \in DOMAIN view : view2[w] = IF w \in DOMAIN texts THEN texts[w] ELSE view[w]
  <2>1. ASSUME NEW w \in Opened(docs)
        PROVE  view2[w] = IF w \in DOMAIN texts THEN texts[w] ELSE view[w]
    <3>1. w \in Uris
      BY DEF Opened
    <3> QED BY <1>7, <1>8, <3>1 DEF Shown
  <2>2. ASSUME NEW w \in Unopened(docs, files, walk)
        PROVE  view2[w] = IF w \in DOMAIN texts THEN texts[w] ELSE view[w]
    <3>1. w \in walk /\ \A v \in Opened(docs) : FileOf[v] # FileOf[w]
      BY DEF Unopened
    <3> QED BY <1>4, <1>7, <1>8, <3>1
  <2> QED BY <1>7, <2>1, <2>2
<1>10. view2 = Edited(view, texts)
  BY <1>8, <1>9 DEF Edited
<1> QED BY <1>1, <1>6, <1>10

\* The marks of what is not open and of what is not there are no texts, and a
\* person asks for names of their own.
Distinct == ~IsText(Closed) /\ ~IsText(Absent)
OwnNamesOnly == \A def \in Asked : Theirs(def)

LEMMA ApplyingIsClean ==
    ASSUME Distinct, OwnNamesOnly, Following, Renaming, ApplyRename,
           \A v \in DOMAIN EditorView : Plain(EditorView[v]),
           Clean(EditorView, Order(buffer))
    PROVE  Clean(EditorView', Order(buffer'))
<1>1. PICK docs, files, walk : docs = buffer /\ files = disk /\ walk = roots
  OBVIOUS
<1>2. PICK view : view = View(docs, files, walk)
  OBVIOUS
<1>3. view = EditorView
  BY <1>1, <1>2 DEF EditorView
<1>4. PICK texts : texts = Head(inbox).texts
  OBVIOUS
<1>5. \E u \in Opened(docs) : \E def \in Defs(docs[u]) \cap Asked : texts = Edits(view, u, def)
  <2>1. PICK in : in = inbox
    OBVIOUS
  <2>2. Lone(outbox, in, waiting) /\ in # <<>>
    BY <2>1 DEF Renaming, ApplyRename
  <2>3. 1 \in DOMAIN in /\ Head(in) = in[1]
    <3>1. IsSeq(in)
      BY <2>2 DEF Lone
    <3>2. PICK rest : rest = Tail(in)
      OBVIOUS
    <3> QED BY <2>2, <3>1, <3>2, ShrunkBy
  <2>4. Editing(in[1]) /\ ~disturbed
    BY <2>1, <2>3 DEF ApplyRename, Editing
  <2>5. EditOf(buffer, EditorView, inbox[1].texts)
    BY <2>1, <2>3, <2>4 DEF Renaming
  <2>6. texts = inbox[1].texts
    BY <1>4, <2>1, <2>3
  <2> QED BY <1>1, <1>3, <2>5, <2>6 DEF EditOf
<1>6a. PICK u \in Opened(docs) :
           \E def \in Defs(docs[u]) \cap Asked : texts = Edits(view, u, def)
  BY <1>5
<1>6. PICK def \in Defs(docs[u]) \cap Asked : texts = Edits(view, u, def)
  BY <1>6a
<1>7. walk \in SUBSET Walked
  BY <1>1 DEF Renaming
<1>8. /\ u \in DOMAIN view /\ view[u] = docs[u] /\ DOMAIN view \subseteq Uris
      /\ IsFiniteSet(DOMAIN view)
  <2>1. DOMAIN view = Opened(docs) \cup Unopened(docs, files, walk) /\ view[u] = docs[u]
    <3>1. Views(view, docs, files, walk)
      BY <1>2, ViewIs
    <3> QED BY <3>1 DEF Views
  <2>2. Opened(docs) \subseteq Uris /\ Unopened(docs, files, walk) \subseteq Uris
    BY <1>7, UrisAssumption DEF Opened, Unopened
  <2> QED BY <2>1, <2>2, UrisAssumption, FS_Subset
<1>9. \A v \in DOMAIN view : Plain(view[v])
  BY <1>3
<1>10. PICK rank : rank = Order(docs)
  OBVIOUS
<1>11. \A v \in DOMAIN view : rank[v] \in Nat
  <2>1. Cardinality(Uris) \in Nat /\ \A v \in Uris : Rank[v] \in Nat
    BY UrisAssumption, FS_CardinalityType
  <2>2. \A v \in Uris : rank[v] = IF v \in Opened(docs) THEN Rank[v] ELSE Cardinality(Uris) + Rank[v]
    BY <1>10 DEF Order
  <2> QED BY <1>8, <2>1, <2>2
<1>12. Clean(view, rank)
  BY <1>1, <1>3, <1>10
<1>13. Theirs(def) /\ def \in Defs(view[u]) \cap Asked
  BY <1>6, <1>8 DEF OwnNamesOnly
<1>14. DOMAIN texts \subseteq DOMAIN view /\ Clean(Edited(view, texts), rank)
  BY <1>6, <1>8, <1>9, <1>11, <1>12, <1>13, RenameStaysClean
<1>15. \A v \in DOMAIN texts : IsText(texts[v])
  BY <1>6, <1>8, <1>9, EditsAreTexts DEF Plain
<1>16. PICK open : open = DOMAIN texts \cap Opened(docs)
  OBVIOUS
<1>17. PICK docs2 : docs2 = buffer'
  OBVIOUS
<1>18. PICK files2 : files2 = disk'
  OBVIOUS
<1>19. open = DOMAIN Head(inbox).texts \cap Opened(buffer)
  BY <1>1, <1>4, <1>16
<1>20. buffer' = [v \in Uris |-> IF v \in open THEN texts[v] ELSE buffer[v]]
  BY <1>4, <1>19 DEF ApplyRename
<1>21. disk' = [f \in Files |->
                  IF \E v \in DOMAIN texts \ open : FileOf[v] = f
                  THEN texts[CHOOSE v \in DOMAIN texts \ open : FileOf[v] = f]
                  ELSE disk[f]]
  BY <1>4, <1>19 DEF ApplyRename
<1>22. Shown(docs2, docs, texts, open)
  BY <1>1, <1>17, <1>20 DEF Shown
<1>23. PutBack(files2, files, texts, open)
  BY <1>1, <1>18, <1>21 DEF PutBack
<1>24. Opened(docs2) = Opened(docs) /\ View(docs2, files2, walk) = Edited(view, texts)
  <2>1. ~IsText(Closed) /\ ~IsText(Absent) /\ DOMAIN texts \subseteq DOMAIN view
    BY <1>14 DEF Distinct
  <2> QED BY <1>2, <1>7, <1>15, <1>16, <1>22, <1>23, <2>1, ViewEdited
<1>25. Order(docs2) = rank
  BY <1>10, <1>24 DEF Order
<1>26. walk = roots'
  BY <1>1 DEF ApplyRename, serverVars
<1>27. EditorView' = View(docs2, files2, walk)
  BY <1>17, <1>18, <1>26 DEF EditorView, View, Opened
<1>28. Order(buffer') = Order(docs2)
  BY <1>17
<1>29. PICK view2 : view2 = EditorView'
  OBVIOUS
<1>30. Clean(view2, rank)
  BY <1>14, <1>24, <1>27, <1>29
<1> QED BY <1>25, <1>28, <1>29, <1>30

(***************************************************************************)
(* A rename of an item of one's own to a name that no text the editor can  *)
(* see has in scope leaves a workspace without errors without errors,      *)
(* wherever its texts are kept, however the answer was delayed and whatever*)
(* was saved since (server.rs rename, occurrences).  Not said is anything  *)
(* of an item named as an effect or operation of the prelude, as an        *)
(* operation of its own text or on a `deprecated` line: occurrences finds  *)
(* another definition first, or the line is not edited.                    *)
(***************************************************************************)
THEOREM FreshNamesBreakNothing ==
    ASSUME Distinct, OwnNamesOnly
    PROVE  Spec => [][(/\ ApplyRename
                       /\ \A v \in DOMAIN EditorView : Plain(EditorView[v])
                       /\ Clean(EditorView, Order(buffer)))
                          => Clean(EditorView', Order(buffer'))]_vars
<1>1. Following /\ Renaming /\ [Next]_vars =>
          [(/\ ApplyRename
            /\ \A v \in DOMAIN EditorView : Plain(EditorView[v])
            /\ Clean(EditorView, Order(buffer)))
               => Clean(EditorView', Order(buffer'))]_vars
  BY ApplyingIsClean
<1> QED BY <1>1, RenamingHolds, PTL DEF Spec

(***************************************************************************)
(* The new name is new until a rename has been applied: what a person      *)
(* types, what is on disk before the session and what another program      *)
(* writes does not have it, and only a rename brings it in.                *)
(***************************************************************************)
PlainSet(docs, files) ==
    /\ \A u \in Opened(docs) : Plain(docs[u])
    /\ \A f \in Files : files[f] # Absent => Plain(files[f])

Unspent ==
    /\ renames \in Nat /\ ("rename" \in waiting => renames # 0)
    /\ disk = [f \in Files |-> disk[f]]
    /\ (renames = 0 \/ "rename" \in waiting) => PlainSet(buffer, disk)

\* The texts a person starts from do not have the new name, nor an effect
\* whose operation is named as an item of the same text, nor a `deprecated`
\* line that says a name asked for.
PlainTexts ==
    /\ \A f \in Files : \A t \in Texts[f] : Plain(t)
    /\ FirstDisk = [f \in Files |-> FirstDisk[f]]
    /\ \A f \in Files : FirstDisk[f] # Absent => Plain(FirstDisk[f])

LEMMA PlainShown ==
    ASSUME NEW docs, NEW files, PlainSet(docs, files), docs = [v \in Uris |-> docs[v]],
           NEW u \in Uris, NEW t, t = Closed \/ Plain(t),
           NEW next, next = [docs EXCEPT ![u] = t]
    PROVE  PlainSet(next, files)
BY DEF PlainSet, Opened

LEMMA PlainWritten ==
    ASSUME NEW docs, NEW files, PlainSet(docs, files), files = [g \in Files |-> files[g]],
           NEW f \in Files, NEW t, t = Absent \/ Plain(t),
           NEW next, next = [files EXCEPT ![f] = t]
    PROVE  PlainSet(docs, next)
BY DEF PlainSet

LEMMA UnspentKept ==
    ASSUME Unspent, renames' = renames, "rename" \in waiting' => "rename" \in waiting,
           disk' = [f \in Files |-> disk'[f]],
           (renames = 0 \/ "rename" \in waiting) /\ PlainSet(buffer, disk)
               => PlainSet(buffer', disk')
    PROVE  Unspent'
<1>1. PICK docs2, files2, wait2, count2 :
          docs2 = buffer' /\ files2 = disk' /\ wait2 = waiting' /\ count2 = renames'
  OBVIOUS
<1>2. /\ count2 \in Nat /\ ("rename" \in wait2 => count2 # 0)
      /\ files2 = [f \in Files |-> files2[f]]
      /\ (count2 = 0 \/ "rename" \in wait2) => PlainSet(docs2, files2)
  <2>1. PlainSet(buffer, disk) /\ (renames = 0 \/ "rename" \in waiting)
            => PlainSet(docs2, files2)
    BY <1>1 DEF PlainSet, Opened
  <2> QED BY <1>1, <2>1 DEF Unspent
<1>3. PlainSet(docs2, files2) => PlainSet(buffer', disk')
  BY <1>1
<1> QED BY <1>1, <1>2, <1>3 DEF Unspent

\* The oldest message the editor applies is the answer to its rename.
LEMMA AppliesItsPromise ==
    ASSUME Renaming, ApplyRename
    PROVE  "rename" \in waiting
<1>1. PICK in : in = inbox
  OBVIOUS
<1>2. Lone(outbox, in, waiting) /\ in # <<>>
  BY <1>1 DEF Renaming, ApplyRename
<1>3. 1 \in DOMAIN in /\ Head(in) = in[1]
  <2>1. IsSeq(in)
    BY <1>2 DEF Lone
  <2>2. PICK rest : rest = Tail(in)
    OBVIOUS
  <2> QED BY <1>2, <2>1, <2>2, ShrunkBy
<1> QED BY <1>1, <1>2, <1>3 DEF ApplyRename, Lone, Editing

LEMMA UnspentEditor ==
    ASSUME PlainTexts, MaxRenames <= 1
    PROVE  Following /\ Renaming /\ Unspent /\ Editor => Unspent'
<1> SUFFICES ASSUME Following, Renaming, Unspent, Editor PROVE Unspent'
  OBVIOUS
<1>a. disk = [f \in Files |-> disk[f]] /\ buffer = [u \in Uris |-> buffer[u]]
  BY DEF Following, Unspent
<1>b. \A u \in Uris : FileOf[u] \in Files
  BY UrisAssumption
<1>c. ASSUME buffer' = buffer, disk' = disk, renames' = renames,
             "rename" \in waiting' => "rename" \in waiting
      PROVE  Unspent'
  <2>1. PlainSet(buffer, disk) => PlainSet(buffer', disk')
    BY <1>c DEF PlainSet, Opened
  <2>2. disk' = [f \in Files |-> disk'[f]]
    BY <1>a, <1>c
  <2> QED BY <1>c, <2>1, <2>2, UnspentKept
<1>d. ASSUME disk' = disk, renames' = renames, waiting' = waiting,
             NEW u \in Uris, NEW t, buffer' = [buffer EXCEPT ![u] = t],
             PlainSet(buffer, disk) => t = Closed \/ Plain(t)
      PROVE  Unspent'
  <2>1. PICK docs, files, docs2 : docs = buffer /\ files = disk /\ docs2 = buffer'
    OBVIOUS
  <2>2. PlainSet(docs, files) => PlainSet(docs2, files)
    BY <1>a, <1>d, <2>1, PlainShown
  <2>3. PlainSet(buffer, disk) => PlainSet(buffer', disk')
    BY <1>d, <2>1, <2>2 DEF PlainSet, Opened
  <2>4. disk' = [f \in Files |-> disk'[f]]
    BY <1>a, <1>d
  <2> QED BY <1>d, <2>3, <2>4, UnspentKept
<1>1. CASE Initialize
  BY <1>1, <1>c DEF Initialize, countVars
<1>2. CASE Shutdown
  BY <1>2, <1>c DEF Shutdown, countVars
<1>3. CASE Exit
  BY <1>3, <1>c DEF Exit, countVars
<1>4. CASE Draw
  BY <1>4, <1>c DEF Draw, countVars
<1>5. CASE Answered
  BY <1>5, <1>c DEF Answered, countVars
<1>6. ASSUME NEW u \in Uris, Open(u) PROVE Unspent'
  <2>1. PICK t \in (IF disk[FileOf[u]] = Absent THEN Texts[FileOf[u]] ELSE {disk[FileOf[u]]}) :
            buffer' = [buffer EXCEPT ![u] = t]
    BY <1>6 DEF Open
  <2>2. PlainSet(buffer, disk) => Plain(t)
    BY <1>b, <2>1 DEF PlainSet, PlainTexts
  <2> QED BY <1>6, <1>d, <2>1, <2>2 DEF Open
<1>7. ASSUME NEW u \in Uris, Type(u) PROVE Unspent'
  <2>1. PICK t \in Texts[FileOf[u]] : buffer' = [buffer EXCEPT ![u] = t]
    BY <1>7 DEF Type
  <2>2. Plain(t)
    BY <1>b, <2>1 DEF PlainTexts
  <2> QED BY <1>7, <1>d, <2>1, <2>2 DEF Type
<1>8. ASSUME NEW u \in Uris, Save(u) PROVE Unspent'
  <2>1. PICK docs, files, files2 : docs = buffer /\ files = disk /\ files2 = disk'
    OBVIOUS
  <2>2. /\ u \in Opened(docs) /\ files2 = [files EXCEPT ![FileOf[u]] = docs[u]]
        /\ buffer' = buffer /\ renames' = renames /\ waiting' = waiting
    BY <1>8, <2>1 DEF Save, editorVars, countVars
  <2>3. PlainSet(docs, files) => Plain(docs[u])
    BY <2>2 DEF PlainSet
  <2>4. PlainSet(docs, files) => PlainSet(docs, files2)
    BY <1>a, <1>b, <2>1, <2>2, <2>3, PlainWritten
  <2>5. PlainSet(buffer, disk) => PlainSet(buffer', disk')
    BY <2>1, <2>2, <2>4 DEF PlainSet, Opened
  <2>6. disk' = [f \in Files |-> disk'[f]]
    BY <1>a, <2>1, <2>2
  <2> QED BY <2>2, <2>5, <2>6, UnspentKept
<1>9. ASSUME NEW u \in Uris, Close(u) PROVE Unspent'
  BY <1>9, <1>d DEF Close
<1>10. ASSUME NEW u \in Uris, NEW def \in Cursors(u) \cap Asked, AskRename(u, def)
       PROVE  Unspent'
  <2>1. /\ renames < MaxRenames /\ renames' = renames + 1
        /\ buffer' = buffer /\ disk' = disk
    BY <1>10 DEF AskRename
  <2>2. renames = 0 /\ renames' = 1
    <3>1. MaxRenames \in Nat /\ renames \in Nat
      BY BoundsAssumption DEF Unspent
    <3> QED BY <2>1, <3>1
  <2>3. PlainSet(buffer, disk)
    BY <2>2 DEF Unspent
  <2>4. PlainSet(buffer', disk')
    BY <2>1, <2>3 DEF PlainSet, Opened
  <2>5. disk' = [f \in Files |-> disk'[f]]
    BY <1>a, <2>1
  <2>6. 1 \in Nat /\ 1 # 0
    OBVIOUS
  <2> QED BY <2>2, <2>4, <2>5, <2>6 DEF Unspent
<1>11. CASE ApplyRename
  <2>4. "rename" \in waiting
    BY <1>11, AppliesItsPromise
  <2>5. renames \in Nat /\ renames # 0
    BY <2>4 DEF Unspent
  <2>6. renames' = renames /\ "rename" \notin waiting'
    BY <1>11 DEF ApplyRename, countVars
  <2>7. disk' = [f \in Files |-> disk'[f]]
    <3>1. PICK texts, open, files2 :
              texts = Head(inbox).texts /\ open = DOMAIN texts \cap Opened(buffer) /\ files2 = disk'
      OBVIOUS
    <3>2. files2 = [f \in Files |->
                        IF \E v \in DOMAIN texts \ open : FileOf[v] = f
                        THEN texts[CHOOSE v \in DOMAIN texts \ open : FileOf[v] = f]
                        ELSE disk[f]]
      BY <1>11, <3>1 DEF ApplyRename
    <3>3. files2 = [f \in Files |-> files2[f]]
      BY <3>2
    <3> QED BY <3>1, <3>3
  <2> QED BY <2>5, <2>6, <2>7 DEF Unspent
<1> QED BY <1>1, <1>2, <1>3, <1>4, <1>5, <1>6, <1>7, <1>8, <1>9, <1>10, <1>11 DEF Editor

(***************************************************************************)
(* RenameBreaksNothing, for every workspace whose texts do not have the    *)
(* new name: the first rename to it that the editor applies leaves a       *)
(* workspace without errors without errors (server.rs rename, occurrences),*)
(* the names asked for and the texts being as in FreshNamesBreakNothing.   *)
(* The one new name of a session is new once, whence MaxRenames <= 1;      *)
(* FreshNamesBreakNothing says the same of a rename at any time.           *)
(***************************************************************************)
THEOREM RenamesBreakNothing ==
    ASSUME Distinct, OwnNamesOnly, PlainTexts, MaxRenames <= 1
    PROVE  Spec => RenameBreaksNothing
<1>1. Init => Unspent
  <2> SUFFICES ASSUME Init PROVE Unspent
    OBVIOUS
  <2>1. disk = FirstDisk /\ waiting = {} /\ renames = 0 /\ \A u \in Uris : buffer[u] = Closed
    BY DEF Init
  <2>2. Opened(buffer) = {}
    BY <2>1 DEF Opened
  <2>3. PlainSet(buffer, disk)
    BY <2>1, <2>2 DEF PlainSet, PlainTexts
  <2> QED BY <2>1, <2>3 DEF Unspent, PlainTexts
<1>2. Following /\ Renaming /\ Unspent /\ [Next]_vars => Unspent'
  <2> SUFFICES ASSUME Following, Renaming, Unspent, [Next]_vars PROVE Unspent'
    OBVIOUS
  <2>a. ASSUME buffer' = buffer, disk' = disk, renames' = renames, waiting' = waiting
        PROVE  Unspent'
    <3>1. PlainSet(buffer, disk) => PlainSet(buffer', disk')
      BY <2>a DEF PlainSet, Opened
    <3>2. disk' = [f \in Files |-> disk'[f]]
      BY <2>a DEF Unspent
    <3> QED BY <2>a, <3>1, <3>2, UnspentKept
  <2>1. CASE Editor
    BY <2>1, UnspentEditor
  <2>2. CASE Server
    BY <2>2, <2>a DEF Server, HandleInitialize, HandleShutdown, HandleRename, HandleText,
                      HandleClose, HandleExit, editorVars, countVars
  <2>3. ASSUME NEW f \in Files, WriteFile(f) PROVE Unspent'
    <3>1. PICK t \in Texts[f] \cup {Absent} : disk' = [disk EXCEPT ![f] = t]
      BY <2>3 DEF WriteFile
    <3>2. t = Absent \/ Plain(t)
      BY <3>1 DEF PlainTexts
    <3>3. PICK docs, files, files2 : docs = buffer /\ files = disk /\ files2 = disk'
      OBVIOUS
    <3>4. /\ files = [g \in Files |-> files[g]] /\ files2 = [files EXCEPT ![f] = t]
          /\ buffer' = buffer /\ renames' = renames /\ waiting' = waiting
      BY <2>3, <3>1, <3>3 DEF WriteFile, editorVars, Unspent
    <3>5. PlainSet(docs, files) => PlainSet(docs, files2)
      BY <3>2, <3>4, PlainWritten
    <3>6. PlainSet(buffer, disk) => PlainSet(buffer', disk')
      BY <3>3, <3>4, <3>5 DEF PlainSet, Opened
    <3>7. disk' = [g \in Files |-> disk'[g]]
      BY <3>3, <3>4
    <3> QED BY <3>4, <3>6, <3>7, UnspentKept
  <2>4. CASE UNCHANGED vars
    BY <2>4, <2>a DEF vars, editorVars, countVars
  <2> QED BY <2>1, <2>2, <2>3, <2>4 DEF Next
<1>3. Following /\ Renaming /\ Unspent /\ [Next]_vars =>
          [(ApplyRename /\ Clean(EditorView, Order(buffer)))
               => Clean(EditorView', Order(buffer'))]_vars
  <2> SUFFICES ASSUME Following, Renaming, Unspent, ApplyRename,
                      Clean(EditorView, Order(buffer))
               PROVE  Clean(EditorView', Order(buffer'))
    OBVIOUS
  <2>1. "rename" \in waiting
    BY AppliesItsPromise
  <2>2. PlainSet(buffer, disk)
    BY <2>1 DEF Unspent
  <2>3. PICK docs, files, walk, view :
            docs = buffer /\ files = disk /\ walk = roots /\ view = View(docs, files, walk)
    OBVIOUS
  <2>4. view = EditorView
    BY <2>3 DEF EditorView
  <2>5. Views(view, docs, files, walk)
    BY <2>3, ViewIs
  <2>6. \A w \in walk : FileOf[w] \in Files
    BY <2>3, UrisAssumption DEF Renaming
  <2>7. \A v \in DOMAIN view : Plain(view[v])
    BY <2>2, <2>3, <2>5, <2>6 DEF PlainSet, Views, Unopened
  <2> QED BY <2>4, <2>7, ApplyingIsClean
<1> QED BY <1>1, <1>2, <1>3, RenamingHolds, PTL DEF Spec, RenameBreaksNothing

=============================================================================
