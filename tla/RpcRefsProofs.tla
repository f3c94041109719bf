---------------------------- MODULE RpcRefsProofs ----------------------------
(***************************************************************************)
(* Proofs about the reference counts of RpcConnection, for every bound:    *)
(*   - CountsConserved: the refcount of an export is the number of         *)
(*     references its peer holds or is about to hold or give back;         *)
(*   - HandedBackIsLive: a capability handed back is still exported;       *)
(*   - NoErrors: no handler ever rejects what the peer has sent, also when *)
(*     the peer has lost the connection meanwhile;                         *)
(*   - StaysConnected: vats that nobody disconnects, over a stream that    *)
(*     does not fail, stay connected.                                      *)
(*                                                                         *)
(* Four meters are kept apart: the export's count and the import's, the    *)
(* descriptors on their way (ComingTo), the Releases on their way back     *)
(* (GivenBack) and the Finishes on their way that will release results     *)
(* (FinishedOf).  The lemmas say what sending a message, handling one, and *)
(* changing a question or an answer does to each; the actions add them up. *)
(* That a reference passes from one meter to another exactly once when a   *)
(* call is dropped while its Return is on its way needs HeldOK, which      *)
(* relates the results of an answer to the question and the messages of    *)
(* both channels.                                                          *)
(*                                                                         *)
(* A message names an export only while its sender holds the import, and   *)
(* the Release that gives the import up goes behind it (NamedOK); with the *)
(* counts this makes every export that is named one that is there.         *)
(*                                                                         *)
(* When one end has gone its tables are empty, but the other still reads   *)
(* what is left in the channel, and can then no longer be compared with    *)
(* the sender's tables.  LeftOK says what makes the rest of the channel    *)
(* acceptable to its reader alone: each Return finds its question, each    *)
(* Call a free answer, each Finish its answer, and the exports named are   *)
(* covered by the references the reader still counts.  SilentInv joins it  *)
(* with the invariant of the connected vats.                               *)
(***************************************************************************)
EXTENDS RpcConnectionProofs

\* In what follows a vat hosts export e; qs are the questions of its peer, as
\* its own answers, out what the peer has sent and in what the host has sent.

\* The peer will import e from m.
Imports(m, qs, e) ==
    /\ m.t \in {"call", "return"}
    /\ m.cap = [kind |-> "senderHosted", id |-> e]
    /\ m.t = "return" => qs[m.q] # None /\ qs[m.q].ref
ComingTo(qs, in, e) == {i \in DOMAIN in : Imports(in[i], qs, e)}

\* m gives references to e back.
Gives(m, e) == m.t = "release" /\ m.id = e
GivenBack(out, e) ==
    UNION {{<<i, k>> : k \in 1 .. out[i].n} : i \in {i \in DOMAIN out : Gives(out[i], e)}}

\* m is the Finish of an answer whose results hold e, which it releases.
Settles(m, ans, e) ==
    /\ m.t = "finish" /\ m.release
    /\ ans[m.q] # None /\ ans[m.q].call = m.call /\ ans[m.q].exp = e
FinishedOf(ans, out, e) == {i \in DOMAIN out : Settles(out[i], ans, e)}

RefsOf(x) == IF x = None THEN 0 ELSE x.refcount
Held(im) == IF im = None THEN 0 ELSE im

Balance(x, im, qs, ans, out, in, e) ==
    RefsOf(x) = Held(im) + Cardinality(ComingTo(qs, in, e))
                + Cardinality(GivenBack(out, e)) + Cardinality(FinishedOf(ans, out, e))
Ledger(x, im, qs, ans, out, in, e) ==
    /\ IsFiniteSet(GivenBack(out, e))
    /\ Balance(x, im, qs, ans, out, in, e)

\* The results of a call: an answer that has not returned holds none; while
\* the question is held, its Return is on its way with just the capability
\* the answer holds; and a Finish sent before the Return has come releases.
HeldOK(qn, an, out, in, q) ==
    /\ an # None /\ Open(an) => an.exp = None
    /\ \A i \in 1 .. Len(in) : ReturnTo(in[i], q) =>
        /\ in[i].which # "results" => in[i].cap.kind # "senderHosted"
        /\ qn.ref /\ in[i].cap.kind = "senderHosted" =>
            an # None /\ an.call = in[i].call /\ an.exp = in[i].cap.id
    /\ qn # None /\ qn.ref /\ qn.awaiting /\ an # None /\ About(an, qn) /\ an.exp # None =>
        \E i \in 1 .. Len(in) : /\ ReturnTo(in[i], q)
                                /\ in[i].cap = [kind |-> "senderHosted", id |-> an.exp]
    /\ \A i \in 1 .. Len(out) : FinishOf(out[i], q) /\ About(out[i], qn) => out[i].release

\* What host and peer know of the exports xs of the host, which the peer
\* imports as ims.
Books(xs, ims, qs, ans, out, in) ==
    /\ \A q \in QuestionIds : HeldOK(qs[q], ans[q], out, in, q)
    /\ \A e \in ExportIds : Ledger(xs[e], ims[e], qs, ans, out, in, e)
BooksOf(v) ==
    Books(exports[v], imports[Peer(v)], questions[Peer(v)], answers[v],
          chan[Peer(v)], chan[v])

RefsKept == \A v \in Vats : BooksOf(v)
RefsInv == IdsInv /\ ExportInv /\ (BothConnected => RefsKept)

-----------------------------------------------------------------------------
(* Counting places in a channel *)

\* A set of places is finite.
LEMMA PlacesFinite ==
    ASSUME NEW n \in Nat, NEW S \in SUBSET (1 .. n)
    PROVE  IsFiniteSet(S) /\ Cardinality(S) \in Nat
<1>1. S \in SUBSET Nat /\ \A s \in S : s <= n
  OBVIOUS
<1>2. IsFiniteSet(S)
  BY <1>1, FS_BoundedSetOfNaturals
<1> QED
  BY <1>2, FS_CardinalityType

\* One element more, or one less.
LEMMA OneMore ==
    ASSUME NEW S, NEW T, NEW x, IsFiniteSet(S), x \notin S, x \in T,
           \A y : y \in T <=> y \in S \/ y = x
    PROVE  IsFiniteSet(T) /\ Cardinality(T) = Cardinality(S) + 1
<1>1. T = S \cup {x}
  OBVIOUS
<1>2. IsFiniteSet(S \cup {x}) /\ Cardinality(S \cup {x}) = Cardinality(S) + 1
  BY FS_AddElement
<1> QED
  BY <1>1, <1>2

\* The places of a longer channel that a shorter one has too, and its last.
LEMMA PlacesGrow ==
    ASSUME NEW n \in Nat, NEW S \in SUBSET (1 .. n), NEW T \in SUBSET (1 .. n + 1),
           \A i \in 1 .. n : i \in T <=> i \in S
    PROVE  /\ n + 1 \in T => Cardinality(T) = Cardinality(S) + 1
           /\ n + 1 \notin T => T = S
<1>1. n + 1 \notin S /\ \A i \in 1 .. n + 1 : i \in 1 .. n \/ i = n + 1
  OBVIOUS
<1>2. ASSUME n + 1 \in T PROVE Cardinality(T) = Cardinality(S) + 1
  <2>1. \A y : y \in T <=> y \in S \/ y = n + 1
    BY <1>1, <1>2
  <2>2. IsFiniteSet(S)
    BY PlacesFinite
  <2> QED
    BY <1>1, <1>2, <2>1, <2>2, OneMore
<1>3. ASSUME n + 1 \notin T PROVE T = S
  BY <1>1, <1>3
<1> QED
  BY <1>2, <1>3

\* Moving places by one keeps their number.
LEMMA PlacesShift ==
    ASSUME NEW n \in Nat, NEW S \in SUBSET (1 .. n + 1), NEW T \in SUBSET (1 .. n),
           1 \notin S, \A i \in 1 .. n : i \in T <=> i + 1 \in S
    PROVE  Cardinality(S) = Cardinality(T)
<1> DEFINE f == [i \in T |-> i + 1]
<1>1. f \in [T -> S]
  OBVIOUS
<1>2. \A a, b \in T : f[a] = f[b] => a = b
  OBVIOUS
<1>3. \A s \in S : \E t \in T : f[t] = s
  <2> SUFFICES ASSUME NEW s \in S PROVE \E t \in T : f[t] = s
    OBVIOUS
  <2>1. s - 1 \in 1 .. n /\ (s - 1) + 1 = s
    OBVIOUS
  <2>2. s - 1 \in T
    BY <2>1
  <2> QED
    BY <2>1, <2>2
<1>4. ExistsBijection(T, S)
  <2>1. f \in Bijection(T, S)
    BY <1>1, <1>2, <1>3 DEF Bijection, Injection, Surjection, IsInjective
  <2> QED
    BY <2>1 DEF ExistsBijection
<1>5. IsFiniteSet(T)
  BY PlacesFinite
<1> QED
  BY <1>4, <1>5, FS_Bijection

\* The first place is taken away, and the others move up.
LEMMA PlacesShrink ==
    ASSUME NEW n \in Nat, NEW S \in SUBSET (1 .. n + 1), NEW T \in SUBSET (1 .. n),
           \A i \in 1 .. n : i \in T <=> i + 1 \in S
    PROVE  /\ 1 \in S => Cardinality(S) = Cardinality(T) + 1
           /\ 1 \notin S => Cardinality(S) = Cardinality(T)
<1>1. ASSUME 1 \in S PROVE Cardinality(S) = Cardinality(T) + 1
  <2> DEFINE R == S \ {1}
  <2>1. R \in SUBSET (1 .. n + 1) /\ 1 \notin R /\ n + 1 \in Nat
    OBVIOUS
  <2>2. \A i \in 1 .. n : i \in T <=> i + 1 \in R
    OBVIOUS
  <2>3. \A y : y \in S <=> y \in R \/ y = 1
    BY <1>1
  <2> HIDE DEF R
  <2>4. Cardinality(R) = Cardinality(T)
    <3>1. \A U, V : U \in SUBSET (1 .. n + 1) /\ V \in SUBSET (1 .. n) /\ 1 \notin U
                    /\ (\A i \in 1 .. n : i \in V <=> i + 1 \in U)
                    => Cardinality(U) = Cardinality(V)
      BY PlacesShift
    <3> QED
      BY ONLY <2>1, <2>2, <3>1, T \in SUBSET (1 .. n)
  <2>5. IsFiniteSet(R)
    BY <2>1, PlacesFinite
  <2>6. Cardinality(S) = Cardinality(R) + 1
    BY <1>1, <2>1, <2>3, <2>5, OneMore
  <2> QED
    BY <2>4, <2>6
<1>2. ASSUME 1 \notin S PROVE Cardinality(S) = Cardinality(T)
  BY <1>2, PlacesShift
<1> QED
  BY <1>1, <1>2

-----------------------------------------------------------------------------
(* Descriptors on their way *)

\* The meter is a number.
LEMMA ComingNumber ==
    ASSUME NEW qs, NEW in \in Seq(Message), NEW e
    PROVE  /\ ComingTo(qs, in, e) \in SUBSET (1 .. Len(in)) /\ Len(in) \in Nat
           /\ Cardinality(ComingTo(qs, in, e)) \in Nat
           /\ \A i \in 1 .. Len(in) : i \in ComingTo(qs, in, e) <=> Imports(in[i], qs, e)
<1>1. /\ ComingTo(qs, in, e) \in SUBSET (1 .. Len(in)) /\ Len(in) \in Nat
      /\ \A i \in 1 .. Len(in) : i \in ComingTo(qs, in, e) <=> Imports(in[i], qs, e)
  BY DEF ComingTo
<1> QED
  BY <1>1, PlacesFinite

\* The host sends m.
LEMMA ComingSent ==
    ASSUME NEW qs, NEW in \in Seq(Message), NEW in2 \in Seq(Message), NEW m, NEW e,
           Longer(in, in2, m)
    PROVE  /\ Imports(m, qs, e) =>
                Cardinality(ComingTo(qs, in2, e)) = Cardinality(ComingTo(qs, in, e)) + 1
           /\ ~ Imports(m, qs, e) => ComingTo(qs, in2, e) = ComingTo(qs, in, e)
<1> DEFINE S == ComingTo(qs, in, e)
           T == ComingTo(qs, in2, e)
           n == Len(in)
<1>1. /\ n \in Nat /\ S \in SUBSET (1 .. n)
      /\ \A i \in 1 .. n : i \in S <=> Imports(in[i], qs, e)
  BY ComingNumber
<1>2. /\ T \in SUBSET (1 .. Len(in2))
      /\ \A i \in 1 .. Len(in2) : i \in T <=> Imports(in2[i], qs, e)
  BY ComingNumber
<1>3. /\ Len(in2) = n + 1 /\ in2[n + 1] = m /\ \A i \in 1 .. n : in2[i] = in[i]
  BY DEF Longer
<1> HIDE DEF S, T, n
<1>4. \A i \in 1 .. n : i \in T <=> i \in S
  BY <1>1, <1>2, <1>3
<1>5. n + 1 \in T <=> Imports(m, qs, e)
  BY <1>1, <1>2, <1>3
<1>6. T \in SUBSET (1 .. n + 1)
  BY <1>2, <1>3
<1>7. /\ n + 1 \in T => Cardinality(T) = Cardinality(S) + 1
      /\ n + 1 \notin T => T = S
  BY <1>1, <1>4, <1>6, PlacesGrow
<1> QED
  BY <1>5, <1>7 DEF S, T

\* The peer handles m.
LEMMA ComingTaken ==
    ASSUME NEW qs, NEW in \in Seq(Message), NEW in2 \in Seq(Message), NEW m, NEW e,
           Shorter(in, in2, m)
    PROVE  /\ Imports(m, qs, e) =>
                Cardinality(ComingTo(qs, in, e)) = Cardinality(ComingTo(qs, in2, e)) + 1
           /\ ~ Imports(m, qs, e) =>
                Cardinality(ComingTo(qs, in, e)) = Cardinality(ComingTo(qs, in2, e))
<1> DEFINE S == ComingTo(qs, in, e)
           T == ComingTo(qs, in2, e)
           n == Len(in2)
<1>1. /\ S \in SUBSET (1 .. Len(in))
      /\ \A i \in 1 .. Len(in) : i \in S <=> Imports(in[i], qs, e)
  BY ComingNumber
<1>2. /\ n \in Nat /\ T \in SUBSET (1 .. n)
      /\ \A i \in 1 .. n : i \in T <=> Imports(in2[i], qs, e)
  BY ComingNumber
<1>3. /\ Len(in) = n + 1 /\ in[1] = m /\ \A i \in 1 .. n : in2[i] = in[i + 1]
  BY DEF Shorter
<1> HIDE DEF S, T, n
<1>4. \A i \in 1 .. n : i \in T <=> i + 1 \in S
  BY <1>1, <1>2, <1>3
<1>5. 1 \in S <=> Imports(m, qs, e)
  BY <1>1, <1>2, <1>3
<1>6. S \in SUBSET (1 .. n + 1)
  BY <1>1, <1>3
<1>7. /\ 1 \in S => Cardinality(S) = Cardinality(T) + 1
      /\ 1 \notin S => Cardinality(S) = Cardinality(T)
  BY <1>2, <1>4, <1>6, PlacesShrink
<1> QED
  BY <1>5, <1>7 DEF S, T

\* The peer's questions change in nothing the messages are about.
LEMMA ComingSame ==
    ASSUME NEW qs, NEW qs2, NEW in \in Seq(Message), NEW e,
           \A i \in 1 .. Len(in) : Imports(in[i], qs2, e) <=> Imports(in[i], qs, e)
    PROVE  ComingTo(qs2, in, e) = ComingTo(qs, in, e)
  BY DEF ComingTo

-----------------------------------------------------------------------------
(* Finishes on their way back *)

\* The meter is a number.
LEMMA FinishedNumber ==
    ASSUME NEW ans, NEW out \in Seq(Message), NEW e
    PROVE  /\ FinishedOf(ans, out, e) \in SUBSET (1 .. Len(out)) /\ Len(out) \in Nat
           /\ Cardinality(FinishedOf(ans, out, e)) \in Nat
           /\ \A i \in 1 .. Len(out) : i \in FinishedOf(ans, out, e) <=> Settles(out[i], ans, e)
<1>1. /\ FinishedOf(ans, out, e) \in SUBSET (1 .. Len(out)) /\ Len(out) \in Nat
      /\ \A i \in 1 .. Len(out) : i \in FinishedOf(ans, out, e) <=> Settles(out[i], ans, e)
  BY DEF FinishedOf
<1> QED
  BY <1>1, PlacesFinite

\* The peer sends m.
LEMMA FinishedSent ==
    ASSUME NEW ans, NEW out \in Seq(Message), NEW out2 \in Seq(Message), NEW m, NEW e,
           Longer(out, out2, m)
    PROVE  /\ Settles(m, ans, e) =>
                Cardinality(FinishedOf(ans, out2, e)) = Cardinality(FinishedOf(ans, out, e)) + 1
           /\ ~ Settles(m, ans, e) => FinishedOf(ans, out2, e) = FinishedOf(ans, out, e)
<1> DEFINE S == FinishedOf(ans, out, e)
           T == FinishedOf(ans, out2, e)
           n == Len(out)
<1>1. /\ n \in Nat /\ S \in SUBSET (1 .. n)
      /\ \A i \in 1 .. n : i \in S <=> Settles(out[i], ans, e)
  BY FinishedNumber
<1>2. /\ T \in SUBSET (1 .. Len(out2))
      /\ \A i \in 1 .. Len(out2) : i \in T <=> Settles(out2[i], ans, e)
  BY FinishedNumber
<1>3. /\ Len(out2) = n + 1 /\ out2[n + 1] = m /\ \A i \in 1 .. n : out2[i] = out[i]
  BY DEF Longer
<1> HIDE DEF S, T, n
<1>4. \A i \in 1 .. n : i \in T <=> i \in S
  BY <1>1, <1>2, <1>3
<1>5. n + 1 \in T <=> Settles(m, ans, e)
  BY <1>1, <1>2, <1>3
<1>6. T \in SUBSET (1 .. n + 1)
  BY <1>2, <1>3
<1>7. /\ n + 1 \in T => Cardinality(T) = Cardinality(S) + 1
      /\ n + 1 \notin T => T = S
  BY <1>1, <1>4, <1>6, PlacesGrow
<1> QED
  BY <1>5, <1>7 DEF S, T

\* The host handles m.
LEMMA FinishedTaken ==
    ASSUME NEW ans, NEW out \in Seq(Message), NEW out2 \in Seq(Message), NEW m, NEW e,
           Shorter(out, out2, m)
    PROVE  /\ Settles(m, ans, e) =>
                Cardinality(FinishedOf(ans, out, e)) = Cardinality(FinishedOf(ans, out2, e)) + 1
           /\ ~ Settles(m, ans, e) =>
                Cardinality(FinishedOf(ans, out, e)) = Cardinality(FinishedOf(ans, out2, e))
<1> DEFINE S == FinishedOf(ans, out, e)
           T == FinishedOf(ans, out2, e)
           n == Len(out2)
<1>1. /\ S \in SUBSET (1 .. Len(out))
      /\ \A i \in 1 .. Len(out) : i \in S <=> Settles(out[i], ans, e)
  BY FinishedNumber
<1>2. /\ n \in Nat /\ T \in SUBSET (1 .. n)
      /\ \A i \in 1 .. n : i \in T <=> Settles(out2[i], ans, e)
  BY FinishedNumber
<1>3. /\ Len(out) = n + 1 /\ out[1] = m /\ \A i \in 1 .. n : out2[i] = out[i + 1]
  BY DEF Shorter
<1> HIDE DEF S, T, n
<1>4. \A i \in 1 .. n : i \in T <=> i + 1 \in S
  BY <1>1, <1>2, <1>3
<1>5. 1 \in S <=> Settles(m, ans, e)
  BY <1>1, <1>2, <1>3
<1>6. S \in SUBSET (1 .. n + 1)
  BY <1>1, <1>3
<1>7. /\ 1 \in S => Cardinality(S) = Cardinality(T) + 1
      /\ 1 \notin S => Cardinality(S) = Cardinality(T)
  BY <1>2, <1>4, <1>6, PlacesShrink
<1> QED
  BY <1>5, <1>7 DEF S, T

\* The host's answers change in nothing the messages are about.
LEMMA FinishedSame ==
    ASSUME NEW ans, NEW ans2, NEW out \in Seq(Message), NEW e,
           \A i \in 1 .. Len(out) : Settles(out[i], ans2, e) <=> Settles(out[i], ans, e)
    PROVE  FinishedOf(ans2, out, e) = FinishedOf(ans, out, e)
  BY DEF FinishedOf

-----------------------------------------------------------------------------
(* Releases on their way back *)

\* Where the references are.
LEMMA GivenPlaces ==
    ASSUME NEW out \in Seq(Message), NEW e
    PROVE  \A x : x \in GivenBack(out, e) <=>
                \E i \in 1 .. Len(out) : \E k \in 1 .. out[i].n :
                    Gives(out[i], e) /\ x = <<i, k>>
  BY DEF GivenBack

\* So many references are given by one message.
LEMMA GivenByOne ==
    ASSUME NEW i, NEW n \in Nat
    PROVE  IsFiniteSet({i} \X (1 .. n)) /\ Cardinality({i} \X (1 .. n)) = n
<1>1. IsFiniteSet(1 .. n) /\ Cardinality(1 .. n) = n
  <2>1. /\ IsFiniteSet(1 .. n)
        /\ Cardinality(1 .. n) = IF 1 > n THEN 0 ELSE n - 1 + 1
    BY 1 \in Int, n \in Int, FS_Interval, ZenonT(30)
  <2> QED
    BY <2>1
<1>2. IsFiniteSet({i}) /\ Cardinality({i}) = 1
  BY FS_Singleton
<1>3. IsFiniteSet({i} \X (1 .. n)) /\ Cardinality({i} \X (1 .. n)) = 1 * Cardinality(1 .. n)
  BY <1>1, <1>2, FS_Product
<1> QED
  BY <1>1, <1>3

\* Two disjoint sets add up.
LEMMA DisjointAdd ==
    ASSUME NEW S, NEW T, IsFiniteSet(S), IsFiniteSet(T), S \cap T = {}
    PROVE  /\ IsFiniteSet(S \cup T)
           /\ Cardinality(S \cup T) = Cardinality(S) + Cardinality(T)
<1>1. /\ IsFiniteSet(S \cup T)
      /\ Cardinality(S \cup T) = Cardinality(S) + Cardinality(T) - Cardinality(S \cap T)
  BY FS_Union
<1>2. /\ Cardinality({}) = 0 /\ Cardinality(S) \in Nat /\ Cardinality(T) \in Nat
  BY FS_EmptySet, FS_CardinalityType
<1>3. Cardinality(S \cap T) = 0
  BY <1>2
<1> QED
  BY <1>1, <1>2, <1>3

\* The peer sends m.
LEMMA GivenSent ==
    ASSUME NEW out \in Seq(Message), NEW out2 \in Seq(Message), NEW m \in Message,
           NEW e, Longer(out, out2, m), IsFiniteSet(GivenBack(out, e))
    PROVE  /\ IsFiniteSet(GivenBack(out2, e))
           /\ Gives(m, e) =>
                /\ m.n \in Nat
                /\ Cardinality(GivenBack(out2, e)) = Cardinality(GivenBack(out, e)) + m.n
           /\ ~ Gives(m, e) => GivenBack(out2, e) = GivenBack(out, e)
<1> DEFINE S == GivenBack(out, e)
           T == GivenBack(out2, e)
           n == Len(out)
<1>1. /\ n \in Nat /\ Len(out2) = n + 1 /\ out2[n + 1] = m
      /\ \A i \in 1 .. n : out2[i] = out[i]
  BY DEF Longer
<1>2. \A x : x \in S <=> \E i \in 1 .. n : \E k \in 1 .. out[i].n :
                            Gives(out[i], e) /\ x = <<i, k>>
  BY GivenPlaces
<1>3. \A x : x \in T <=> \E i \in 1 .. n + 1 : \E k \in 1 .. out2[i].n :
                            Gives(out2[i], e) /\ x = <<i, k>>
  <2>1. \A x : x \in T <=> \E i \in 1 .. Len(out2) : \E k \in 1 .. out2[i].n :
                            Gives(out2[i], e) /\ x = <<i, k>>
    BY GivenPlaces
  <2> HIDE DEF T
  <2> QED
    BY <1>1, <2>1
<1>4. \A i \in 1 .. n + 1 : i \in 1 .. n \/ i = n + 1
  BY <1>1
<1>5. n + 1 \in 1 .. n + 1 /\ n + 1 \notin 1 .. n /\ \A i \in 1 .. n : i \in 1 .. n + 1
  BY <1>1
<1> HIDE DEF S, T, n
<1>6. ASSUME ~ Gives(m, e) PROVE T = S
  <2>1. ASSUME NEW x \in T PROVE x \in S
    BY <1>1, <1>2, <1>3, <1>4, <1>6, <2>1
  <2>2. ASSUME NEW x \in S PROVE x \in T
    BY <1>1, <1>2, <1>3, <1>5, <2>2
  <2> QED
    BY <2>1, <2>2
<1>7. ASSUME Gives(m, e)
      PROVE  /\ m.n \in Nat /\ IsFiniteSet(T) /\ Cardinality(T) = Cardinality(S) + m.n
  <2>1. m.n \in Nat
    BY <1>7 DEF Gives, Message
  <2> DEFINE own == {n + 1} \X (1 .. m.n)
  <2>2. IsFiniteSet(own) /\ Cardinality(own) = m.n
    BY <2>1, GivenByOne
  <2>3. S \cap own = {}
    <3> SUFFICES ASSUME NEW x \in S, x \in own PROVE FALSE
      OBVIOUS
    <3>1. PICK i \in 1 .. n : \E k \in 1 .. out[i].n : x = <<i, k>>
      BY <1>2
    <3> QED
      BY <1>5, <3>1
  <2>4. T = S \cup own
    <3>1. ASSUME NEW x \in T PROVE x \in S \cup own
      <4>1. PICK i \in 1 .. n + 1 : \E k \in 1 .. out2[i].n : Gives(out2[i], e) /\ x = <<i, k>>
        BY <1>3, <3>1
      <4>2. CASE i \in 1 .. n
        BY <1>1, <1>2, <4>1, <4>2
      <4>3. CASE i = n + 1
        BY <1>1, <4>1, <4>3
      <4> QED
        BY <1>4, <4>2, <4>3
    <3>2. ASSUME NEW x \in S PROVE x \in T
      BY <1>1, <1>2, <1>3, <1>5, <3>2
    <3>3. ASSUME NEW x \in own PROVE x \in T
      <4>1. PICK k \in 1 .. m.n : x = <<n + 1, k>>
        BY <3>3
      <4> QED
        BY <1>1, <1>3, <1>5, <1>7, <4>1
    <3> QED
      BY <3>1, <3>2, <3>3
  <2> HIDE DEF own
  <2>5. IsFiniteSet(S)
    BY DEF S
  <2> QED
    BY <2>1, <2>2, <2>3, <2>4, <2>5, DisjointAdd
<1>8. IsFiniteSet(T)
  BY <1>6, <1>7 DEF S
<1> QED
  BY <1>6, <1>7, <1>8 DEF S, T

\* The host handles m.
LEMMA GivenTaken ==
    ASSUME NEW out \in Seq(Message), NEW out2 \in Seq(Message), NEW m \in Message,
           NEW e, Shorter(out, out2, m), IsFiniteSet(GivenBack(out, e))
    PROVE  /\ IsFiniteSet(GivenBack(out2, e))
           /\ Gives(m, e) =>
                /\ m.n \in Nat
                /\ Cardinality(GivenBack(out, e)) = Cardinality(GivenBack(out2, e)) + m.n
           /\ ~ Gives(m, e) =>
                Cardinality(GivenBack(out, e)) = Cardinality(GivenBack(out2, e))
<1> DEFINE S == GivenBack(out, e)
           T == GivenBack(out2, e)
           n == Len(out2)
           f == [x \in T |-> <<x[1] + 1, x[2]>>]
           R == {x \in S : x[1] # 1}
<1>1. /\ n \in Nat /\ Len(out) = n + 1 /\ out[1] = m
      /\ \A i \in 1 .. n : out2[i] = out[i + 1]
  BY DEF Shorter
<1>2. \A x : x \in S <=> \E i \in 1 .. n + 1 : \E k \in 1 .. out[i].n :
                            Gives(out[i], e) /\ x = <<i, k>>
  <2>1. \A x : x \in S <=> \E i \in 1 .. Len(out) : \E k \in 1 .. out[i].n :
                            Gives(out[i], e) /\ x = <<i, k>>
    BY GivenPlaces
  <2> HIDE DEF S
  <2> QED
    BY <1>1, <2>1
<1>3. \A x : x \in T <=> \E i \in 1 .. n : \E k \in 1 .. out2[i].n :
                            Gives(out2[i], e) /\ x = <<i, k>>
  BY GivenPlaces
<1>4. \A i \in 1 .. n : /\ i + 1 \in 1 .. n + 1 /\ i + 1 # 1 /\ i \in Int
  BY <1>1
<1>5. \A i \in 1 .. n + 1 : i = 1 \/ (i - 1 \in 1 .. n /\ (i - 1) + 1 = i)
  BY <1>1
<1>6. 1 \in 1 .. n + 1
  BY <1>1
<1> HIDE DEF S, T, n
<1>7. ExistsBijection(T, R) /\ \E g : g \in Injection(T, R)
  <2>1. ASSUME NEW x \in T
        PROVE  f[x] \in R
    <3>1. PICK i \in 1 .. n : \E k \in 1 .. out2[i].n : Gives(out2[i], e) /\ x = <<i, k>>
      BY <1>3, <2>1
    <3>2. PICK k \in 1 .. out2[i].n : Gives(out2[i], e) /\ x = <<i, k>>
      BY <3>1
    <3>3. f[x] = <<i + 1, k>>
      BY <2>1, <3>2
    <3>4. i + 1 \in 1 .. n + 1 /\ i + 1 # 1 /\ out[i + 1] = out2[i]
      BY <1>1, <1>4
    <3>5. <<i + 1, k>> \in S
      BY <1>2, <3>2, <3>4
    <3> QED
      BY <3>3, <3>4, <3>5
  <2>2. ASSUME NEW a \in T, NEW b \in T, f[a] = f[b] PROVE a = b
    <3>1. PICK i \in 1 .. n : \E k \in 1 .. out2[i].n : a = <<i, k>>
      BY <1>3, <2>2
    <3>2. PICK j \in 1 .. n : \E k \in 1 .. out2[j].n : b = <<j, k>>
      BY <1>3, <2>2
    <3>3. PICK k \in 1 .. out2[i].n : a = <<i, k>>
      BY <3>1
    <3>4. PICK l \in 1 .. out2[j].n : b = <<j, l>>
      BY <3>2
    <3>5. <<i + 1, k>> = <<j + 1, l>>
      BY <2>2, <3>3, <3>4
    <3>6. i = j /\ k = l
      BY <1>4, <3>5
    <3> QED
      BY <3>3, <3>4, <3>6
  <2>3. ASSUME NEW r \in R PROVE \E t \in T : f[t] = r
    <3>1. PICK i \in 1 .. n + 1 : \E k \in 1 .. out[i].n : Gives(out[i], e) /\ r = <<i, k>>
      BY <1>2, <2>3
    <3>2. PICK k \in 1 .. out[i].n : Gives(out[i], e) /\ r = <<i, k>>
      BY <3>1
    <3>3. i # 1
      BY <2>3, <3>2
    <3>4. i - 1 \in 1 .. n /\ (i - 1) + 1 = i
      BY <1>5, <3>3
    <3>5. out2[i - 1] = out[i]
      BY <1>1, <3>4
    <3>6. <<i - 1, k>> \in T
      BY <1>3, <3>2, <3>4, <3>5
    <3>7. f[<<i - 1, k>>] = <<(i - 1) + 1, k>>
      BY <3>6
    <3> QED
      BY <3>2, <3>4, <3>6, <3>7
  <2>4. f \in [T -> R]
    BY <2>1
  <2> HIDE DEF f, R
  <2>5. f \in Bijection(T, R)
    BY <2>2, <2>3, <2>4 DEF Bijection, Injection, Surjection, IsInjective
  <2> QED
    BY <2>5 DEF ExistsBijection, Bijection
<1>8. IsFiniteSet(S) /\ R \in SUBSET S
  BY DEF S
<1>9. IsFiniteSet(R)
  BY <1>8, FS_Subset
<1>10. IsFiniteSet(T) /\ Cardinality(T) = Cardinality(R)
  <2> HIDE DEF R
  <2>1. IsFiniteSet(T)
    BY <1>7, <1>9, FS_Injection
  <2> QED
    BY <1>7, <2>1, FS_Bijection
<1>11. ASSUME ~ Gives(m, e) PROVE R = S
  <2> SUFFICES ASSUME NEW x \in S PROVE x[1] # 1
    OBVIOUS
  <2>1. PICK i \in 1 .. n + 1 : \E k \in 1 .. out[i].n : Gives(out[i], e) /\ x = <<i, k>>
    BY <1>2
  <2> QED
    BY <1>1, <1>11, <2>1
<1>12. ASSUME Gives(m, e)
       PROVE  m.n \in Nat /\ Cardinality(S) = Cardinality(R) + m.n
  <2>1. m.n \in Nat
    BY <1>12 DEF Gives, Message
  <2> DEFINE own == {1} \X (1 .. m.n)
  <2>2. IsFiniteSet(own) /\ Cardinality(own) = m.n
    BY <2>1, GivenByOne
  <2>3. R \cap own = {}
    OBVIOUS
  <2>4. S = R \cup own
    <3>1. ASSUME NEW x \in S PROVE x \in R \cup own
      <4>1. PICK i \in 1 .. n + 1 : \E k \in 1 .. out[i].n : Gives(out[i], e) /\ x = <<i, k>>
        BY <1>2, <3>1
      <4>2. CASE i = 1
        BY <1>1, <4>1, <4>2
      <4>3. CASE i # 1
        BY <3>1, <4>1, <4>3
      <4> QED
        BY <4>2, <4>3
    <3>2. ASSUME NEW x \in own PROVE x \in S
      <4>1. PICK k \in 1 .. m.n : x = <<1, k>>
        BY <3>2
      <4> QED
        BY <1>1, <1>2, <1>6, <1>12, <4>1
    <3> QED
      BY <3>1, <3>2
  <2> HIDE DEF own, R
  <2> QED
    BY <1>9, <2>1, <2>2, <2>3, <2>4, DisjointAdd
<1> HIDE DEF R
<1> QED
  BY <1>10, <1>11, <1>12 DEF S, T

-----------------------------------------------------------------------------
(* What happens to the ledger of an export *)

\* The host sends something that does not give e.
LEMMA LedgerSentIn ==
    ASSUME NEW x, NEW im, NEW qs, NEW ans,
           NEW out \in Seq(Message), NEW in \in Seq(Message), NEW e,
           Ledger(x, im, qs, ans, out, in, e),
           NEW in2 \in Seq(Message), NEW m, Longer(in, in2, m), ~ Imports(m, qs, e)
    PROVE  Ledger(x, im, qs, ans, out, in2, e)
<1>1. ComingTo(qs, in2, e) = ComingTo(qs, in, e)
  BY ComingSent
<1> QED
  BY <1>1, Zenon DEF Ledger, Balance

\* The peer handles something that does not give e.
LEMMA LedgerTakenIn ==
    ASSUME NEW x, NEW im, NEW qs, NEW ans,
           NEW out \in Seq(Message), NEW in \in Seq(Message), NEW e,
           Ledger(x, im, qs, ans, out, in, e),
           NEW in2 \in Seq(Message), NEW m, Shorter(in, in2, m), ~ Imports(m, qs, e)
    PROVE  Ledger(x, im, qs, ans, out, in2, e)
  BY ComingTaken DEF Ledger, Balance

\* The peer sends something that does not give e back.
LEMMA LedgerSentOut ==
    ASSUME NEW x, NEW im, NEW qs, NEW ans,
           NEW out \in Seq(Message), NEW in \in Seq(Message), NEW e,
           Ledger(x, im, qs, ans, out, in, e),
           NEW out2 \in Seq(Message), NEW m \in Message, Longer(out, out2, m),
           ~ Gives(m, e), ~ Settles(m, ans, e)
    PROVE  Ledger(x, im, qs, ans, out2, in, e)
<1>1. IsFiniteSet(GivenBack(out2, e)) /\ GivenBack(out2, e) = GivenBack(out, e)
  BY GivenSent DEF Ledger
<1>2. FinishedOf(ans, out2, e) = FinishedOf(ans, out, e)
  BY FinishedSent
<1> QED
  BY <1>1, <1>2 DEF Ledger, Balance

\* The host handles something that does not give e back.
LEMMA LedgerTakenOut ==
    ASSUME NEW x, NEW im, NEW qs, NEW ans,
           NEW out \in Seq(Message), NEW in \in Seq(Message), NEW e,
           Ledger(x, im, qs, ans, out, in, e),
           NEW out2 \in Seq(Message), NEW m \in Message, Shorter(out, out2, m),
           ~ Gives(m, e), ~ Settles(m, ans, e)
    PROVE  Ledger(x, im, qs, ans, out2, in, e)
<1>1. /\ IsFiniteSet(GivenBack(out2, e))
      /\ Cardinality(GivenBack(out2, e)) = Cardinality(GivenBack(out, e))
  BY GivenTaken DEF Ledger
<1>2. Cardinality(FinishedOf(ans, out2, e)) = Cardinality(FinishedOf(ans, out, e))
  BY FinishedTaken
<1> QED
  BY <1>1, <1>2 DEF Ledger, Balance

\* The peer's questions change in nothing that e is about.
LEMMA LedgerQuestions ==
    ASSUME NEW x, NEW im, NEW qs, NEW ans,
           NEW out \in Seq(Message), NEW in \in Seq(Message), NEW e,
           Ledger(x, im, qs, ans, out, in, e),
           NEW qs2,
           \A i \in 1 .. Len(in) : Imports(in[i], qs2, e) <=> Imports(in[i], qs, e)
    PROVE  Ledger(x, im, qs2, ans, out, in, e)
  BY ComingSame DEF Ledger, Balance

\* The host's answers change in nothing that e is about.
LEMMA LedgerAnswers ==
    ASSUME NEW x, NEW im, NEW qs, NEW ans,
           NEW out \in Seq(Message), NEW in \in Seq(Message), NEW e,
           Ledger(x, im, qs, ans, out, in, e),
           NEW ans2,
           \A i \in 1 .. Len(out) : Settles(out[i], ans2, e) <=> Settles(out[i], ans, e)
    PROVE  Ledger(x, im, qs, ans2, out, in, e)
  BY FinishedSame DEF Ledger, Balance

\* The meters are numbers.
LEMMA LedgerNumbers ==
    ASSUME NEW qs, NEW ans, NEW out \in Seq(Message), NEW in \in Seq(Message), NEW e,
           IsFiniteSet(GivenBack(out, e))
    PROVE  /\ Cardinality(ComingTo(qs, in, e)) \in Nat
           /\ Cardinality(GivenBack(out, e)) \in Nat
           /\ Cardinality(FinishedOf(ans, out, e)) \in Nat
  BY ComingNumber, FinishedNumber, FS_CardinalityType

\* write_descriptor gives one more reference to e.
LEMMA LedgerExported ==
    ASSUME NEW x, NEW im, NEW qs, NEW ans,
           NEW out \in Seq(Message), NEW in \in Seq(Message), NEW e,
           Ledger(x, im, qs, ans, out, in, e),
           NEW in2 \in Seq(Message), NEW m, Longer(in, in2, m), Imports(m, qs, e),
           Held(im) \in Nat, NEW y, RefsOf(y) = RefsOf(x) + 1
    PROVE  Ledger(y, im, qs, ans, out, in2, e)
<1>1. Cardinality(ComingTo(qs, in2, e)) = Cardinality(ComingTo(qs, in, e)) + 1
  BY ComingSent
<1>2. /\ Cardinality(ComingTo(qs, in, e)) \in Nat
      /\ Cardinality(GivenBack(out, e)) \in Nat
      /\ Cardinality(FinishedOf(ans, out, e)) \in Nat
  BY LedgerNumbers DEF Ledger
<1> QED
  BY <1>1, <1>2 DEF Ledger, Balance

\* receive_cap counts a reference that has come.
LEMMA LedgerImported ==
    ASSUME NEW x, NEW im, NEW qs, NEW ans,
           NEW out \in Seq(Message), NEW in \in Seq(Message), NEW e,
           Ledger(x, im, qs, ans, out, in, e),
           NEW in2 \in Seq(Message), NEW m, Shorter(in, in2, m), Imports(m, qs, e),
           Held(im) \in Nat, NEW im2, Held(im2) = Held(im) + 1
    PROVE  Ledger(x, im2, qs, ans, out, in2, e)
<1>1. Cardinality(ComingTo(qs, in, e)) = Cardinality(ComingTo(qs, in2, e)) + 1
  BY ComingTaken
<1>2. /\ Cardinality(ComingTo(qs, in2, e)) \in Nat
      /\ Cardinality(GivenBack(out, e)) \in Nat
      /\ Cardinality(FinishedOf(ans, out, e)) \in Nat
  BY LedgerNumbers DEF Ledger
<1> QED
  BY <1>1, <1>2 DEF Ledger, Balance

\* ImportClient::drop gives all references back.
LEMMA LedgerDropped ==
    ASSUME NEW x, NEW im, NEW qs, NEW ans,
           NEW out \in Seq(Message), NEW in \in Seq(Message), NEW e,
           Ledger(x, im, qs, ans, out, in, e),
           NEW out2 \in Seq(Message), NEW m \in Message, Longer(out, out2, m),
           Gives(m, e), m.n = Held(im), Held(im) \in Nat, NEW im2, Held(im2) = 0
    PROVE  Ledger(x, im2, qs, ans, out2, in, e)
<1>1. /\ IsFiniteSet(GivenBack(out2, e))
      /\ Cardinality(GivenBack(out2, e)) = Cardinality(GivenBack(out, e)) + Held(im)
  BY GivenSent DEF Ledger
<1>2. ~ Settles(m, ans, e)
  BY DEF Gives, Settles
<1>3. FinishedOf(ans, out2, e) = FinishedOf(ans, out, e)
  BY <1>2, FinishedSent
<1>4. /\ Cardinality(ComingTo(qs, in, e)) \in Nat
      /\ Cardinality(GivenBack(out, e)) \in Nat
      /\ Cardinality(FinishedOf(ans, out, e)) \in Nat
  BY LedgerNumbers DEF Ledger
<1> QED
  BY <1>1, <1>3, <1>4 DEF Ledger, Balance

\* The same number is taken from both sides.
LEMMA TakenBack ==
    ASSUME NEW r2 \in Nat, NEW n \in Nat, NEW h \in Nat, NEW c \in Nat, NEW g2 \in Nat,
           NEW f \in Nat, r2 + n = h + c + (g2 + n) + f
    PROVE  r2 = h + c + g2 + f
  OBVIOUS

\* release_export takes back what a Release gives.
LEMMA LedgerReleased ==
    ASSUME NEW x, NEW im, NEW qs, NEW ans,
           NEW out \in Seq(Message), NEW in \in Seq(Message), NEW e,
           Ledger(x, im, qs, ans, out, in, e),
           NEW out2 \in Seq(Message), NEW m \in Message, Shorter(out, out2, m),
           Gives(m, e), Held(im) \in Nat,
           NEW y, RefsOf(y) \in Nat, RefsOf(x) = RefsOf(y) + m.n
    PROVE  Ledger(y, im, qs, ans, out2, in, e)
<1>1. /\ IsFiniteSet(GivenBack(out2, e)) /\ m.n \in Nat
      /\ Cardinality(GivenBack(out, e)) = Cardinality(GivenBack(out2, e)) + m.n
  BY GivenTaken DEF Ledger
<1>2. ~ Settles(m, ans, e)
  BY DEF Gives, Settles
<1>3. Cardinality(FinishedOf(ans, out, e)) = Cardinality(FinishedOf(ans, out2, e))
  BY <1>2, FinishedTaken
<1>4. /\ Cardinality(ComingTo(qs, in, e)) \in Nat
      /\ Cardinality(GivenBack(out2, e)) \in Nat
      /\ Cardinality(FinishedOf(ans, out2, e)) \in Nat
  BY <1>1, LedgerNumbers
<1>5. RefsOf(x) = Held(im) + Cardinality(ComingTo(qs, in, e))
                    + Cardinality(GivenBack(out, e)) + Cardinality(FinishedOf(ans, out, e))
  BY DEF Ledger, Balance
<1>6. RefsOf(y) = Held(im) + Cardinality(ComingTo(qs, in, e))
                    + Cardinality(GivenBack(out2, e)) + Cardinality(FinishedOf(ans, out2, e))
  <2> DEFINE r2 == RefsOf(y)
             n == m.n
             h == Held(im)
             c == Cardinality(ComingTo(qs, in, e))
             g2 == Cardinality(GivenBack(out2, e))
             f == Cardinality(FinishedOf(ans, out2, e))
  <2>1. r2 \in Nat /\ n \in Nat /\ h \in Nat /\ c \in Nat /\ g2 \in Nat /\ f \in Nat
    BY <1>1, <1>4
  <2>2. r2 + n = h + c + (g2 + n) + f
    BY <1>1, <1>3, <1>5
  <2> HIDE DEF r2, n, h, c, g2, f
  <2>3. r2 = h + c + g2 + f
    BY <2>1, <2>2, TakenBack
  <2> QED
    BY <2>3 DEF r2, n, h, c, g2, f
<1> QED
  BY <1>1, <1>6 DEF Ledger, Balance

\* handle_finish takes back the results of a canceled call.
LEMMA LedgerSettled ==
    ASSUME NEW x, NEW im, NEW qs, NEW ans,
           NEW out \in Seq(Message), NEW in \in Seq(Message), NEW e,
           Ledger(x, im, qs, ans, out, in, e),
           NEW out2 \in Seq(Message), NEW m \in Message, Shorter(out, out2, m),
           Settles(m, ans, e), Held(im) \in Nat,
           NEW y, RefsOf(y) \in Nat, RefsOf(x) = RefsOf(y) + 1
    PROVE  Ledger(y, im, qs, ans, out2, in, e)
<1>1. ~ Gives(m, e)
  BY DEF Gives, Settles
<1>2. /\ IsFiniteSet(GivenBack(out2, e))
      /\ Cardinality(GivenBack(out, e)) = Cardinality(GivenBack(out2, e))
  BY <1>1, GivenTaken DEF Ledger
<1>3. Cardinality(FinishedOf(ans, out, e)) = Cardinality(FinishedOf(ans, out2, e)) + 1
  BY FinishedTaken
<1>4. /\ Cardinality(ComingTo(qs, in, e)) \in Nat
      /\ Cardinality(GivenBack(out2, e)) \in Nat
      /\ Cardinality(FinishedOf(ans, out2, e)) \in Nat
  BY <1>2, LedgerNumbers
<1> QED
  BY <1>2, <1>3, <1>4 DEF Ledger, Balance

\* QuestionRef::drop: the results on their way will not be imported, but be
\* released by the Finish.
LEMMA LedgerCanceled ==
    ASSUME NEW x, NEW im, NEW qs, NEW ans,
           NEW out \in Seq(Message), NEW in \in Seq(Message), NEW e,
           Ledger(x, im, qs, ans, out, in, e),
           NEW out2 \in Seq(Message), NEW m \in Message, Longer(out, out2, m),
           Settles(m, ans, e), NEW qs2, NEW p \in 1 .. Len(in), Held(im) \in Nat,
           Imports(in[p], qs, e), ~ Imports(in[p], qs2, e),
           \A i \in 1 .. Len(in) :
                i # p => (Imports(in[i], qs2, e) <=> Imports(in[i], qs, e))
    PROVE  Ledger(x, im, qs2, ans, out2, in, e)
<1>1. ~ Gives(m, e)
  BY DEF Gives, Settles
<1>2. IsFiniteSet(GivenBack(out2, e)) /\ GivenBack(out2, e) = GivenBack(out, e)
  BY <1>1, GivenSent DEF Ledger
<1>3. Cardinality(FinishedOf(ans, out2, e)) = Cardinality(FinishedOf(ans, out, e)) + 1
  BY FinishedSent
<1>4. Cardinality(ComingTo(qs, in, e)) = Cardinality(ComingTo(qs2, in, e)) + 1
  <2> DEFINE S == ComingTo(qs2, in, e)
             T == ComingTo(qs, in, e)
  <2>1. /\ S \in SUBSET (1 .. Len(in)) /\ Len(in) \in Nat
        /\ \A i \in 1 .. Len(in) : i \in S <=> Imports(in[i], qs2, e)
    BY ComingNumber
  <2>2. /\ T \in SUBSET (1 .. Len(in))
        /\ \A i \in 1 .. Len(in) : i \in T <=> Imports(in[i], qs, e)
    BY ComingNumber
  <2>3. IsFiniteSet(S)
    BY <2>1, PlacesFinite
  <2> HIDE DEF S, T
  <2>4. p \in T /\ p \notin S /\ \A y : y \in T <=> y \in S \/ y = p
    BY <2>1, <2>2
  <2>5. Cardinality(T) = Cardinality(S) + 1
    BY <2>3, <2>4, OneMore
  <2> QED
    BY <2>5 DEF S, T
<1>5. /\ Cardinality(ComingTo(qs2, in, e)) \in Nat
      /\ Cardinality(GivenBack(out, e)) \in Nat
      /\ Cardinality(FinishedOf(ans, out, e)) \in Nat
  BY LedgerNumbers DEF Ledger
<1> QED
  BY <1>2, <1>3, <1>4, <1>5 DEF Ledger, Balance

\* Results are returned to a question that has been dropped: they are not
\* imported, but released by the Finish that is on its way.
LEMMA LedgerUnwanted ==
    ASSUME NEW x, NEW im, NEW qs, NEW ans,
           NEW out \in Seq(Message), NEW in \in Seq(Message), NEW e,
           Ledger(x, im, qs, ans, out, in, e),
           NEW ans2, NEW p \in 1 .. Len(out), Held(im) \in Nat,
           Settles(out[p], ans2, e), ~ Settles(out[p], ans, e),
           \A i \in 1 .. Len(out) :
                i # p => (Settles(out[i], ans2, e) <=> Settles(out[i], ans, e)),
           NEW y, RefsOf(y) = RefsOf(x) + 1
    PROVE  Ledger(y, im, qs, ans2, out, in, e)
<1>1. Cardinality(FinishedOf(ans2, out, e)) = Cardinality(FinishedOf(ans, out, e)) + 1
  <2> DEFINE S == FinishedOf(ans, out, e)
             T == FinishedOf(ans2, out, e)
  <2>1. /\ S \in SUBSET (1 .. Len(out)) /\ Len(out) \in Nat
        /\ \A i \in 1 .. Len(out) : i \in S <=> Settles(out[i], ans, e)
    BY FinishedNumber
  <2>2. /\ T \in SUBSET (1 .. Len(out))
        /\ \A i \in 1 .. Len(out) : i \in T <=> Settles(out[i], ans2, e)
    BY FinishedNumber
  <2>3. IsFiniteSet(S)
    BY <2>1, PlacesFinite
  <2> HIDE DEF S, T
  <2>4. p \in T /\ p \notin S /\ \A z : z \in T <=> z \in S \/ z = p
    BY <2>1, <2>2
  <2>5. Cardinality(T) = Cardinality(S) + 1
    BY <2>3, <2>4, OneMore
  <2> QED
    BY <2>5 DEF S, T
<1>2. /\ Cardinality(ComingTo(qs, in, e)) \in Nat
      /\ Cardinality(GivenBack(out, e)) \in Nat
      /\ Cardinality(FinishedOf(ans, out, e)) \in Nat
  BY LedgerNumbers DEF Ledger
<1> QED
  BY <1>1, <1>2 DEF Ledger, Balance

-----------------------------------------------------------------------------
(* What happens to the results of a call *)

\* The peer sends something other than a Finish of q.
LEMMA HeldSentOut ==
    ASSUME NEW qn, NEW an, NEW out, NEW in, NEW q, NEW out2, NEW m,
           HeldOK(qn, an, out, in, q), Longer(out, out2, m), ~ FinishOf(m, q)
    PROVE  HeldOK(qn, an, out2, in, q)
<1>1. \A i \in 1 .. Len(out2) : (i \in 1 .. Len(out) /\ out2[i] = out[i])
                                \/ (i = Len(out) + 1 /\ out2[i] = m)
  BY LongerPlaces
<1> QED
  BY <1>1 DEF HeldOK

\* The host handles something.
LEMMA HeldTakenOut ==
    ASSUME NEW qn, NEW an, NEW out, NEW in, NEW q, NEW out2, NEW m,
           HeldOK(qn, an, out, in, q), Shorter(out, out2, m)
    PROVE  HeldOK(qn, an, out2, in, q)
<1>1. \A i \in 1 .. Len(out2) : i + 1 \in 1 .. Len(out) /\ out2[i] = out[i + 1]
  BY ShorterPlaces
<1> QED
  BY <1>1 DEF HeldOK

\* The host sends something other than the Return to q.
LEMMA HeldSentIn ==
    ASSUME NEW qn, NEW an, NEW out, NEW in, NEW q, NEW in2, NEW m,
           HeldOK(qn, an, out, in, q), Longer(in, in2, m), ~ ReturnTo(m, q)
    PROVE  HeldOK(qn, an, out, in2, q)
<1>1. /\ \A i \in 1 .. Len(in2) : (i \in 1 .. Len(in) /\ in2[i] = in[i])
                                 \/ (i = Len(in) + 1 /\ in2[i] = m)
      /\ \A i \in 1 .. Len(in) : i \in 1 .. Len(in2) /\ in2[i] = in[i]
  BY LongerPlaces
<1> QED
  BY <1>1 DEF HeldOK

\* The peer handles something other than the Return to q.
LEMMA HeldTakenIn ==
    ASSUME NEW qn, NEW an, NEW out, NEW in, NEW q, NEW in2, NEW m,
           HeldOK(qn, an, out, in, q), Shorter(in, in2, m), ~ ReturnTo(m, q)
    PROVE  HeldOK(qn, an, out, in2, q)
<1>1. /\ \A i \in 1 .. Len(in) : \/ i = 1 /\ in[i] = m
                                \/ (i - 1 \in 1 .. Len(in2) /\ in[i] = in2[i - 1])
      /\ \A i \in 1 .. Len(in2) : i + 1 \in 1 .. Len(in) /\ in2[i] = in[i + 1]
  BY ShorterPlaces
<1>2. ASSUME qn # None, qn.ref, qn.awaiting, an # None, About(an, qn), an.exp # None
      PROVE  \E i \in 1 .. Len(in2) : /\ ReturnTo(in2[i], q)
                                      /\ in2[i].cap = [kind |-> "senderHosted", id |-> an.exp]
  <2>1. PICK i \in 1 .. Len(in) : /\ ReturnTo(in[i], q)
                                  /\ in[i].cap = [kind |-> "senderHosted", id |-> an.exp]
    BY <1>2 DEF HeldOK
  <2> QED
    BY <1>1, <2>1
<1>3. \A i \in 1 .. Len(in2) : ReturnTo(in2[i], q) =>
        /\ in2[i].which # "results" => in2[i].cap.kind # "senderHosted"
        /\ qn.ref /\ in2[i].cap.kind = "senderHosted" =>
            an # None /\ an.call = in2[i].call /\ an.exp = in2[i].cap.id
  BY <1>1 DEF HeldOK
<1> QED
  BY <1>2, <1>3 DEF HeldOK

\* Something about the answer changes that its results are not about.
LEMMA HeldSame ==
    ASSUME NEW qn, NEW an, NEW out, NEW in, NEW q, NEW an2,
           HeldOK(qn, an, out, in, q), an # None, an2 # None,
           an2.call = an.call, an2.exp = an.exp, Open(an2) => Open(an)
    PROVE  HeldOK(qn, an2, out, in, q)
<1>1. About(an2, qn) <=> About(an, qn)
  BY DEF About
<1> QED
  BY <1>1 DEF HeldOK

\* The id q is given to a new question.
LEMMA HeldAsked ==
    ASSUME NEW an, NEW n, NEW out, NEW in, NEW q, NEW out2, NEW m, NEW qn2,
           HeldOK(None, an, out, in, q), Longer(out, out2, m),
           AskFor(m, q), SlotOK(qn2, an, n, out2, in, q), qn2 # None, qn2.ref, m.call = qn2.call
    PROVE  HeldOK(qn2, an, out2, in, q)
<1>1. Len(out) + 1 \in 1 .. Len(out2) /\ out2[Len(out) + 1] = m
  BY LongerPlaces DEF Longer
<1>2. /\ \A j \in 1 .. Len(in) : ~ ReturnTo(in[j], q)
      /\ an # None => an.call # qn2.call
  BY <1>1 DEF SlotOK, AskOK
<1>3. \A i \in 1 .. Len(out2) : FinishOf(out2[i], q) => ~ About(out2[i], qn2)
  BY DEF SlotOK, FinishOK
<1> QED
  BY <1>2, <1>3 DEF HeldOK, About

\* The peer drops a question that awaits its Return.
LEMMA HeldDropped ==
    ASSUME NEW qn, NEW an, NEW out, NEW in, NEW q, NEW out2, NEW m, NEW qn2,
           HeldOK(qn, an, out, in, q), Longer(out, out2, m), m.release,
           qn # None, qn2 # None, qn2.call = qn.call, ~ qn2.ref
    PROVE  HeldOK(qn2, an, out2, in, q)
<1>1. \A i \in 1 .. Len(out2) : (i \in 1 .. Len(out) /\ out2[i] = out[i])
                                \/ (i = Len(out) + 1 /\ out2[i] = m)
  BY LongerPlaces
<1>2. \A x : About(x, qn2) <=> About(x, qn)
  BY DEF About
<1> QED
  BY <1>1, <1>2 DEF HeldOK

\* The id q is free again, or its Return has come.
LEMMA HeldReceived ==
    ASSUME NEW qn, NEW an, NEW n, NEW out, NEW in, NEW q, NEW in2, NEW out2, NEW qn2,
           HeldOK(qn, an, out, in, q), SlotOK(qn2, an, n, out2, in2, q),
           \/ qn2 = None
           \/ qn2 # None /\ ~ qn2.awaiting
    PROVE  HeldOK(qn2, an, out2, in2, q)
<1>1. \A j \in 1 .. Len(in2) : ~ ReturnTo(in2[j], q)
  BY DEF SlotOK, ReturnOK, About
<1>2. \A i \in 1 .. Len(out2) : FinishOf(out2[i], q) => ~ About(out2[i], qn2)
  BY DEF SlotOK, FinishOK, About
<1> QED
  BY <1>1, <1>2 DEF HeldOK

\* The host takes up a call.
LEMMA HeldTakenUp ==
    ASSUME NEW qn, NEW out, NEW in, NEW q, NEW an2,
           HeldOK(qn, None, out, in, q),
           \A i \in 1 .. Len(in) : ~ ReturnTo(in[i], q),
           an2 # None, an2.exp = None
    PROVE  HeldOK(qn, an2, out, in, q)
  BY DEF HeldOK

\* The host returns a call, with or without a capability.
LEMMA HeldReturned ==
    ASSUME NEW qn, NEW an, NEW out, NEW in, NEW q, NEW an2, NEW in2, NEW m,
           HeldOK(qn, an, out, in, q), Longer(in, in2, m), ReturnTo(m, q),
           \A i \in 1 .. Len(in) : ~ ReturnTo(in[i], q),
           m.which # "results" => m.cap.kind # "senderHosted",
           m.cap.kind = "senderHosted" =>
                /\ an2 # None /\ an2.call = m.call /\ an2.exp = m.cap.id
                /\ m.cap = [kind |-> "senderHosted", id |-> an2.exp],
           m.cap.kind # "senderHosted" /\ an2 # None => an2.exp = None,
           an2 # None => ~ Open(an2)
    PROVE  HeldOK(qn, an2, out, in2, q)
<1>1. /\ \A i \in 1 .. Len(in2) : (i \in 1 .. Len(in) /\ in2[i] = in[i])
                                 \/ (i = Len(in) + 1 /\ in2[i] = m)
      /\ Len(in) + 1 \in 1 .. Len(in2) /\ in2[Len(in) + 1] = m
  BY LongerPlaces DEF Longer
<1> QED
  BY <1>1 DEF HeldOK

\* The host handles a Finish.
LEMMA HeldFinished ==
    ASSUME NEW qn, NEW an, NEW n, NEW out, NEW in, NEW q, NEW out2, NEW m, NEW an2,
           HeldOK(qn, an, out, in, q), SlotOK(qn, an, n, out, in, q),
           Shorter(out, out2, m), FinishOf(m, q),
           an2 # None => an2.exp = None
    PROVE  HeldOK(qn, an2, out2, in, q)
<1>1. /\ \A i \in 1 .. Len(out2) : i + 1 \in 1 .. Len(out) /\ out2[i] = out[i + 1]
      /\ 1 \in 1 .. Len(out) /\ out[1] = m
  BY ShorterPlaces DEF Shorter
<1>2. \A i \in 1 .. Len(in) : ReturnTo(in[i], q) => qn # None /\ ~ qn.ref
  <2>1. \A i \in 1 .. Len(in) : ReturnTo(in[i], q) => qn # None
    BY DEF SlotOK, ReturnOK, About
  <2>2. About(m, qn) => ~ qn.ref
    BY <1>1 DEF SlotOK, FinishOK
  <2>3. qn # None /\ ~ About(m, qn) => \E j \in 1 .. Len(out) : AskFor(out[j], q)
    BY <1>1 DEF SlotOK, FinishOK
  <2>4. (\E j \in 1 .. Len(out) : AskFor(out[j], q)) =>
            \A i \in 1 .. Len(in) : ~ ReturnTo(in[i], q)
    BY DEF SlotOK, AskOK
  <2> QED
    BY <2>1, <2>2, <2>3, <2>4
<1> QED
  BY <1>1, <1>2 DEF HeldOK

-----------------------------------------------------------------------------
(* What happens to the books *)

\* A count of references is a number.
LEMMA HeldNumber ==
    ASSUME NEW im \in Nat \cup {None}
    PROVE  Held(im) \in Nat
  BY DEF Held

\* The peer sends something that gives nothing back.
LEMMA BooksSaid ==
    ASSUME NEW xs, NEW ims, NEW qs, NEW ans,
           NEW out \in Seq(Message), NEW in \in Seq(Message),
           Books(xs, ims, qs, ans, out, in),
           NEW out2 \in Seq(Message), NEW m \in Message, Longer(out, out2, m),
           m.t \notin {"finish", "release"}
    PROVE  Books(xs, ims, qs, ans, out2, in)
<1>1. ASSUME NEW q \in QuestionIds PROVE HeldOK(qs[q], ans[q], out2, in, q)
  <2>1. ~ FinishOf(m, q)
    BY DEF FinishOf
  <2>2. HeldOK(qs[q], ans[q], out, in, q)
    BY DEF Books
  <2> QED
    BY <2>1, <2>2, HeldSentOut
<1>2. ASSUME NEW e \in ExportIds PROVE Ledger(xs[e], ims[e], qs, ans, out2, in, e)
  <2>1. ~ Gives(m, e) /\ ~ Settles(m, ans, e)
    BY DEF Gives, Settles
  <2>2. Ledger(xs[e], ims[e], qs, ans, out, in, e)
    BY DEF Books
  <2> QED
    BY <2>1, <2>2, LedgerSentOut
<1> QED
  BY <1>1, <1>2 DEF Books

\* The host handles something that gives nothing back.
LEMMA BooksTaken ==
    ASSUME NEW xs, NEW ims, NEW qs, NEW ans,
           NEW out \in Seq(Message), NEW in \in Seq(Message),
           Books(xs, ims, qs, ans, out, in),
           NEW out2 \in Seq(Message), NEW m \in Message, Shorter(out, out2, m),
           m.t \notin {"finish", "release"}
    PROVE  Books(xs, ims, qs, ans, out2, in)
<1>1. ASSUME NEW q \in QuestionIds PROVE HeldOK(qs[q], ans[q], out2, in, q)
  <2>1. HeldOK(qs[q], ans[q], out, in, q)
    BY DEF Books
  <2> QED
    BY <2>1, HeldTakenOut
<1>2. ASSUME NEW e \in ExportIds PROVE Ledger(xs[e], ims[e], qs, ans, out2, in, e)
  <2>1. ~ Gives(m, e) /\ ~ Settles(m, ans, e)
    BY DEF Gives, Settles
  <2>2. Ledger(xs[e], ims[e], qs, ans, out, in, e)
    BY DEF Books
  <2> QED
    BY <2>1, <2>2, LedgerTakenOut
<1> QED
  BY <1>1, <1>2 DEF Books

\* m gives no reference to an export of its sender.
GivesNone(m) ==
    /\ m.t # "return"
    /\ m.t = "call" => m.cap.kind # "senderHosted"

\* The host sends something that gives nothing.
LEMMA BooksTold ==
    ASSUME NEW xs, NEW ims, NEW qs, NEW ans,
           NEW out \in Seq(Message), NEW in \in Seq(Message),
           Books(xs, ims, qs, ans, out, in),
           NEW in2 \in Seq(Message), NEW m \in Message, Longer(in, in2, m),
           GivesNone(m)
    PROVE  Books(xs, ims, qs, ans, out, in2)
<1>1. ASSUME NEW q \in QuestionIds PROVE HeldOK(qs[q], ans[q], out, in2, q)
  <2>1. ~ ReturnTo(m, q)
    BY DEF ReturnTo, GivesNone
  <2>2. HeldOK(qs[q], ans[q], out, in, q)
    BY DEF Books
  <2> QED
    BY <2>1, <2>2, HeldSentIn
<1>2. ASSUME NEW e \in ExportIds PROVE Ledger(xs[e], ims[e], qs, ans, out, in2, e)
  <2>1. ~ Imports(m, qs, e)
    BY DEF Imports, GivesNone
  <2>2. Ledger(xs[e], ims[e], qs, ans, out, in, e)
    BY DEF Books
  <2> QED
    BY <2>1, <2>2, LedgerSentIn
<1> QED
  BY <1>1, <1>2 DEF Books

\* The peer handles something that gives nothing.
LEMMA BooksHeard ==
    ASSUME NEW xs, NEW ims, NEW qs, NEW ans,
           NEW out \in Seq(Message), NEW in \in Seq(Message),
           Books(xs, ims, qs, ans, out, in),
           NEW in2 \in Seq(Message), NEW m \in Message, Shorter(in, in2, m),
           GivesNone(m)
    PROVE  Books(xs, ims, qs, ans, out, in2)
<1>1. ASSUME NEW q \in QuestionIds PROVE HeldOK(qs[q], ans[q], out, in2, q)
  <2>1. ~ ReturnTo(m, q)
    BY DEF ReturnTo, GivesNone
  <2>2. HeldOK(qs[q], ans[q], out, in, q)
    BY DEF Books
  <2> QED
    BY <2>1, <2>2, HeldTakenIn
<1>2. ASSUME NEW e \in ExportIds PROVE Ledger(xs[e], ims[e], qs, ans, out, in2, e)
  <2>1. ~ Imports(m, qs, e)
    BY DEF Imports, GivesNone
  <2>2. Ledger(xs[e], ims[e], qs, ans, out, in, e)
    BY DEF Books
  <2> QED
    BY <2>1, <2>2, LedgerTakenIn
<1> QED
  BY <1>1, <1>2 DEF Books

\* A capability of the sender is named by its export.
LEMMA CapNamed ==
    ASSUME NEW m \in Message, m.t \in {"call", "return"}, m.cap.kind = "senderHosted"
    PROVE  /\ m.cap.id \in ExportIds
           /\ m.cap = [kind |-> "senderHosted", id |-> m.cap.id]
           /\ \A e : m.cap = [kind |-> "senderHosted", id |-> e] => e = m.cap.id
<1>1. m.cap \in Descriptor
  BY DEF Message
<1> QED
  BY <1>1 DEF Descriptor

\* Tables that differ by one reference to an export, by one reference to an
\* import, and by an import that is given up.
OneExport(xs, xs2, id) ==
    /\ RefsOf(xs2[id]) = RefsOf(xs[id]) + 1
    /\ \A e \in ExportIds : e # id => xs2[e] = xs[e]
OneImport(ims, ims2, id) ==
    /\ Held(ims2[id]) = Held(ims[id]) + 1
    /\ \A e \in ExportIds : e # id => ims2[e] = ims[e]
NoImport(ims, ims2, id) ==
    /\ ims[id] # None /\ ims2[id] = None
    /\ \A e \in ExportIds : e # id => ims2[e] = ims[e]

\* send_internal: the host sends a call with a capability of its own.
LEMMA BooksExported ==
    ASSUME NEW xs, NEW ims \in [ExportIds -> Nat \cup {None}], NEW qs, NEW ans,
           NEW out \in Seq(Message), NEW in \in Seq(Message),
           Books(xs, ims, qs, ans, out, in),
           NEW in2 \in Seq(Message), NEW m \in Message, Longer(in, in2, m),
           m.t = "call", m.cap.kind = "senderHosted",
           NEW xs2, OneExport(xs, xs2, m.cap.id)
    PROVE  Books(xs2, ims, qs, ans, out, in2)
<1> USE DEF OneExport
<1>1. ASSUME NEW q \in QuestionIds PROVE HeldOK(qs[q], ans[q], out, in2, q)
  <2>1. ~ ReturnTo(m, q)
    BY DEF ReturnTo
  <2>2. HeldOK(qs[q], ans[q], out, in, q)
    BY DEF Books
  <2> QED
    BY <2>1, <2>2, HeldSentIn
<1>2. ASSUME NEW e \in ExportIds PROVE Ledger(xs2[e], ims[e], qs, ans, out, in2, e)
  <2>1. Ledger(xs[e], ims[e], qs, ans, out, in, e)
    BY DEF Books
  <2>2. Imports(m, qs, e) <=> e = m.cap.id
    BY CapNamed DEF Imports
  <2>3. CASE e = m.cap.id
    <3>1. RefsOf(xs2[e]) = RefsOf(xs[e]) + 1 /\ Held(ims[e]) \in Nat
      BY <2>3, HeldNumber
    <3> QED
      BY <2>1, <2>2, <2>3, <3>1, LedgerExported
  <2>4. CASE e # m.cap.id
    <3>1. Ledger(xs[e], ims[e], qs, ans, out, in2, e)
      BY <2>1, <2>2, <2>4, LedgerSentIn
    <3> QED
      BY <2>4, <3>1
  <2> QED
    BY <2>3, <2>4
<1> QED
  BY <1>1, <1>2 DEF Books

\* receive_cap: the peer handles a call with a capability of the host.
LEMMA BooksImported ==
    ASSUME NEW xs, NEW ims \in [ExportIds -> Nat \cup {None}], NEW qs, NEW ans,
           NEW out \in Seq(Message), NEW in \in Seq(Message),
           Books(xs, ims, qs, ans, out, in),
           NEW in2 \in Seq(Message), NEW m \in Message, Shorter(in, in2, m),
           m.t = "call", m.cap.kind = "senderHosted",
           NEW ims2, OneImport(ims, ims2, m.cap.id)
    PROVE  Books(xs, ims2, qs, ans, out, in2)
<1> USE DEF OneImport
<1>1. ASSUME NEW q \in QuestionIds PROVE HeldOK(qs[q], ans[q], out, in2, q)
  <2>1. ~ ReturnTo(m, q)
    BY DEF ReturnTo
  <2>2. HeldOK(qs[q], ans[q], out, in, q)
    BY DEF Books
  <2> QED
    BY <2>1, <2>2, HeldTakenIn
<1>2. ASSUME NEW e \in ExportIds PROVE Ledger(xs[e], ims2[e], qs, ans, out, in2, e)
  <2>1. Ledger(xs[e], ims[e], qs, ans, out, in, e)
    BY DEF Books
  <2>2. Imports(m, qs, e) <=> e = m.cap.id
    BY CapNamed DEF Imports
  <2>3. CASE e = m.cap.id
    <3>1. Held(ims2[e]) = Held(ims[e]) + 1 /\ Held(ims[e]) \in Nat
      BY <2>3, HeldNumber
    <3> QED
      BY <2>1, <2>2, <2>3, <3>1, LedgerImported
  <2>4. CASE e # m.cap.id
    <3>1. Ledger(xs[e], ims[e], qs, ans, out, in2, e)
      BY <2>1, <2>2, <2>4, LedgerTakenIn
    <3> QED
      BY <2>4, <3>1
  <2> QED
    BY <2>3, <2>4
<1> QED
  BY <1>1, <1>2 DEF Books

\* ImportClient::drop: the peer gives back all references to e0.
LEMMA BooksGivenBack ==
    ASSUME NEW xs, NEW ims \in [ExportIds -> Nat \cup {None}], NEW qs, NEW ans,
           NEW out \in Seq(Message), NEW in \in Seq(Message),
           Books(xs, ims, qs, ans, out, in),
           NEW out2 \in Seq(Message), NEW m \in Message, Longer(out, out2, m),
           NEW e0 \in ExportIds, m.t = "release", m.id = e0, m.n = ims[e0],
           NEW ims2, NoImport(ims, ims2, e0)
    PROVE  Books(xs, ims2, qs, ans, out2, in)
<1> USE DEF NoImport
<1>1. ASSUME NEW q \in QuestionIds PROVE HeldOK(qs[q], ans[q], out2, in, q)
  <2>1. ~ FinishOf(m, q)
    BY DEF FinishOf
  <2>2. HeldOK(qs[q], ans[q], out, in, q)
    BY DEF Books
  <2> QED
    BY <2>1, <2>2, HeldSentOut
<1>2. ASSUME NEW e \in ExportIds PROVE Ledger(xs[e], ims2[e], qs, ans, out2, in, e)
  <2>1. Ledger(xs[e], ims[e], qs, ans, out, in, e)
    BY DEF Books
  <2>2. Gives(m, e) <=> e = e0
    BY DEF Gives
  <2>3. CASE e = e0
    <3>1. Held(ims[e]) \in Nat /\ m.n = Held(ims[e]) /\ Held(ims2[e]) = 0
      <4>1. Held(ims[e]) \in Nat
        BY HeldNumber
      <4> QED
        BY <2>3, <4>1 DEF Held
    <3> QED
      BY <2>1, <2>2, <2>3, <3>1, LedgerDropped
  <2>4. CASE e # e0
    <3>1. ~ Settles(m, ans, e)
      BY DEF Settles
    <3>2. Ledger(xs[e], ims[e], qs, ans, out2, in, e)
      BY <2>1, <2>2, <2>4, <3>1, LedgerSentOut
    <3> QED
      BY <2>4, <3>2
  <2> QED
    BY <2>3, <2>4
<1> QED
  BY <1>1, <1>2 DEF Books

\* A question changes; no Return to it is on its way.
LEMMA ImportsSame ==
    ASSUME NEW qs, NEW qs2, NEW in \in Seq(Message), NEW f \in QuestionIds, NEW e \in ExportIds,
           \A i \in 1 .. Len(in) : ~ ReturnTo(in[i], f),
           \A q \in QuestionIds : q # f => qs2[q] = qs[q]
    PROVE  \A i \in 1 .. Len(in) : Imports(in[i], qs2, e) <=> Imports(in[i], qs, e)
<1> SUFFICES ASSUME NEW i \in 1 .. Len(in)
             PROVE  Imports(in[i], qs2, e) <=> Imports(in[i], qs, e)
  OBVIOUS
<1>1. in[i] \in Message
  OBVIOUS
<1>2. in[i].t = "return" => in[i].q \in QuestionIds /\ in[i].q # f
  BY <1>1 DEF Message, ReturnTo
<1> QED
  BY <1>2 DEF Imports

\* A question is entered under the free id f, and asked.
LEMMA BooksAsked ==
    ASSUME NEW xs, NEW ims, NEW qs, NEW ans, NEW n,
           NEW out \in Seq(Message), NEW in \in Seq(Message),
           Books(xs, ims, qs, ans, out, in),
           NEW out2 \in Seq(Message), NEW m \in Message, Longer(out, out2, m),
           NEW f \in QuestionIds, NEW qs2, qs[f] = None,
           \A q \in QuestionIds : q # f => qs2[q] = qs[q],
           AskFor(m, f), qs2[f] # None, qs2[f].ref, m.call = qs2[f].call,
           SlotOK(qs2[f], ans[f], n, out2, in, f)
    PROVE  Books(xs, ims, qs2, ans, out2, in)
<1>1. Len(out) + 1 \in 1 .. Len(out2) /\ out2[Len(out) + 1] = m
  BY LongerPlaces DEF Longer
<1>2. \A j \in 1 .. Len(in) : ~ ReturnTo(in[j], f)
  BY <1>1 DEF SlotOK, AskOK
<1>3. m.t \notin {"finish", "release"}
  BY DEF AskFor
<1>4. ASSUME NEW q \in QuestionIds PROVE HeldOK(qs2[q], ans[q], out2, in, q)
  <2>1. HeldOK(qs[q], ans[q], out, in, q)
    BY DEF Books
  <2>2. CASE q = f
    <3>1. HeldOK(None, ans[f], out, in, f)
      BY <2>1, <2>2
    <3>2. HeldOK(qs2[f], ans[f], out2, in, f)
      BY <3>1, HeldAsked
    <3> QED
      BY <2>2, <3>2
  <2>3. CASE q # f
    <3>1. ~ FinishOf(m, q)
      BY <1>3 DEF FinishOf
    <3>2. HeldOK(qs[q], ans[q], out2, in, q)
      BY <2>1, <3>1, HeldSentOut
    <3> QED
      BY <2>3, <3>2
  <2> QED
    BY <2>2, <2>3
<1>5. ASSUME NEW e \in ExportIds PROVE Ledger(xs[e], ims[e], qs2, ans, out2, in, e)
  <2>1. Ledger(xs[e], ims[e], qs, ans, out, in, e)
    BY DEF Books
  <2>2. ~ Gives(m, e) /\ ~ Settles(m, ans, e)
    BY <1>3 DEF Gives, Settles
  <2>3. Ledger(xs[e], ims[e], qs, ans, out2, in, e)
    BY <2>1, <2>2, LedgerSentOut
  <2>4. \A i \in 1 .. Len(in) : Imports(in[i], qs2, e) <=> Imports(in[i], qs, e)
    BY <1>2, ImportsSame
  <2> QED
    BY <2>3, <2>4, LedgerQuestions
<1> QED
  BY <1>4, <1>5 DEF Books

\* QuestionRef::drop: the peer drops the question f before its Return has come.
LEMMA BooksCanceled ==
    ASSUME NEW xs, NEW ims \in [ExportIds -> Nat \cup {None}], NEW qs, NEW ans, NEW n,
           NEW out \in Seq(Message), NEW in \in Seq(Message),
           Books(xs, ims, qs, ans, out, in),
           NEW out2 \in Seq(Message), NEW m \in Message, Longer(out, out2, m),
           NEW f \in QuestionIds, NEW qs2,
           \A q \in QuestionIds : q # f => qs2[q] = qs[q],
           SlotOK(qs[f], ans[f], n, out, in, f),
           qs[f] # None, qs[f].ref, qs[f].awaiting,
           qs2[f] # None, qs2[f].call = qs[f].call, ~ qs2[f].ref,
           FinishOf(m, f), m.call = qs[f].call, m.release
    PROVE  Books(xs, ims, qs2, ans, out2, in)
<1>1. ASSUME NEW q \in QuestionIds PROVE HeldOK(qs2[q], ans[q], out2, in, q)
  <2>1. HeldOK(qs[q], ans[q], out, in, q)
    BY DEF Books
  <2>2. CASE q = f
    <3>1. HeldOK(qs[f], ans[f], out, in, f)
      BY <2>1, <2>2
    <3>2. HeldOK(qs2[f], ans[f], out2, in, f)
      BY <3>1, HeldDropped
    <3> QED
      BY <2>2, <3>2
  <2>3. CASE q # f
    <3>1. ~ FinishOf(m, q)
      BY <2>3 DEF FinishOf
    <3>2. HeldOK(qs[q], ans[q], out2, in, q)
      BY <2>1, <3>1, HeldSentOut
    <3> QED
      BY <2>3, <3>2
  <2> QED
    BY <2>2, <2>3
<1>2. ASSUME NEW e \in ExportIds PROVE Ledger(xs[e], ims[e], qs2, ans, out2, in, e)
  <2>1. Ledger(xs[e], ims[e], qs, ans, out, in, e) /\ HeldOK(qs[f], ans[f], out, in, f)
    BY DEF Books
  <2>2. ~ Gives(m, e) /\ e # None
    <3>1. ~ Gives(m, e)
      BY DEF Gives, FinishOf
    <3> QED
      BY <3>1, NoneFacts DEF ExportIds
  <2> DEFINE Brings(i) == ReturnTo(in[i], f) /\ in[i].cap = [kind |-> "senderHosted", id |-> e]
  <2>3. \A i \in 1 .. Len(in) :
            /\ ~ Brings(i) => (Imports(in[i], qs2, e) <=> Imports(in[i], qs, e))
            /\ Brings(i) => Imports(in[i], qs, e) /\ ~ Imports(in[i], qs2, e)
    <3> SUFFICES ASSUME NEW i \in 1 .. Len(in)
                 PROVE  /\ ~ Brings(i) => (Imports(in[i], qs2, e) <=> Imports(in[i], qs, e))
                        /\ Brings(i) => Imports(in[i], qs, e) /\ ~ Imports(in[i], qs2, e)
      OBVIOUS
    <3>1. in[i] \in Message
      OBVIOUS
    <3>2. in[i].t = "return" => in[i].q \in QuestionIds
      BY <3>1 DEF Message
    <3> QED
      BY <3>2 DEF Imports, ReturnTo
  <2>4. CASE \E i \in 1 .. Len(in) : Brings(i)
    <3>1. PICK p \in 1 .. Len(in) : Brings(p)
      BY <2>4
    <3>2. /\ \A i \in 1 .. Len(in) : ReturnTo(in[i], f) => i = p
          /\ in[p].call = qs[f].call
      BY <3>1 DEF SlotOK, ReturnOK, About
    <3>3. /\ ans[f] # None /\ ans[f].call = in[p].call /\ ans[f].exp = e
      BY <2>1, <3>1 DEF HeldOK
    <3>4. Settles(m, ans, e)
      BY <3>2, <3>3 DEF Settles, FinishOf
    <3>5. /\ Imports(in[p], qs, e) /\ ~ Imports(in[p], qs2, e)
          /\ \A i \in 1 .. Len(in) :
                i # p => (Imports(in[i], qs2, e) <=> Imports(in[i], qs, e))
      BY <2>3, <3>1, <3>2
    <3>6. Held(ims[e]) \in Nat
      BY HeldNumber
    <3> QED
      BY <2>1, <3>4, <3>5, <3>6, LedgerCanceled
  <2>5. CASE ~ \E i \in 1 .. Len(in) : Brings(i)
    <3>1. ~ Settles(m, ans, e)
      <4> SUFFICES ASSUME Settles(m, ans, e) PROVE FALSE
        OBVIOUS
      <4>1. ans[f] # None /\ About(ans[f], qs[f]) /\ ans[f].exp = e
        BY DEF Settles, FinishOf, About
      <4> QED
        BY <2>1, <2>2, <2>5, <4>1 DEF HeldOK
    <3>2. Ledger(xs[e], ims[e], qs, ans, out2, in, e)
      BY <2>1, <2>2, <3>1, LedgerSentOut
    <3>3. \A i \in 1 .. Len(in) : Imports(in[i], qs2, e) <=> Imports(in[i], qs, e)
      BY <2>3, <2>5
    <3> QED
      BY <3>2, <3>3, LedgerQuestions
  <2> QED
    BY <2>4, <2>5
<1> QED
  BY <1>1, <1>2 DEF Books

\* The question f is forgotten, no Return to it being on its way.
LEMMA BooksForgotten ==
    ASSUME NEW xs, NEW ims, NEW qs, NEW ans,
           NEW out \in Seq(Message), NEW in \in Seq(Message),
           Books(xs, ims, qs, ans, out, in),
           NEW f \in QuestionIds, NEW qs2, qs2[f] = None,
           \A q \in QuestionIds : q # f => qs2[q] = qs[q],
           \A i \in 1 .. Len(in) : ~ ReturnTo(in[i], f)
    PROVE  Books(xs, ims, qs2, ans, out, in)
<1>1. ASSUME NEW q \in QuestionIds PROVE HeldOK(qs2[q], ans[q], out, in, q)
  <2>1. HeldOK(qs[q], ans[q], out, in, q)
    BY DEF Books
  <2>2. CASE q = f
    <3>1. HeldOK(None, ans[f], out, in, f)
      BY <2>1, <2>2 DEF HeldOK, About
    <3> QED
      BY <2>2, <3>1
  <2> QED
    BY <2>1, <2>2
<1>2. ASSUME NEW e \in ExportIds PROVE Ledger(xs[e], ims[e], qs2, ans, out, in, e)
  <2>1. Ledger(xs[e], ims[e], qs, ans, out, in, e)
    BY DEF Books
  <2>2. \A i \in 1 .. Len(in) : Imports(in[i], qs2, e) <=> Imports(in[i], qs, e)
    BY ImportsSame
  <2> QED
    BY <2>1, <2>2, LedgerQuestions
<1> QED
  BY <1>1, <1>2 DEF Books

\* QuestionRef::drop after the Return: the Finish releases nothing.
LEMMA BooksFinishSent ==
    ASSUME NEW xs, NEW ims, NEW qs, NEW ans,
           NEW out \in Seq(Message), NEW in \in Seq(Message),
           Books(xs, ims, qs, ans, out, in),
           NEW out2 \in Seq(Message), NEW m \in Message, Longer(out, out2, m),
           NEW f \in QuestionIds, FinishOf(m, f), ~ m.release, qs[f] = None
    PROVE  Books(xs, ims, qs, ans, out2, in)
<1>1. ASSUME NEW q \in QuestionIds PROVE HeldOK(qs[q], ans[q], out2, in, q)
  <2>1. HeldOK(qs[q], ans[q], out, in, q)
    BY DEF Books
  <2>2. CASE q = f
    BY <2>1, <2>2 DEF HeldOK, About
  <2>3. CASE q # f
    <3>1. ~ FinishOf(m, q)
      BY <2>3 DEF FinishOf
    <3> QED
      BY <2>1, <3>1, HeldSentOut
  <2> QED
    BY <2>2, <2>3
<1>2. ASSUME NEW e \in ExportIds PROVE Ledger(xs[e], ims[e], qs, ans, out2, in, e)
  <2>1. ~ Gives(m, e) /\ ~ Settles(m, ans, e)
    BY DEF Gives, Settles, FinishOf
  <2>2. Ledger(xs[e], ims[e], qs, ans, out, in, e)
    BY DEF Books
  <2> QED
    BY <2>1, <2>2, LedgerSentOut
<1> QED
  BY <1>1, <1>2 DEF Books

\* The Return m turns the questions qs and the imports ims of its receiver
\* into qs2 and ims2: the capability of the results of a question that is
\* still held is imported.
Receives(m, f, qs, qs2, ims, ims2) ==
    /\ \A q \in QuestionIds : q # f => qs2[q] = qs[q]
    /\ qs[f] # None
    /\ qs2[f] = None \/ (qs2[f] # None /\ ~ qs2[f].awaiting)
    /\ qs[f].ref /\ m.which = "results" /\ m.cap.kind = "senderHosted" =>
        /\ Held(ims2[m.cap.id]) = Held(ims[m.cap.id]) + 1
        /\ \A e \in ExportIds : e # m.cap.id => ims2[e] = ims[e]
    /\ ~ (qs[f].ref /\ m.which = "results" /\ m.cap.kind = "senderHosted") => ims2 = ims

\* handle_message, Return: the peer handles the Return to f.
LEMMA BooksReceived ==
    ASSUME NEW xs, NEW ims \in [ExportIds -> Nat \cup {None}], NEW qs, NEW ans, NEW n,
           NEW out \in Seq(Message), NEW in \in Seq(Message),
           Books(xs, ims, qs, ans, out, in),
           NEW in2 \in Seq(Message), NEW m \in Message, Shorter(in, in2, m),
           NEW f \in QuestionIds, ReturnTo(m, f), NEW qs2, NEW ims2,
           SlotOK(qs2[f], ans[f], n, out, in2, f), Receives(m, f, qs, qs2, ims, ims2)
    PROVE  Books(xs, ims2, qs2, ans, out, in2)
<1> USE DEF Receives
<1>1. ASSUME NEW q \in QuestionIds PROVE HeldOK(qs2[q], ans[q], out, in2, q)
  <2>1. HeldOK(qs[q], ans[q], out, in, q)
    BY DEF Books
  <2>2. CASE q = f
    <3>1. HeldOK(qs[f], ans[f], out, in, f)
      BY <2>1, <2>2
    <3>2. HeldOK(qs2[f], ans[f], out, in2, f)
      BY <3>1, HeldReceived
    <3> QED
      BY <2>2, <3>2
  <2>3. CASE q # f
    <3>1. ~ ReturnTo(m, q)
      BY <2>3 DEF ReturnTo
    <3>2. HeldOK(qs[q], ans[q], out, in2, q)
      BY <2>1, <3>1, HeldTakenIn
    <3> QED
      BY <2>3, <3>2
  <2> QED
    BY <2>2, <2>3
<1>2. \A i \in 1 .. Len(in2) : ~ ReturnTo(in2[i], f)
  BY DEF SlotOK, ReturnOK, About
<1>3. 1 \in 1 .. Len(in) /\ in[1] = m /\ m.t = "return" /\ m.q = f
  BY ShorterPlaces DEF Shorter, ReturnTo
<1>4. ASSUME NEW e \in ExportIds PROVE Ledger(xs[e], ims2[e], qs2, ans, out, in2, e)
  <2>1. Ledger(xs[e], ims[e], qs, ans, out, in, e) /\ HeldOK(qs[f], ans[f], out, in, f)
    BY DEF Books
  <2>2. Ledger(xs[e], ims2[e], qs, ans, out, in2, e)
    <3>1. CASE Imports(m, qs, e)
      <4>1. /\ qs[f].ref /\ m.cap = [kind |-> "senderHosted", id |-> e]
        BY <1>3, <3>1 DEF Imports
      <4>2. m.cap.kind = "senderHosted" /\ m.cap.id = e
        BY <4>1
      <4>3. m.which = "results"
        BY <1>3, <2>1, <4>2 DEF HeldOK, ReturnTo
      <4>4. Held(ims2[e]) = Held(ims[e]) + 1
        BY <4>1, <4>2, <4>3
      <4>5. Held(ims[e]) \in Nat
        BY HeldNumber
      <4> QED
        BY <2>1, <3>1, <4>4, <4>5, LedgerImported
    <3>2. CASE ~ Imports(m, qs, e)
      <4>1. Ledger(xs[e], ims[e], qs, ans, out, in2, e)
        BY <2>1, <3>2, LedgerTakenIn
      <4>2. qs[f].ref /\ m.cap.kind = "senderHosted" => e # m.cap.id
        BY <1>3, <3>2, CapNamed DEF Imports
      <4>3. ims2[e] = ims[e]
        BY <4>2
      <4> QED
        BY <4>1, <4>3
    <3> QED
      BY <3>1, <3>2
  <2>3. \A i \in 1 .. Len(in2) : Imports(in2[i], qs2, e) <=> Imports(in2[i], qs, e)
    BY <1>2, ImportsSame
  <2> QED
    BY <2>2, <2>3, LedgerQuestions
<1> QED
  BY <1>1, <1>4 DEF Books

\* release_export: the host handles a Release.
LEMMA BooksReleased ==
    ASSUME NEW xs, NEW ims \in [ExportIds -> Nat \cup {None}], NEW qs, NEW ans,
           NEW out \in Seq(Message), NEW in \in Seq(Message),
           Books(xs, ims, qs, ans, out, in),
           NEW out2 \in Seq(Message), NEW m \in Message, Shorter(out, out2, m),
           m.t = "release", NEW xs2,
           RefsOf(xs2[m.id]) \in Nat, RefsOf(xs[m.id]) = RefsOf(xs2[m.id]) + m.n,
           \A e \in ExportIds : e # m.id => xs2[e] = xs[e]
    PROVE  Books(xs2, ims, qs, ans, out2, in)
<1>1. ASSUME NEW q \in QuestionIds PROVE HeldOK(qs[q], ans[q], out2, in, q)
  <2>1. HeldOK(qs[q], ans[q], out, in, q)
    BY DEF Books
  <2> QED
    BY <2>1, HeldTakenOut
<1>2. ASSUME NEW e \in ExportIds PROVE Ledger(xs2[e], ims[e], qs, ans, out2, in, e)
  <2>1. Ledger(xs[e], ims[e], qs, ans, out, in, e)
    BY DEF Books
  <2>2. Gives(m, e) <=> e = m.id
    BY DEF Gives
  <2>3. CASE e = m.id
    <3>1. Held(ims[e]) \in Nat
      BY HeldNumber
    <3>2. RefsOf(xs2[e]) \in Nat /\ RefsOf(xs[e]) = RefsOf(xs2[e]) + m.n
      BY <2>3
    <3> QED
      BY <2>1, <2>2, <2>3, <3>1, <3>2, LedgerReleased
  <2>4. CASE e # m.id
    <3>1. ~ Settles(m, ans, e)
      BY DEF Settles
    <3>2. Ledger(xs[e], ims[e], qs, ans, out2, in, e)
      BY <2>1, <2>2, <2>4, <3>1, LedgerTakenOut
    <3> QED
      BY <2>4, <3>2
  <2> QED
    BY <2>3, <2>4
<1> QED
  BY <1>1, <1>2 DEF Books

\* The answer b is a in all that references are about.
Alike(a, b) ==
    \/ b = a
    \/ /\ a # None /\ b # None
       /\ b.call = a.call /\ b.exp = a.exp /\ (Open(b) => Open(a))

\* Answers change in nothing that references are about.
LEMMA BooksSame ==
    ASSUME NEW xs, NEW ims, NEW qs, NEW ans,
           NEW out \in Seq(Message), NEW in \in Seq(Message),
           Books(xs, ims, qs, ans, out, in), NEW ans2,
           \A q \in QuestionIds : Alike(ans[q], ans2[q])
    PROVE  Books(xs, ims, qs, ans2, out, in)
<1>1. ASSUME NEW q \in QuestionIds PROVE HeldOK(qs[q], ans2[q], out, in, q)
  <2>1. HeldOK(qs[q], ans[q], out, in, q)
    BY DEF Books
  <2>2. CASE ans2[q] = ans[q]
    BY <2>1, <2>2
  <2>3. CASE ans2[q] # ans[q]
    BY <2>1, <2>3, HeldSame DEF Alike
  <2> QED
    BY <2>2, <2>3
<1>2. ASSUME NEW e \in ExportIds PROVE Ledger(xs[e], ims[e], qs, ans2, out, in, e)
  <2>1. Ledger(xs[e], ims[e], qs, ans, out, in, e)
    BY DEF Books
  <2>2. \A i \in 1 .. Len(out) : Settles(out[i], ans2, e) <=> Settles(out[i], ans, e)
    <3> SUFFICES ASSUME NEW i \in 1 .. Len(out)
                 PROVE  Settles(out[i], ans2, e) <=> Settles(out[i], ans, e)
      OBVIOUS
    <3>1. out[i] \in Message
      OBVIOUS
    <3>2. out[i].t = "finish" => out[i].q \in QuestionIds
      BY <3>1 DEF Message
    <3> QED
      BY <3>2 DEF Settles, Alike
  <2> QED
    BY <2>1, <2>2, LedgerAnswers
<1> QED
  BY <1>1, <1>2 DEF Books

\* The answer under f changes, and holds no results before or after.
LEMMA SettlesSame ==
    ASSUME NEW ans, NEW ans2, NEW out \in Seq(Message), NEW f \in QuestionIds,
           NEW e \in ExportIds,
           \A q \in QuestionIds : q # f => Alike(ans[q], ans2[q]),
           \A i \in 1 .. Len(out) :
                FinishOf(out[i], f) => ~ Settles(out[i], ans, e) /\ ~ Settles(out[i], ans2, e)
    PROVE  \A i \in 1 .. Len(out) : Settles(out[i], ans2, e) <=> Settles(out[i], ans, e)
<1> SUFFICES ASSUME NEW i \in 1 .. Len(out)
             PROVE  Settles(out[i], ans2, e) <=> Settles(out[i], ans, e)
  OBVIOUS
<1>1. out[i] \in Message
  OBVIOUS
<1>2. out[i].t = "finish" => out[i].q \in QuestionIds
  BY <1>1 DEF Message
<1>3. CASE FinishOf(out[i], f)
  BY <1>3
<1>4. CASE ~ FinishOf(out[i], f)
  <2>1. out[i].t = "finish" => Alike(ans[out[i].q], ans2[out[i].q])
    BY <1>2, <1>4 DEF FinishOf
  <2> QED
    BY <2>1 DEF Settles, Alike
<1> QED
  BY <1>3, <1>4

\* Results that are not there are not released.
LEMMA NoResults ==
    ASSUME NEW ans, NEW m, NEW f, NEW e \in ExportIds, FinishOf(m, f),
           ans[f] # None => ans[f].exp # e
    PROVE  ~ Settles(m, ans, e)
  BY DEF Settles, FinishOf

\* The host takes up a call under f.
LEMMA BooksEntered ==
    ASSUME NEW xs, NEW ims, NEW qs, NEW ans,
           NEW out \in Seq(Message), NEW in \in Seq(Message),
           Books(xs, ims, qs, ans, out, in),
           NEW f \in QuestionIds, NEW ans2, ans[f] = None, ans2[f] # None, ans2[f].exp = None,
           \A q \in QuestionIds : q # f => ans2[q] = ans[q],
           \A i \in 1 .. Len(in) : ~ ReturnTo(in[i], f)
    PROVE  Books(xs, ims, qs, ans2, out, in)
<1>1. ASSUME NEW q \in QuestionIds PROVE HeldOK(qs[q], ans2[q], out, in, q)
  <2>1. HeldOK(qs[q], ans[q], out, in, q)
    BY DEF Books
  <2>2. CASE q = f
    <3>1. HeldOK(qs[f], None, out, in, f)
      BY <2>1, <2>2
    <3>2. HeldOK(qs[f], ans2[f], out, in, f)
      BY <3>1, HeldTakenUp
    <3> QED
      BY <2>2, <3>2
  <2> QED
    BY <2>1, <2>2
<1>2. ASSUME NEW e \in ExportIds PROVE Ledger(xs[e], ims[e], qs, ans2, out, in, e)
  <2>1. Ledger(xs[e], ims[e], qs, ans, out, in, e)
    BY DEF Books
  <2>2. e # None
    BY NoneFacts DEF ExportIds
  <2>3. \A i \in 1 .. Len(out) :
            FinishOf(out[i], f) => ~ Settles(out[i], ans, e) /\ ~ Settles(out[i], ans2, e)
    BY <2>2, NoResults
  <2>4. \A q \in QuestionIds : q # f => Alike(ans[q], ans2[q])
    BY DEF Alike
  <2>5. \A i \in 1 .. Len(out) : Settles(out[i], ans2, e) <=> Settles(out[i], ans, e)
    BY <2>3, <2>4, SettlesSame
  <2> QED
    BY <2>1, <2>5, LedgerAnswers
<1> QED
  BY <1>1, <1>2 DEF Books

\* The Finish m turns the answers ans, and the exports xs, into ans2 and xs2:
\* the results of the answer it is about are released if it asks for it.
Finishes(m, f, ans, ans2, xs, xs2) ==
    /\ \A q \in QuestionIds : q # f => ans2[q] = ans[q]
    /\ ans[f] # None => ans[f].call = m.call
    /\ ans2[f] # None => ans2[f].exp = None
    /\ ans[f] # None /\ m.release /\ ans[f].exp # None =>
        /\ RefsOf(xs2[ans[f].exp]) \in Nat
        /\ RefsOf(xs[ans[f].exp]) = RefsOf(xs2[ans[f].exp]) + 1
        /\ \A e \in ExportIds : e # ans[f].exp => xs2[e] = xs[e]
    /\ ~ (ans[f] # None /\ m.release /\ ans[f].exp # None) => xs2 = xs

\* handle_finish: the host handles the Finish of f.
LEMMA BooksFinished ==
    ASSUME NEW xs, NEW ims \in [ExportIds -> Nat \cup {None}], NEW qs, NEW ans, NEW n,
           NEW out \in Seq(Message), NEW in \in Seq(Message),
           Books(xs, ims, qs, ans, out, in),
           NEW out2 \in Seq(Message), NEW m \in Message, Shorter(out, out2, m),
           NEW f \in QuestionIds, FinishOf(m, f), NEW ans2, NEW xs2,
           SlotOK(qs[f], ans[f], n, out, in, f), Finishes(m, f, ans, ans2, xs, xs2)
    PROVE  Books(xs2, ims, qs, ans2, out2, in)
<1> USE DEF Finishes
<1>1. ASSUME NEW q \in QuestionIds PROVE HeldOK(qs[q], ans2[q], out2, in, q)
  <2>1. HeldOK(qs[q], ans[q], out, in, q)
    BY DEF Books
  <2>2. CASE q = f
    <3>1. HeldOK(qs[f], ans[f], out, in, f)
      BY <2>1, <2>2
    <3>2. HeldOK(qs[f], ans2[f], out2, in, f)
      BY <3>1, HeldFinished
    <3> QED
      BY <2>2, <3>2
  <2>3. CASE q # f
    <3>1. HeldOK(qs[q], ans[q], out2, in, q)
      BY <2>1, HeldTakenOut
    <3> QED
      BY <2>3, <3>1
  <2> QED
    BY <2>2, <2>3
<1>2. /\ \A i \in 1 .. Len(out2) : i + 1 \in 1 .. Len(out) /\ out2[i] = out[i + 1] /\ i + 1 # 1
      /\ 1 \in 1 .. Len(out) /\ out[1] = m
  <2>1. /\ \A i \in 1 .. Len(out2) : i + 1 \in 1 .. Len(out) /\ out2[i] = out[i + 1]
        /\ 1 \in 1 .. Len(out) /\ out[1] = m
    BY ShorterPlaces DEF Shorter
  <2> QED
    BY <2>1
<1>3. \A i \in 1 .. Len(out2) : FinishOf(out2[i], f) => out2[i].call # m.call
  <2> SUFFICES ASSUME NEW i \in 1 .. Len(out2), FinishOf(out2[i], f), out2[i].call = m.call
               PROVE  FALSE
    OBVIOUS
  <2>1. i + 1 \in 1 .. Len(out) /\ FinishOf(out[i + 1], f) /\ out[i + 1].call = m.call /\ i + 1 # 1
    BY <1>2
  <2>2. About(out[i + 1], qs[f]) <=> About(out[1], qs[f])
    BY <1>2, <2>1 DEF About
  <2>3. \A j \in 1 .. Len(out) :
            FinishOf(out[j], f) /\ (About(out[j], qs[f]) <=> About(out[1], qs[f])) => j = 1
    BY <1>2 DEF SlotOK, FinishOK
  <2> QED
    BY <2>1, <2>2, <2>3
<1>4. ASSUME NEW e \in ExportIds PROVE Ledger(xs2[e], ims[e], qs, ans2, out2, in, e)
  <2>1. Ledger(xs[e], ims[e], qs, ans, out, in, e)
    BY DEF Books
  <2>2. e # None
    BY NoneFacts DEF ExportIds
  <2>3. Settles(m, ans, e) <=> ans[f] # None /\ m.release /\ ans[f].exp = e
    BY DEF Settles, FinishOf
  <2>4. ~ Gives(m, e)
    BY DEF Gives, FinishOf
  <2>5. Ledger(xs2[e], ims[e], qs, ans, out2, in, e)
    <3>1. CASE Settles(m, ans, e)
      <4>1. RefsOf(xs2[e]) \in Nat /\ RefsOf(xs[e]) = RefsOf(xs2[e]) + 1
        BY <2>2, <2>3, <3>1
      <4>2. Held(ims[e]) \in Nat
        BY HeldNumber
      <4> QED
        BY <2>1, <3>1, <4>1, <4>2, LedgerSettled
    <3>2. CASE ~ Settles(m, ans, e)
      <4>1. Ledger(xs[e], ims[e], qs, ans, out2, in, e)
        BY <2>1, <2>4, <3>2, LedgerTakenOut
      <4>2. xs2[e] = xs[e]
        BY <2>3, <3>2
      <4> QED
        BY <4>1, <4>2
    <3> QED
      BY <3>1, <3>2
  <2>6. ASSUME NEW i \in 1 .. Len(out2), FinishOf(out2[i], f)
        PROVE  ~ Settles(out2[i], ans, e) /\ ~ Settles(out2[i], ans2, e)
    <3>1. ~ Settles(out2[i], ans2, e)
      BY <2>2, <2>6, NoResults
    <3>2. ~ Settles(out2[i], ans, e)
      BY <1>3, <2>6 DEF Settles, FinishOf
    <3> QED
      BY <3>1, <3>2
  <2>7. \A q \in QuestionIds : q # f => Alike(ans[q], ans2[q])
    BY DEF Alike
  <2>8. \A i \in 1 .. Len(out2) : Settles(out2[i], ans2, e) <=> Settles(out2[i], ans, e)
    BY <2>6, <2>7, SettlesSame
  <2> QED
    BY <2>5, <2>8, LedgerAnswers
<1> QED
  BY <1>1, <1>4 DEF Books

\* The Return m turns the answers ans, and the exports xs, into ans2 and xs2:
\* the answer under f had no results, and keeps the capability m gives.
Returns(m, f, ans, ans2, xs, xs2) ==
    /\ \A q \in QuestionIds : q # f => Alike(ans[q], ans2[q])
    /\ ans[f] # None => ans[f].exp = None
    /\ ans2[f] # None => ~ Open(ans2[f])
    /\ m.which # "results" => m.cap.kind # "senderHosted"
    /\ m.cap.kind = "senderHosted" =>
        /\ ans2[f] # None /\ ans2[f].call = m.call /\ ans2[f].exp = m.cap.id
        /\ RefsOf(xs2[m.cap.id]) = RefsOf(xs[m.cap.id]) + 1
        /\ \A e \in ExportIds : e # m.cap.id => xs2[e] = xs[e]
    /\ m.cap.kind # "senderHosted" =>
        /\ xs2 = xs
        /\ ans2[f] # None => ans2[f].exp = None

\* The host returns the call under f: a capability of its own is imported by
\* the peer or, if the peer has dropped the call, released by the Finish that
\* is on its way.
LEMMA BooksReturned ==
    ASSUME NEW xs, NEW ims \in [ExportIds -> Nat \cup {None}], NEW qs, NEW ans, NEW n,
           NEW out \in Seq(Message), NEW in \in Seq(Message),
           Books(xs, ims, qs, ans, out, in),
           NEW in2 \in Seq(Message), NEW m \in Message, Longer(in, in2, m),
           NEW f \in QuestionIds, ReturnTo(m, f), NEW ans2,
           SlotOK(qs[f], ans2[f], n, out, in2, f),
           NEW xs2, Returns(m, f, ans, ans2, xs, xs2)
    PROVE  Books(xs2, ims, qs, ans2, out, in2)
<1> USE DEF Returns
<1>1. /\ \A i \in 1 .. Len(in) : i \in 1 .. Len(in2) /\ in2[i] = in[i] /\ i # Len(in) + 1
      /\ Len(in) + 1 \in 1 .. Len(in2) /\ in2[Len(in) + 1] = m
  <2>1. /\ \A i \in 1 .. Len(in) : i \in 1 .. Len(in2) /\ in2[i] = in[i] /\ i < Len(in) + 1
        /\ Len(in) + 1 \in 1 .. Len(in2) /\ in2[Len(in) + 1] = m
    BY LongerPlaces DEF Longer
  <2> QED
    BY <2>1
<1>2. /\ About(m, qs[f]) /\ qs[f].awaiting
      /\ \A j \in 1 .. Len(in2) : ReturnTo(in2[j], f) => j = Len(in) + 1
  BY <1>1 DEF SlotOK, ReturnOK
<1>3. \A i \in 1 .. Len(in) : ~ ReturnTo(in[i], f)
  BY <1>1, <1>2
<1>4. \A i \in 1 .. Len(out) : ~ AskFor(out[i], f)
  BY <1>1 DEF SlotOK, AskOK
<1>5. \A i \in 1 .. Len(out) : FinishOf(out[i], f) =>
        /\ About(out[i], qs[f]) /\ out[i].call = m.call /\ ~ qs[f].ref
        /\ \A j \in 1 .. Len(out) : FinishOf(out[j], f) => j = i
  <2>1. \A i \in 1 .. Len(out) : FinishOf(out[i], f) => About(out[i], qs[f])
    BY <1>2, <1>4 DEF SlotOK, FinishOK, About
  <2>2. \A i \in 1 .. Len(out) : FinishOf(out[i], f) =>
            /\ ~ qs[f].ref
            /\ \A j \in 1 .. Len(out) : FinishOf(out[j], f) => j = i
    BY <2>1 DEF SlotOK, FinishOK
  <2> QED
    BY <1>2, <2>1, <2>2 DEF About
<1>6. m.t = "return" /\ m.q = f
  BY DEF ReturnTo
<1>7. ASSUME NEW q \in QuestionIds PROVE HeldOK(qs[q], ans2[q], out, in2, q)
  <2>1. HeldOK(qs[q], ans[q], out, in, q)
    BY DEF Books
  <2>2. CASE q = f
    <3>1. HeldOK(qs[f], ans[f], out, in, f)
      BY <2>1, <2>2
    <3>2. m.cap.kind = "senderHosted" => m.cap = [kind |-> "senderHosted", id |-> ans2[f].exp]
      BY <1>6, CapNamed
    <3>3. HeldOK(qs[f], ans2[f], out, in2, f)
      BY <1>3, <3>1, <3>2, HeldReturned
    <3> QED
      BY <2>2, <3>3
  <2>3. CASE q # f
    <3>1. ~ ReturnTo(m, q)
      BY <2>3 DEF ReturnTo
    <3>2. HeldOK(qs[q], ans[q], out, in2, q)
      BY <2>1, <3>1, HeldSentIn
    <3>3. Alike(ans[q], ans2[q])
      BY <2>3
    <3>4. CASE ans2[q] = ans[q]
      BY <3>2, <3>4
    <3>5. CASE ans2[q] # ans[q]
      BY <3>2, <3>3, <3>5, HeldSame DEF Alike
    <3> QED
      BY <3>4, <3>5
  <2> QED
    BY <2>2, <2>3
<1>8. ASSUME NEW e \in ExportIds PROVE Ledger(xs2[e], ims[e], qs, ans2, out, in2, e)
  <2>1. Ledger(xs[e], ims[e], qs, ans, out, in, e) /\ HeldOK(qs[f], ans[f], out, in, f)
    BY DEF Books
  <2>2. e # None /\ Held(ims[e]) \in Nat
    <3>1. Held(ims[e]) \in Nat
      BY HeldNumber
    <3> QED
      BY <3>1, NoneFacts DEF ExportIds
  <2>3. \A i \in 1 .. Len(out) : FinishOf(out[i], f) => ~ Settles(out[i], ans, e)
    BY <2>2, NoResults
  <2>4. Imports(m, qs, e) <=> m.cap.kind = "senderHosted" /\ m.cap.id = e /\ qs[f].ref
    BY <1>2, <1>6, CapNamed DEF Imports, About
  <2>5. CASE m.cap.kind = "senderHosted" /\ m.cap.id = e /\ ~ qs[f].ref
    <3>1. ans2[f] # None /\ ans2[f].call = m.call /\ ans2[f].exp = e
      BY <2>5
    <3>2. About(ans2[f], qs[f]) /\ ~ Open(ans2[f])
      BY <1>2, <3>1 DEF About
    <3>3. PICK p \in 1 .. Len(out) : FinishOf(out[p], f)
      BY <1>2, <2>5, <3>1, <3>2 DEF SlotOK, AnswerOK
    <3>4. out[p].release /\ out[p].call = m.call
      BY <1>5, <2>1, <3>3 DEF HeldOK
    <3>5. Settles(out[p], ans2, e) /\ ~ Settles(out[p], ans, e)
      BY <2>3, <3>1, <3>3, <3>4 DEF Settles, FinishOf
    <3>6. ASSUME NEW i \in 1 .. Len(out), i # p
          PROVE  Settles(out[i], ans2, e) <=> Settles(out[i], ans, e)
      <4>1. ~ FinishOf(out[i], f)
        BY <1>5, <3>3, <3>6
      <4>2. out[i] \in Message
        OBVIOUS
      <4>3. out[i].t = "finish" => out[i].q \in QuestionIds /\ out[i].q # f
        BY <4>1, <4>2 DEF Message, FinishOf
      <4> QED
        BY <4>3 DEF Settles, Alike
    <3>7. RefsOf(xs2[e]) = RefsOf(xs[e]) + 1
      BY <2>5
    <3>8. Ledger(xs2[e], ims[e], qs, ans2, out, in, e)
      BY <2>1, <2>2, <3>5, <3>6, <3>7, LedgerUnwanted
    <3> QED
      BY <2>4, <2>5, <3>8, LedgerSentIn
  <2>6. CASE ~ (m.cap.kind = "senderHosted" /\ m.cap.id = e /\ ~ qs[f].ref)
    <3>1. ASSUME NEW i \in 1 .. Len(out), FinishOf(out[i], f)
          PROVE  ~ Settles(out[i], ans, e) /\ ~ Settles(out[i], ans2, e)
      <4>1. ~ qs[f].ref
        BY <1>5, <3>1
      <4>2. ans2[f] # None => ans2[f].exp # e
        BY <2>2, <2>6, <4>1
      <4>3. ~ Settles(out[i], ans2, e)
        BY <3>1, <4>2, NoResults
      <4> QED
        BY <2>3, <3>1, <4>3
    <3>2. \A i \in 1 .. Len(out) : Settles(out[i], ans2, e) <=> Settles(out[i], ans, e)
      BY <3>1, SettlesSame
    <3>3. Ledger(xs[e], ims[e], qs, ans2, out, in, e)
      BY <2>1, <3>2, LedgerAnswers
    <3>4. CASE Imports(m, qs, e)
      <4>1. RefsOf(xs2[e]) = RefsOf(xs[e]) + 1
        BY <2>4, <3>4
      <4> QED
        BY <2>2, <3>3, <3>4, <4>1, LedgerExported
    <3>5. CASE ~ Imports(m, qs, e)
      <4>1. xs2[e] = xs[e]
        BY <2>4, <2>6, <3>5
      <4>2. Ledger(xs[e], ims[e], qs, ans2, out, in2, e)
        BY <3>3, <3>5, LedgerSentIn
      <4> QED
        BY <4>1, <4>2
    <3> QED
      BY <3>4, <3>5
  <2> QED
    BY <2>5, <2>6
<1> QED
  BY <1>7, <1>8 DEF Books

-----------------------------------------------------------------------------
(* What the helpers do to the counts *)

\* write_descriptor adds one reference to the export it names.
LEMMA WriteDescriptorCounts ==
    ASSUME TypeOK, NEW v \in Vats, NEW arg \in Argument, RoomToExport(v, arg),
           ExportsMatch(v)
    PROVE  LET w == WriteDescriptor(v, arg)
           IN  /\ ~ w.panic /\ w.desc \in Descriptor
               /\ w.desc.kind = "senderHosted" <=> arg.kind = "local"
               /\ arg.kind = "local" =>
                    /\ RefsOf(w.exports[w.desc.id]) = RefsOf(exports[v][w.desc.id]) + 1
                    /\ \A e \in ExportIds : e # w.desc.id => w.exports[e] = exports[v][e]
               /\ arg.kind # "local" => w.exports = exports[v]
<1> DEFINE w == WriteDescriptor(v, arg)
<1>1. ~ w.panic /\ w.desc \in Descriptor
  BY WriteDescriptorMatches, WriteDescriptorType
<1>2. CASE arg.kind = "none"
  <2>1. w.desc.kind = "none" /\ w.exports = exports[v]
    BY <1>2 DEF WriteDescriptor
  <2> QED
    BY <1>1, <1>2, <2>1
<1>3. CASE arg.kind = "import"
  <2>1. w.desc.kind = "receiverHosted" /\ w.exports = exports[v]
    BY <1>3 DEF WriteDescriptor
  <2> QED
    BY <1>1, <1>3, <2>1
<1>4. CASE arg.kind = "local"
  <2>0. arg.id \in Caps /\ exports[v] \in [ExportIds -> Export \cup {None}]
    BY <1>4 DEF Argument, TypeOK
  <2>1. CASE exportsByCap[v][arg.id] # None
    <3> DEFINE s == exportsByCap[v][arg.id]
               x == exports[v][s]
               y == [x EXCEPT !.refcount = @ + 1]
    <3>1. s \in ExportIds /\ x # None
      BY <2>0, <2>1 DEF TypeOK, ExportsMatch
    <3>2. x \in Export
      BY <2>0, <3>1
    <3>3. /\ w.desc = [kind |-> "senderHosted", id |-> s]
          /\ w.exports = [exports[v] EXCEPT ![s] = y]
      BY <1>4, <2>1, <3>1 DEF WriteDescriptor
    <3> HIDE DEF w
    <3>4. w.desc.kind = "senderHosted" /\ w.desc.id = s
      BY <3>3
    <3>5. RefsOf(y) = RefsOf(x) + 1
      <4> HIDE DEF x
      <4>1. y \in Export /\ y.refcount = x.refcount + 1
        BY <3>2 DEF Export
      <4> HIDE DEF y
      <4> QED
        BY <3>2, <4>1, NoneFacts DEF RefsOf
    <3> HIDE DEF y
    <3>6. w.exports[s] = y /\ \A e \in ExportIds : e # s => w.exports[e] = exports[v][e]
      BY <2>0, <3>1, <3>3
    <3> QED
      BY <1>1, <1>4, <3>4, <3>5, <3>6 DEF w
  <2>2. CASE exportsByCap[v][arg.id] = None
    <3> DEFINE s == FreeId(exports[v])
               y == [refcount |-> 1, cap |-> arg.id]
    <3>1. s \in ExportIds /\ exports[v][s] = None
      BY <1>4, <2>2, FreeExportId DEF RoomToExport
    <3>2. y \in Export /\ y.refcount = 1
      BY <2>0 DEF Export
    <3>3. /\ w.desc = [kind |-> "senderHosted", id |-> s]
          /\ w.exports = [exports[v] EXCEPT ![s] = y]
      BY <1>4, <2>2 DEF WriteDescriptor
    <3> HIDE DEF w
    <3>4. w.desc.kind = "senderHosted" /\ w.desc.id = s
      BY <3>3
    <3> HIDE DEF y, s
    <3>5. RefsOf(y) = RefsOf(exports[v][s]) + 1
      BY <3>1, <3>2, NoneFacts DEF RefsOf
    <3>6. w.exports[s] = y /\ \A e \in ExportIds : e # s => w.exports[e] = exports[v][e]
      BY <2>0, <3>1, <3>3
    <3> QED
      BY <1>1, <1>4, <3>4, <3>5, <3>6 DEF w
  <2> QED
    BY <2>1, <2>2
<1> QED
  BY <1>2, <1>3, <1>4 DEF Argument

\* release_export takes n references from an export.
LEMMA ReleaseCounts ==
    ASSUME TypeOK, NEW v \in Vats, NEW id \in ExportIds, NEW n \in Nat,
           MayRelease(v, id, n), Release(v, id, n)
    PROVE  /\ RefsOf(exports'[v][id]) \in Nat
           /\ RefsOf(exports[v][id]) = RefsOf(exports'[v][id]) + n
           /\ \A e \in ExportIds : e # id => exports'[v][e] = exports[v][e]
<1> DEFINE x == exports[v][id]
           y == Lowered(x, n)
<1>1. x \in Export /\ x # None /\ n <= x.refcount
  BY DEF TypeOK, MayRelease
<1>2. x.refcount \in Nat
  BY <1>1 DEF Export
<1>3. RefsOf(x) = x.refcount
  BY <1>1 DEF RefsOf
<1>4. CASE x.refcount = n
  <2>1. exports' = [exports EXCEPT ![v][id] = None]
    BY <1>4 DEF Release
  <2>2. exports'[v][id] = None /\ \A e \in ExportIds : e # id => exports'[v][e] = exports[v][e]
    BY <2>1 DEF TypeOK
  <2>3. RefsOf(None) = 0
    BY DEF RefsOf
  <2> QED
    BY <1>2, <1>3, <1>4, <2>2, <2>3
<1>5. CASE x.refcount # n
  <2>1. exports' = [exports EXCEPT ![v][id] = y]
    BY <1>5 DEF Release
  <2>2. y \in Export /\ y.refcount = x.refcount - n
    <3> HIDE DEF x
    <3> QED
      BY <1>1, <1>2, <1>5 DEF Lowered, Export
  <2> HIDE DEF y
  <2>3. RefsOf(y) = x.refcount - n
    BY <2>2, NoneFacts DEF RefsOf
  <2>4. exports'[v][id] = y /\ \A e \in ExportIds : e # id => exports'[v][e] = exports[v][e]
    BY <2>1 DEF TypeOK
  <2>5. RefsOf(y) \in Nat /\ RefsOf(x) = RefsOf(y) + n
    <3> DEFINE c == x.refcount
    <3>1. c \in Nat /\ n <= c /\ RefsOf(x) = c /\ RefsOf(y) = c - n
      BY <1>1, <1>2, <1>3, <2>3
    <3> HIDE DEF c, x
    <3> QED
      BY <3>1
  <2> QED
    BY <2>4, <2>5
<1> QED
  BY <1>4, <1>5

\* receive_cap adds one reference to an import.
LEMMA ReceiveCapCounts ==
    ASSUME TypeOK, NEW v \in Vats, NEW desc \in Descriptor
    PROVE  /\ desc.kind = "senderHosted" =>
                /\ Held(ReceiveCap(v, desc)[v][desc.id]) = Held(imports[v][desc.id]) + 1
                /\ \A e \in ExportIds : e # desc.id =>
                        ReceiveCap(v, desc)[v][e] = imports[v][e]
           /\ desc.kind # "senderHosted" => ReceiveCap(v, desc) = imports
           /\ ReceiveCap(v, desc)[Peer(v)] = imports[Peer(v)]
<1>1. desc.id \in ExportIds /\ Peer(v) # v /\ Peer(v) \in Vats
  BY PeerType DEF Descriptor
<1>2. CASE desc.kind # "senderHosted"
  BY <1>2 DEF ReceiveCap
<1>3. CASE desc.kind = "senderHosted"
  <2> DEFINE i == imports[v][desc.id]
             j == IF i = None THEN 1 ELSE i + 1
  <2>1. ReceiveCap(v, desc) = [imports EXCEPT ![v][desc.id] = j]
    BY <1>3 DEF ReceiveCap
  <2>2. i \in Nat \cup {None}
    BY <1>1 DEF TypeOK
  <2>3. Held(j) = Held(i) + 1
    <3> HIDE DEF i
    <3> QED
      BY <2>2, NoneFacts DEF Held
  <2> HIDE DEF j
  <2>4. /\ ReceiveCap(v, desc)[v][desc.id] = j
        /\ \A e \in ExportIds : e # desc.id => ReceiveCap(v, desc)[v][e] = imports[v][e]
        /\ ReceiveCap(v, desc)[Peer(v)] = imports[Peer(v)]
    BY <1>1, <2>1 DEF TypeOK
  <2> QED
    BY <1>3, <2>3, <2>4
<1> QED
  BY <1>2, <1>3

-----------------------------------------------------------------------------
(* The actions *)

\* The books of v as the host, and of its peer.
LEMMA BothBooks ==
    ASSUME RefsInv, BothConnected, NEW v \in Vats
    PROVE  /\ Books(exports[v], imports[Peer(v)], questions[Peer(v)], answers[v],
                    chan[Peer(v)], chan[v])
           /\ Books(exports[Peer(v)], imports[v], questions[v], answers[Peer(v)],
                    chan[v], chan[Peer(v)])
           /\ imports[v] \in [ExportIds -> Nat \cup {None}]
           /\ imports[Peer(v)] \in [ExportIds -> Nat \cup {None}]
           /\ IdsInv /\ TypeOK /\ ExportsMatch(v)
           /\ Peer(v) \in Vats /\ Peer(v) # v
           /\ chan[v] \in Seq(Message) /\ chan[Peer(v)] \in Seq(Message)
<1>1. /\ IdsInv /\ TypeOK /\ Peer(v) \in Vats /\ Peer(v) # v /\ Peer(Peer(v)) = v
      /\ chan[v] \in Seq(Message) /\ chan[Peer(v)] \in Seq(Message)
      /\ connected[v]
  BY Together DEF RefsInv
<1>2. BooksOf(v) /\ BooksOf(Peer(v))
  BY <1>1 DEF RefsInv, RefsKept
<1>3. /\ imports[v] \in [ExportIds -> Nat \cup {None}]
      /\ imports[Peer(v)] \in [ExportIds -> Nat \cup {None}]
  BY <1>1 DEF TypeOK
<1>4. ExportsMatch(v)
  BY <1>1 DEF RefsInv, ExportInv, ExportsByCapExact
<1> QED
  BY <1>1, <1>2, <1>3, <1>4 DEF BooksOf

\* It is enough to keep both.
LEMMA KeptByBooks ==
    ASSUME NEW v \in Vats,
           Books(exports'[v], imports'[Peer(v)], questions'[Peer(v)], answers'[v],
                 chan'[Peer(v)], chan'[v]),
           Books(exports'[Peer(v)], imports'[v], questions'[v], answers'[Peer(v)],
                 chan'[v], chan'[Peer(v)])
    PROVE  RefsKept'
<1>1. Peer(v) \in Vats /\ Peer(Peer(v)) = v /\ \A u \in Vats : u = v \/ u = Peer(v)
  BY DEF Vats, Peer
<1>2. BooksOf(v)' /\ BooksOf(Peer(v))'
  BY <1>1 DEF BooksOf
<1> QED
  BY <1>1, <1>2 DEF RefsKept

\* What is known of the ids after a step.
LEMMA SidesAfter ==
    ASSUME IdsInv', BothConnected', NEW v \in Vats
    PROVE  /\ chan'[v] \in Seq(Message) /\ chan'[Peer(v)] \in Seq(Message)
           /\ \A q \in QuestionIds :
                /\ SlotOK(questions'[v][q], answers'[Peer(v)][q], issued'[v],
                          chan'[v], chan'[Peer(v)], q)
                /\ SlotOK(questions'[Peer(v)][q], answers'[v][q], issued'[Peer(v)],
                          chan'[Peer(v)], chan'[v], q)
<1>1. Peer(v) \in Vats /\ Peer(Peer(v)) = v
  BY DEF Vats, Peer
<1>2. chan'[v] \in Seq(Message) /\ chan'[Peer(v)] \in Seq(Message)
  BY <1>1 DEF IdsInv, TypeOK
<1>3. \A q \in QuestionIds : Slot(v, q)' /\ Slot(Peer(v), q)'
  BY <1>1 DEF IdsInv
<1> QED
  BY <1>1, <1>2, <1>3 DEF Slot

\* A step that touches none of the state references are about.
LEMMA RefsUntouched ==
    ASSUME RefsInv, BothConnected,
           UNCHANGED <<exports, imports, questions, answers, chan>>
    PROVE  RefsKept'
<1>1. RefsKept
  BY DEF RefsInv
<1> QED
  BY <1>1 DEF RefsKept, BooksOf

\* A vat asks a question: the books of its peer.
LEMMA AskBooks ==
    ASSUME RefsInv, BothConnected, IdsInv', BothConnected', NEW v \in Vats,
           NEW m \in Message, chan' = Transmit(chan, v, m), MayAsk(v), Ask(v),
           m.t \in {"bootstrap", "call"}, m.q = FreeId(questions[v]),
           m.call = issued[v] + 1, UNCHANGED <<answers, imports>>
    PROVE  /\ Books(exports[Peer(v)], imports'[v], questions'[v], answers'[Peer(v)],
                    chan'[v], chan'[Peer(v)])
           /\ questions'[Peer(v)] = questions[Peer(v)]
           /\ Longer(chan[v], chan'[v], m) /\ chan'[Peer(v)] = chan[Peer(v)]
<1> DEFINE f == FreeId(questions[v])
<1>1. /\ Books(exports[Peer(v)], imports[v], questions[v], answers[Peer(v)],
               chan[v], chan[Peer(v)])
      /\ IdsInv /\ TypeOK /\ Peer(v) \in Vats /\ Peer(v) # v
      /\ chan[v] \in Seq(Message) /\ chan[Peer(v)] \in Seq(Message)
  BY BothBooks
<1>2. Longer(chan[v], chan'[v], m) /\ chan'[Peer(v)] = chan[Peer(v)]
  BY <1>1, Sent
<1>3. f \in QuestionIds /\ questions[v][f] = None
  <2>1. DOMAIN questions[v] = 0 .. MaxQuestions - 1
    BY <1>1 DEF TypeOK, QuestionIds
  <2> QED
    BY <2>1, FreeIdIsFree, BoundsAssumption DEF QuestionIds, MayAsk
<1>4. /\ questions'[v] = [questions[v] EXCEPT ![f] = NewQuestion(v)]
      /\ questions'[Peer(v)] = questions[Peer(v)]
  BY <1>1 DEF Ask, TypeOK
<1>5. /\ questions'[v][f] = NewQuestion(v)
      /\ \A q \in QuestionIds : q # f => questions'[v][q] = questions[v][q]
  BY <1>1, <1>3, <1>4 DEF TypeOK
<1>6. NewQuestion(v) # None /\ NewQuestion(v).ref /\ NewQuestion(v).call = issued[v] + 1
  <2>1. NewQuestion(v) \in Question
    BY <1>1 DEF NewQuestion, Question, TypeOK
  <2> QED
    BY <2>1, NoneFacts DEF NewQuestion
<1>7. AskFor(m, f)
  BY DEF AskFor
<1> HIDE DEF f
<1>8. /\ SlotOK(questions'[v][f], answers[Peer(v)][f], issued'[v], chan'[v], chan[Peer(v)], f)
      /\ chan'[v] \in Seq(Message)
  BY <1>2, <1>3, SidesAfter
<1>9. Books(exports[Peer(v)], imports[v], questions'[v], answers[Peer(v)],
            chan'[v], chan[Peer(v)])
  <2> DEFINE qs == questions[v]
             qs2 == questions'[v]
             out == chan[v]
             out2 == chan'[v]
             in == chan[Peer(v)]
             xs == exports[Peer(v)]
             ims == imports[v]
             ans == answers[Peer(v)]
             n == issued'[v]
  <2>1. Books(xs, ims, qs, ans, out, in)
    BY <1>1
  <2>2. out \in Seq(Message) /\ in \in Seq(Message) /\ out2 \in Seq(Message)
    BY <1>1, <1>8
  <2>3. Longer(out, out2, m)
    BY <1>2
  <2>4. qs[f] = None /\ \A q \in QuestionIds : q # f => qs2[q] = qs[q]
    BY <1>3, <1>5
  <2>5. qs2[f] # None /\ qs2[f].ref /\ m.call = qs2[f].call
    BY <1>5, <1>6
  <2>6. SlotOK(qs2[f], ans[f], n, out2, in, f)
    BY <1>8
  <2> HIDE DEF qs, qs2, out, out2, in, xs, ims, ans, n
  <2>7. Books(xs, ims, qs2, ans, out2, in)
    BY <1>3, <1>7, <2>1, <2>2, <2>3, <2>4, <2>5, <2>6, BooksAsked
  <2> QED
    BY <2>7 DEF qs, qs2, out, out2, in, xs, ims, ans, n
<1> QED
  BY <1>2, <1>4, <1>9

\* ConnectionState::bootstrap.
LEMMA BootstrapKeepsRefs ==
    ASSUME RefsInv, BothConnected, IdsInv', BothConnected', NEW v \in Vats, Bootstrap(v)
    PROVE  RefsKept'
<1> DEFINE m == [t |-> "bootstrap", q |-> FreeId(questions[v]),
                 call |-> issued[v] + 1]
<1>0. /\ IdsInv /\ connected[v] /\ TypeOK /\ issued[v] \in Nat
  BY Together DEF RefsInv
<1>1. /\ MayAsk(v) /\ Ask(v) /\ chan' = Transmit(chan, v, m)
      /\ UNCHANGED <<answers, imports, exports>>
  BY <1>0 DEF Bootstrap
<1>2. m \in Message
  <2>1. FreeId(questions[v]) \in QuestionIds /\ issued[v] + 1 \in Nat
    BY <1>0, <1>1, FreeQuestionId DEF MayAsk
  <2> QED
    BY <2>1 DEF Message
<1>3. /\ m.t = "bootstrap" /\ m.q = FreeId(questions[v]) /\ m.call = issued[v] + 1
      /\ GivesNone(m)
  BY DEF GivesNone
<1> HIDE DEF m
<1>4. /\ Books(exports[Peer(v)], imports'[v], questions'[v], answers'[Peer(v)],
               chan'[v], chan'[Peer(v)])
      /\ questions'[Peer(v)] = questions[Peer(v)]
      /\ Longer(chan[v], chan'[v], m) /\ chan'[Peer(v)] = chan[Peer(v)]
  BY <1>1, <1>2, <1>3, AskBooks
<1>5. /\ Books(exports[v], imports[Peer(v)], questions[Peer(v)], answers[v],
               chan[Peer(v)], chan[v])
      /\ chan[v] \in Seq(Message) /\ chan[Peer(v)] \in Seq(Message)
      /\ chan'[v] \in Seq(Message)
  BY BothBooks, SidesAfter
<1>6. Books(exports[v], imports[Peer(v)], questions[Peer(v)], answers[v],
            chan[Peer(v)], chan'[v])
  BY <1>2, <1>3, <1>4, <1>5, BooksTold
<1> QED
  BY <1>1, <1>4, <1>6, KeptByBooks

\* Request::send and send_internal.
LEMMA SendRequestKeepsRefs ==
    ASSUME RefsInv, BothConnected, IdsInv', BothConnected', NEW v \in Vats, SendRequest(v)
    PROVE  RefsKept'
<1> DEFINE arg == built[v].arg
           w == WriteDescriptor(v, arg)
           m == [t |-> "call", q |-> FreeId(questions[v]),
                 call |-> issued[v] + 1, target |-> built[v].target,
                 cap |-> w.desc]
<1>0. /\ IdsInv /\ TypeOK /\ issued[v] \in Nat
  BY Together DEF RefsInv
<1>1. /\ built[v].target \in Target /\ arg \in Argument
      /\ MayAsk(v) /\ RoomToExport(v, arg)
  BY <1>0 DEF SendRequest, TypeOK
<1>2. /\ Books(exports[v], imports[Peer(v)], questions[Peer(v)], answers[v],
               chan[Peer(v)], chan[v])
      /\ imports[Peer(v)] \in [ExportIds -> Nat \cup {None}]
      /\ ExportsMatch(v) /\ Peer(v) \in Vats /\ Peer(v) # v
      /\ chan[v] \in Seq(Message) /\ chan[Peer(v)] \in Seq(Message)
  BY BothBooks
<1>3. /\ ~ w.panic /\ w.desc \in Descriptor
      /\ w.desc.kind = "senderHosted" <=> arg.kind = "local"
      /\ arg.kind = "local" =>
            /\ RefsOf(w.exports[w.desc.id]) = RefsOf(exports[v][w.desc.id]) + 1
            /\ \A e \in ExportIds : e # w.desc.id => w.exports[e] = exports[v][e]
      /\ arg.kind # "local" => w.exports = exports[v]
  <2> HIDE DEF arg
  <2> QED
    BY <1>0, <1>1, <1>2, WriteDescriptorCounts
<1>4. /\ Ask(v) /\ chan' = Transmit(chan, v, m) /\ UNCHANGED <<answers, imports>>
      /\ exports' = [exports EXCEPT ![v] = w.exports]
  BY <1>3 DEF SendRequest
<1> HIDE DEF w
<1>5. m \in Message
  <2>1. FreeId(questions[v]) \in QuestionIds /\ issued[v] + 1 \in Nat
    BY <1>0, <1>1, FreeQuestionId DEF MayAsk
  <2> QED
    BY <1>1, <1>3, <2>1 DEF Message
<1>6. /\ m.t = "call" /\ m.q = FreeId(questions[v]) /\ m.call = issued[v] + 1
      /\ m.cap = w.desc
  OBVIOUS
<1> HIDE DEF m
<1>7. exports'[v] = w.exports /\ exports'[Peer(v)] = exports[Peer(v)]
  BY <1>0, <1>2, <1>4 DEF TypeOK
<1>8. /\ Books(exports[Peer(v)], imports'[v], questions'[v], answers'[Peer(v)],
               chan'[v], chan'[Peer(v)])
      /\ questions'[Peer(v)] = questions[Peer(v)]
      /\ Longer(chan[v], chan'[v], m) /\ chan'[Peer(v)] = chan[Peer(v)]
  BY <1>1, <1>4, <1>5, <1>6, AskBooks
<1>9. chan'[v] \in Seq(Message)
  BY SidesAfter
<1>10. Books(w.exports, imports[Peer(v)], questions[Peer(v)], answers[v],
             chan[Peer(v)], chan'[v])
  <2>1. CASE arg.kind = "local"
    <3>1. m.cap.kind = "senderHosted" /\ OneExport(exports[v], w.exports, m.cap.id)
      BY <1>3, <1>6, <2>1 DEF OneExport
    <3> QED
      BY <1>2, <1>5, <1>6, <1>8, <1>9, <3>1, BooksExported
  <2>2. CASE arg.kind # "local"
    <3>1. GivesNone(m)
      BY <1>3, <1>6, <2>2 DEF GivesNone
    <3>2. Books(exports[v], imports[Peer(v)], questions[Peer(v)], answers[v],
                chan[Peer(v)], chan'[v])
      BY <1>2, <1>5, <1>8, <1>9, <3>1, BooksTold
    <3> QED
      BY <1>3, <2>2, <3>2
  <2> QED
    BY <2>1, <2>2
<1> QED
  BY <1>4, <1>7, <1>8, <1>10, KeptByBooks

\* Client::new_call and Request::new.
LEMMA BuildRequestKeepsRefs ==
    ASSUME RefsInv, BothConnected, NEW v \in Vats, NEW target, NEW arg,
           BuildRequest(v, target, arg)
    PROVE  RefsKept'
  BY RefsUntouched DEF BuildRequest

\* QuestionRef::drop.
LEMMA DropQuestionRefKeepsRefs ==
    ASSUME RefsInv, BothConnected, IdsInv', BothConnected', NEW v \in Vats,
           NEW p \in QuestionIds, DropQuestionRef(v, p)
    PROVE  RefsKept'
<1> DEFINE qn == questions[v][p]
           m == [t |-> "finish", q |-> p, call |-> qn.call,
                 release |-> ReleaseResultCaps(qn)]
           qs == questions[v]
           qs2 == questions'[v]
           xs == exports[Peer(v)]
           ims == imports[v]
           ans == answers[Peer(v)]
           out == chan[v]
           out2 == chan'[v]
           in == chan[Peer(v)]
           n == issued[v]
<1>1. /\ qn # None /\ qn.ref
      /\ qn.skip => chan' = chan
      /\ ~ qn.skip => chan' = Transmit(chan, v, m)
      /\ questions' = [questions EXCEPT ![v][p] = Dropped(qn)]
      /\ UNCHANGED <<answers, exports, imports>>
  BY DEF DropQuestionRef
<1>2. /\ Books(exports[v], imports[Peer(v)], questions[Peer(v)], answers[v],
               in, out)
      /\ Books(xs, ims, qs, ans, out, in)
      /\ ims \in [ExportIds -> Nat \cup {None}]
      /\ IdsInv /\ TypeOK /\ Peer(v) \in Vats /\ Peer(v) # v
      /\ out \in Seq(Message) /\ in \in Seq(Message)
  BY BothBooks
<1>3. /\ SlotOK(qn, ans[p], n, out, in, p) /\ qn \in Question
  BY <1>1, <1>2, Sides
<1>4. m \in Message
  <2> HIDE DEF qn
  <2> QED BY <1>3 DEF Message, ReleaseResultCaps, Question
<1>5. /\ m.t = "finish" /\ m.q = p /\ m.call = qn.call /\ m.release = qn.awaiting
      /\ FinishOf(m, p) /\ GivesNone(m)
  BY DEF FinishOf, GivesNone, ReleaseResultCaps
<1>6. out2 \in Seq(Message)
  BY SidesAfter
<1>7. ~ qn.skip => Longer(out, out2, m) /\ chan'[Peer(v)] = in
  <2> HIDE DEF m
  <2> QED
    BY <1>1, <1>2, <1>4, Sent
<1>8. qn.skip => out2 = out /\ chan'[Peer(v)] = in
  BY <1>1
<1>9. /\ qs2[p] = Dropped(qn)
      /\ \A q \in QuestionIds : q # p => qs2[q] = qs[q]
      /\ questions'[Peer(v)] = questions[Peer(v)]
  BY <1>1, <1>2 DEF TypeOK
<1>10. qn = qs[p]
  OBVIOUS
<1> HIDE DEF m, qn, qs, qs2, xs, ims, ans, out, out2, in, n
<1>11. Books(exports[v], imports[Peer(v)], questions[Peer(v)], answers[v], in, out2)
  <2>1. CASE qn.skip
    BY <1>2, <1>8, <2>1
  <2>2. CASE ~ qn.skip
    BY <1>2, <1>4, <1>5, <1>6, <1>7, <2>2, BooksTold
  <2> QED
    BY <2>1, <2>2
<1>12. Books(xs, ims, qs2, ans, out2, in)
  <2>1. CASE qn.awaiting
    <3>1. ~ qn.skip
      BY <1>1, <1>3, <2>1 DEF SlotOK, QuestionOK
    <3>2. /\ Dropped(qn) \in Question /\ Dropped(qn).call = qn.call
          /\ ~ Dropped(qn).ref
      BY <1>3, <2>1 DEF Dropped, Question
    <3>3. qs2[p] # None /\ qs2[p].call = qs[p].call /\ ~ qs2[p].ref
      BY <1>9, <1>10, <3>2, NoneFacts
    <3>4. /\ SlotOK(qs[p], ans[p], n, out, in, p)
          /\ qs[p] # None /\ qs[p].ref /\ qs[p].awaiting
          /\ FinishOf(m, p) /\ m.call = qs[p].call /\ m.release
          /\ Longer(out, out2, m)
      BY <1>1, <1>3, <1>5, <1>7, <1>10, <2>1, <3>1
    <3>5. \A q \in QuestionIds : q # p => qs2[q] = qs[q]
      BY <1>9
    <3> QED
      BY <1>2, <1>4, <1>6, <3>3, <3>4, <3>5, BooksCanceled
  <2>2. CASE ~ qn.awaiting
    <3>1. qs2[p] = None
      BY <1>9, <2>2 DEF Dropped
    <3>2. \A i \in 1 .. Len(in) : ~ ReturnTo(in[i], p)
      BY <1>3, <2>2, NothingLeft
    <3>3. \A q \in QuestionIds : q # p => qs2[q] = qs[q]
      BY <1>9
    <3>4. Books(xs, ims, qs2, ans, out, in)
      BY <1>2, <3>1, <3>2, <3>3, BooksForgotten
    <3>5. CASE qn.skip
      BY <1>8, <3>4, <3>5
    <3>6. CASE ~ qn.skip
      <4>1. Longer(out, out2, m) /\ ~ m.release /\ FinishOf(m, p)
        BY <1>5, <1>7, <2>2, <3>6
      <4> QED
        BY <1>2, <1>4, <1>6, <3>1, <3>4, <4>1, BooksFinishSent
    <3> QED
      BY <3>5, <3>6
  <2> QED
    BY <2>1, <2>2
<1>13. chan'[Peer(v)] = in
  BY <1>7, <1>8
<1> QED
  BY <1>1, <1>9, <1>11, <1>12, <1>13, KeptByBooks DEF qs, qs2, xs, ims, ans, out, out2, in

\* ImportClient::drop.
LEMMA DropImportKeepsRefs ==
    ASSUME RefsInv, BothConnected, IdsInv', BothConnected', NEW v \in Vats,
           NEW p \in ExportIds, DropImport(v, p)
    PROVE  RefsKept'
<1> DEFINE m == [t |-> "release", id |-> p, n |-> imports[v][p]]
           xs == exports[Peer(v)]
           ims == imports[v]
           ims2 == imports'[v]
           qs == questions[v]
           ans == answers[Peer(v)]
           out == chan[v]
           out2 == chan'[v]
           in == chan[Peer(v)]
<1>1. /\ ims[p] # None /\ chan' = Transmit(chan, v, m)
      /\ imports' = [imports EXCEPT ![v][p] = None]
      /\ UNCHANGED <<questions, answers, exports>>
  BY DEF DropImport
<1>2. /\ Books(exports[v], imports[Peer(v)], questions[Peer(v)], answers[v],
               in, out)
      /\ Books(xs, ims, qs, ans, out, in)
      /\ ims \in [ExportIds -> Nat \cup {None}]
      /\ IdsInv /\ TypeOK /\ Peer(v) \in Vats /\ Peer(v) # v
      /\ out \in Seq(Message) /\ in \in Seq(Message)
  BY BothBooks
<1>3. m \in Message
  BY <1>1, <1>2 DEF Message
<1>4. /\ m.t = "release" /\ m.id = p /\ m.n = ims[p] /\ GivesNone(m)
  BY DEF GivesNone
<1>5. /\ ims2[p] = None /\ \A e \in ExportIds : e # p => ims2[e] = ims[e]
      /\ imports'[Peer(v)] = imports[Peer(v)]
  BY <1>1, <1>2 DEF TypeOK
<1>6. out2 \in Seq(Message)
  BY SidesAfter
<1> HIDE DEF m
<1>7. Longer(out, out2, m) /\ chan'[Peer(v)] = in
  BY <1>1, <1>2, <1>3, Sent
<1> HIDE DEF xs, ims, ims2, qs, ans, out, out2, in
<1>8. Books(exports[v], imports[Peer(v)], questions[Peer(v)], answers[v], in, out2)
  BY <1>2, <1>3, <1>4, <1>6, <1>7, BooksTold
<1>9. Books(xs, ims2, qs, ans, out2, in)
  <2>1. NoImport(ims, ims2, p)
    BY <1>1, <1>5 DEF NoImport
  <2> QED
    BY <1>2, <1>3, <1>4, <1>6, <1>7, <2>1, BooksGivenBack
<1> QED
  BY <1>1, <1>5, <1>7, <1>8, <1>9, KeptByBooks DEF xs, ims, ims2, qs, ans, out, out2, in

\* eagerly_evaluate, and ResultsInner::ensure_initialized.
LEMMA RunningKeepsRefs ==
    ASSUME RefsInv, BothConnected, NEW v \in Vats, NEW p \in QuestionIds,
           CancelCall(v, p) \/ InitResults(v, p)
    PROVE  RefsKept'
<1> DEFINE a == answers[v][p]
           b == answers'[v][p]
<1>1. /\ Books(exports[v], imports[Peer(v)], questions[Peer(v)], answers[v],
               chan[Peer(v)], chan[v])
      /\ Books(exports[Peer(v)], imports[v], questions[v], answers[Peer(v)],
               chan[v], chan[Peer(v)])
      /\ IdsInv /\ TypeOK /\ Peer(v) \in Vats /\ Peer(v) # v
      /\ chan[v] \in Seq(Message) /\ chan[Peer(v)] \in Seq(Message)
  BY BothBooks
<1>2. UNCHANGED <<chan, questions, exports, imports>>
  BY DEF CancelCall, InitResults
<1>3. a # None /\ Open(a)
  BY DEF CancelCall, InitResults, Executing, Unreturned, Open
<1>4. a \in Answer
  BY <1>1, <1>3 DEF TypeOK
<1>5. \/ answers' = [answers EXCEPT ![v][p] = [a EXCEPT !.eager = FALSE]]
      \/ answers' = [answers EXCEPT ![v][p] = [a EXCEPT !.status = "init"]]
  BY DEF CancelCall, InitResults
<1>6. /\ b = [a EXCEPT !.eager = FALSE] \/ b = [a EXCEPT !.status = "init"]
      /\ \A q \in QuestionIds : q # p => answers'[v][q] = answers[v][q]
      /\ answers'[Peer(v)] = answers[Peer(v)]
  <2> DEFINE c == [a EXCEPT !.eager = FALSE]
             d == [a EXCEPT !.status = "init"]
  <2>1. \A x : answers' = [answers EXCEPT ![v][p] = x] =>
            /\ b = x /\ answers'[Peer(v)] = answers[Peer(v)]
            /\ \A q \in QuestionIds : q # p => answers'[v][q] = answers[v][q]
    BY <1>1 DEF TypeOK
  <2>2. answers' = [answers EXCEPT ![v][p] = c] \/ answers' = [answers EXCEPT ![v][p] = d]
    BY <1>5
  <2> HIDE DEF b, c, d
  <2>3. /\ b = c \/ b = d
        /\ \A q \in QuestionIds : q # p => answers'[v][q] = answers[v][q]
        /\ answers'[Peer(v)] = answers[Peer(v)]
    BY <2>1, <2>2
  <2> QED
    BY <2>3 DEF c, d
<1>7. Alike(a, b)
  <2> HIDE DEF a, b
  <2>1. b \in Answer /\ b.call = a.call /\ b.exp = a.exp
    BY <1>4, <1>6 DEF Answer
  <2> QED
    BY <1>3, <2>1, NoneFacts DEF Alike
<1>8. \A q \in QuestionIds : Alike(answers[v][q], answers'[v][q])
  BY <1>6, <1>7 DEF Alike
<1>9. Books(exports[v], imports[Peer(v)], questions[Peer(v)], answers'[v],
            chan[Peer(v)], chan[v])
  BY <1>1, <1>8, BooksSame
<1> QED
  BY <1>1, <1>2, <1>6, <1>9, KeptByBooks

\* answer_has_sent_return and PipelineInnerSender::complete: the answer of q
\* holds what its Return gives, and the others hold what they held.
LEMMA SentReturnResults ==
    ASSUME TypeOK, NEW v \in Vats, NEW q \in QuestionIds, NEW finish \in BOOLEAN,
           NEW exp \in ExportIds \cup {None}, NEW ok \in BOOLEAN,
           answers[v][q] # None
    PROVE  LET bs == Unqueue(SentReturn(answers[v], q, finish, exp, ok), q, ok)
           IN  /\ ~ finish => bs[q].exp = exp
               /\ \A r \in QuestionIds : r # q => Alike(answers[v][r], bs[r])
<1> DEFINE sent == SentReturn(answers[v], q, finish, exp, ok)
           bs == Unqueue(sent, q, ok)
<1>1. answers[v] \in [QuestionIds -> Answer \cup {None}] /\ answers[v][q] \in Answer
  BY DEF TypeOK
<1>2. sent \in [QuestionIds -> Answer \cup {None}]
  BY <1>1, SentReturnType
<1>3. \A r \in QuestionIds : r # q => sent[r] = answers[v][r]
  BY <1>1 DEF SentReturn
<1>4. ~ finish => sent[q] \in Answer /\ sent[q].exp = exp
  <2> DEFINE kept == [answers[v][q] EXCEPT !.status = "returned", !.exp = exp, !.ok = ok]
  <2>1. kept \in Answer /\ kept.exp = exp
    BY <1>1 DEF Answer
  <2>2. sent[q] = IF finish THEN None ELSE kept
    BY <1>1 DEF SentReturn
  <2> HIDE DEF kept, sent
  <2> QED
    BY <2>1, <2>2
<1> HIDE DEF sent
<1>5. ASSUME NEW r \in QuestionIds
      PROVE  Alike(sent[r], bs[r]) /\ (sent[r] \in Answer => bs[r].exp = sent[r].exp)
  <2>1. CASE sent[r] = None
    <3>1. bs[r] = sent[r]
      BY <2>1 DEF Unqueue
    <3> QED
      BY <3>1 DEF Alike
  <2>2. CASE sent[r] \in Answer
    <3> DEFINE a == sent[r]
               b == [a EXCEPT !.waits = @ \ {q}, !.broken = @ \/ ~ok]
    <3>1. bs[r] = a \/ bs[r] = b
      BY DEF Unqueue
    <3>2. b \in Answer /\ b.call = a.call /\ b.exp = a.exp /\ b.status = a.status
      <4> HIDE DEF a
      <4>1. a \in Answer
        BY <2>2 DEF a
      <4> QED
        BY <4>1 DEF Answer
    <3>3. Alike(a, a) /\ Alike(a, b)
      <4> HIDE DEF b
      <4>1. a # None /\ b # None /\ (Open(b) => Open(a))
        BY <2>2, <3>2, NoneFacts DEF Open
      <4> QED
        BY <3>2, <4>1 DEF Alike
    <3> HIDE DEF a, b, bs
    <3>4. Alike(a, bs[r]) /\ bs[r].exp = a.exp
      BY <3>1, <3>2, <3>3
    <3> QED
      BY <3>4 DEF a
  <2> QED
    BY <1>2, <2>1, <2>2
<1> HIDE DEF bs
<1>6. ~ finish => bs[q].exp = exp
  BY <1>4, <1>5
<1>7. \A r \in QuestionIds : r # q => Alike(answers[v][r], bs[r])
  BY <1>3, <1>5
<1> QED
  BY <1>6, <1>7 DEF bs, sent

\* The Return m of an answer that keeps exp, or is forgotten: m gives just the
\* capability exp, for which the exports of the host go from xs to xs2.
Yields(m, finish, exp, xs, xs2) ==
    /\ m.which # "results" => m.cap.kind # "senderHosted"
    /\ m.cap.kind = "senderHosted" =>
        /\ ~ finish /\ exp = m.cap.id
        /\ RefsOf(xs2[m.cap.id]) = RefsOf(xs[m.cap.id]) + 1
        /\ \A e \in ExportIds : e # m.cap.id => xs2[e] = xs[e]
    /\ m.cap.kind # "senderHosted" => exp = None /\ xs2 = xs

\* ResultsDone::from_results_inner: what a Return gives is what its answer
\* holds until the Finish.
LEMMA ReturnBooks ==
    ASSUME RefsInv, BothConnected, IdsInv', BothConnected', NEW v \in Vats,
           NEW p \in QuestionIds, NEW finish \in BOOLEAN,
           NEW exp \in ExportIds \cup {None}, NEW ok \in BOOLEAN, NEW m \in Message,
           Unreturned(v, p), chan' = Transmit(chan, v, m),
           answers' = [answers EXCEPT ![v] =
                Unqueue(SentReturn(answers[v], p, finish, exp, ok), p, ok)],
           m.t = "return", m.q = p, m.call = answers[v][p].call,
           Yields(m, finish, exp, exports[v], exports'[v]),
           exports'[Peer(v)] = exports[Peer(v)], UNCHANGED <<questions, imports>>
    PROVE  RefsKept'
<1> DEFINE xs == exports[v]
           xs2 == exports'[v]
           ims == imports[Peer(v)]
           qs == questions[Peer(v)]
           ans == answers[v]
           ans2 == answers'[v]
           out == chan[Peer(v)]
           in == chan[v]
           in2 == chan'[v]
           n == issued'[Peer(v)]
           bs == Unqueue(SentReturn(answers[v], p, finish, exp, ok), p, ok)
<1>1. /\ Books(xs, ims, qs, ans, out, in)
      /\ Books(exports[Peer(v)], imports[v], questions[v], answers[Peer(v)],
               in, out)
      /\ ims \in [ExportIds -> Nat \cup {None}]
      /\ IdsInv /\ TypeOK /\ Peer(v) \in Vats /\ Peer(v) # v
      /\ in \in Seq(Message) /\ out \in Seq(Message)
  BY BothBooks
<1>2. Longer(in, in2, m) /\ chan'[Peer(v)] = out
  BY <1>1, Sent
<1>3. in2 \in Seq(Message)
  BY SidesAfter
<1>4. answers'[Peer(v)] = answers[Peer(v)]
      /\ ans2 = bs
  BY <1>1 DEF TypeOK
<1>5. ans[p] # None /\ Open(ans[p])
  BY DEF Unreturned, Open
<1>6. /\ finish => bs[p] = None
      /\ ~ finish => /\ bs[p] # None /\ bs[p].call = answers[v][p].call
                     /\ bs[p].status = "returned"
  <2>1. TypeOK /\ answers[v][p] # None
    BY <1>1, <1>5
  <2> HIDE DEF ans, ans2, xs, xs2, in, in2, out
  <2> QED
    BY <2>1, SentReturnAnswers
<1>7. /\ ~ finish => bs[p].exp = exp
      /\ \A r \in QuestionIds : r # p => Alike(answers[v][r], bs[r])
  <2>1. TypeOK /\ answers[v][p] # None
    BY <1>1, <1>5
  <2> HIDE DEF ans, ans2, xs, xs2, in, in2, out
  <2> QED
    BY <2>1, SentReturnResults
<1> HIDE DEF bs
<1>8. SlotOK(qs[p], ans2[p], n, out, in2, p)
  BY <1>2, SidesAfter
<1>9. /\ m.cap.kind = "senderHosted" =>
            /\ RefsOf(xs2[m.cap.id]) = RefsOf(xs[m.cap.id]) + 1
            /\ \A e \in ExportIds : e # m.cap.id => xs2[e] = xs[e]
      /\ m.cap.kind # "senderHosted" => xs2 = xs /\ exp = None
      /\ m.cap.kind = "senderHosted" => ~ finish /\ exp = m.cap.id
      /\ m.which # "results" => m.cap.kind # "senderHosted"
      /\ m.call = ans[p].call
  BY DEF Yields
<1> HIDE DEF xs, xs2, ims, qs, ans, ans2, out, in, in2, n
<1>10. ans[p] # None => ans[p].exp = None
  BY <1>1, <1>5 DEF Books, HeldOK
<1>11. ans2[p] # None => ~ Open(ans2[p])
  BY <1>4, <1>6 DEF Open
<1>12. m.cap.kind = "senderHosted" =>
            /\ ans2[p] # None /\ ans2[p].call = m.call /\ ans2[p].exp = m.cap.id
            /\ RefsOf(xs2[m.cap.id]) = RefsOf(xs[m.cap.id]) + 1
            /\ \A e \in ExportIds : e # m.cap.id => xs2[e] = xs[e]
  BY <1>4, <1>6, <1>7, <1>9 DEF ans
<1>13. m.cap.kind # "senderHosted" =>
            /\ xs2 = xs
            /\ ans2[p] # None => ans2[p].exp = None
  BY <1>4, <1>6, <1>7, <1>9 DEF ans
<1>14. ReturnTo(m, p) /\ \A r \in QuestionIds : r # p => Alike(ans[r], ans2[r])
  BY <1>4, <1>7 DEF ReturnTo, ans
<1>15. Books(xs2, ims, qs, ans2, out, in2)
  <2>1. Books(xs, ims, qs, ans, out, in) /\ ims \in [ExportIds -> Nat \cup {None}]
    BY <1>1
  <2>2. in \in Seq(Message) /\ out \in Seq(Message) /\ in2 \in Seq(Message)
    BY <1>1, <1>3
  <2>3. Longer(in, in2, m) /\ (m.which # "results" => m.cap.kind # "senderHosted")
    BY <1>2, <1>9
  <2>4. Returns(m, p, ans, ans2, xs, xs2)
    BY <1>10, <1>11, <1>12, <1>13, <1>14, <2>3 DEF Returns
  <2>5. ReturnTo(m, p)
    BY <1>14
  <2> QED
    BY <1>8, <2>1, <2>2, <2>3, <2>4, <2>5, BooksReturned
<1>16. m.t \notin {"finish", "release"}
  OBVIOUS
<1>17. Books(exports[Peer(v)], imports[v], questions[v], answers[Peer(v)], in2, out)
  BY <1>1, <1>2, <1>3, <1>16, BooksSaid
<1> QED
  BY <1>2, <1>4, <1>15, <1>17, KeptByBooks
     DEF xs, xs2, ims, qs, ans, ans2, out, in, in2

\* The three Returns of a connected vat.
LEMMA ReturnCanceledKeepsRefs ==
    ASSUME RefsInv, BothConnected, IdsInv', BothConnected', NEW v \in Vats,
           NEW q \in QuestionIds, NEW ok \in BOOLEAN, ReturnCanceled(v, q, ok)
    PROVE  RefsKept'
<1> DEFINE m == ReturnMsg(v, q, "canceled", [kind |-> "none", id |-> 0], FALSE)
<1>1. /\ Unreturned(v, q) /\ chan' = Transmit(chan, v, m)
      /\ answers' = [answers EXCEPT ![v] =
            Unqueue(SentReturn(answers[v], q, TRUE, None, ok), q, ok)]
      /\ UNCHANGED <<questions, exports, imports>>
  BY DEF ReturnCanceled, Executing
<1>2. m \in Message
  BY <1>1, ReturnMsgType, NoCap, Together DEF RefsInv
<1>3. /\ m.t = "return" /\ m.q = q /\ m.call = answers[v][q].call
      /\ m.cap.kind # "senderHosted"
  BY DEF ReturnMsg
<1> HIDE DEF m
<1>4. Yields(m, TRUE, None, exports[v], exports'[v])
  BY <1>1, <1>3 DEF Yields
<1> QED
  BY <1>1, <1>2, <1>3, <1>4, ReturnBooks

\* A Return with an exception.
LEMMA ReturnExceptionKeepsRefs ==
    ASSUME RefsInv, BothConnected, IdsInv', BothConnected', NEW v \in Vats,
           NEW q \in QuestionIds, ReturnException(v, q)
    PROVE  RefsKept'
<1> DEFINE m == ReturnMsg(v, q, "exception", [kind |-> "none", id |-> 0], FALSE)
<1>1. /\ Unreturned(v, q) /\ chan' = Transmit(chan, v, m)
      /\ answers' = [answers EXCEPT ![v] =
            Unqueue(SentReturn(answers[v], q, FALSE, None, FALSE), q, FALSE)]
      /\ UNCHANGED <<questions, exports, imports>>
  BY DEF ReturnException, Executing
<1>2. m \in Message
  BY <1>1, ReturnMsgType, NoCap, Together DEF RefsInv
<1>3. /\ m.t = "return" /\ m.q = q /\ m.call = answers[v][q].call
      /\ m.cap.kind # "senderHosted"
  BY DEF ReturnMsg
<1> HIDE DEF m
<1>4. Yields(m, FALSE, None, exports[v], exports'[v])
  BY <1>1, <1>3 DEF Yields
<1> QED
  BY <1>1, <1>2, <1>3, <1>4, ReturnBooks

\* A Return with results.
LEMMA ReturnResultsKeepsRefs ==
    ASSUME RefsInv, BothConnected, IdsInv', BothConnected', NEW v \in Vats,
           NEW q \in QuestionIds, NEW arg \in Argument, ReturnResults(v, q, arg)
    PROVE  RefsKept'
<1> DEFINE w == WriteDescriptor(v, arg)
           nofinish == arg.kind = "none"
           exp == IF w.desc.kind = "senderHosted" THEN w.desc.id ELSE None
           m == ReturnMsg(v, q, "results", w.desc, nofinish)
<1>1. /\ Unreturned(v, q) /\ RoomToExport(v, arg)
      /\ UNCHANGED <<questions, imports>>
  BY DEF ReturnResults, Executing
<1>2. TypeOK /\ ExportsMatch(v) /\ Peer(v) \in Vats /\ Peer(v) # v
  BY BothBooks
<1>3. /\ ~ w.panic /\ w.desc \in Descriptor
      /\ w.desc.kind = "senderHosted" <=> arg.kind = "local"
      /\ arg.kind = "local" =>
            /\ RefsOf(w.exports[w.desc.id]) = RefsOf(exports[v][w.desc.id]) + 1
            /\ \A e \in ExportIds : e # w.desc.id => w.exports[e] = exports[v][e]
      /\ arg.kind # "local" => w.exports = exports[v]
  BY <1>1, <1>2, WriteDescriptorCounts
<1>4. /\ chan' = Transmit(chan, v, m)
      /\ answers' = [answers EXCEPT ![v] =
              Unqueue(SentReturn(answers[v], q, nofinish, exp, ~nofinish), q, ~nofinish)]
      /\ exports' = [exports EXCEPT ![v] = w.exports]
  BY <1>3 DEF ReturnResults
<1>5. /\ nofinish \in BOOLEAN /\ (~nofinish) \in BOOLEAN
      /\ arg.kind = "local" => ~ nofinish
  OBVIOUS
<1> HIDE DEF nofinish, w
<1>6. /\ exp \in ExportIds \cup {None}
      /\ arg.kind = "local" => exp = w.desc.id
      /\ arg.kind # "local" => exp = None
  BY <1>3 DEF Descriptor
<1> HIDE DEF exp
<1>7. m \in Message
  BY <1>1, <1>2, <1>3, <1>5, ReturnMsgType
<1>8. /\ m.t = "return" /\ m.q = q /\ m.call = answers[v][q].call
      /\ m.which = "results" /\ m.cap = w.desc
  BY DEF ReturnMsg
<1> HIDE DEF m
<1>9. exports'[v] = w.exports /\ exports'[Peer(v)] = exports[Peer(v)]
  BY <1>2, <1>4 DEF TypeOK
<1>10. Yields(m, nofinish, exp, exports[v], exports'[v])
  BY <1>3, <1>5, <1>6, <1>8, <1>9 DEF Yields
<1> QED
  BY <1>1, <1>4, <1>5, <1>6, <1>7, <1>8, <1>9, <1>10, ReturnBooks

-----------------------------------------------------------------------------
(* The message handlers *)

\* handle_bootstrap: the call is taken up and returned at once.
LEMMA HandleBootstrapKeepsRefs ==
    ASSUME RefsInv, BothConnected, IdsInv', BothConnected', NEW v \in Vats,
           HandleBootstrap(v)
    PROVE  RefsKept'
<1> DEFINE m == Incoming(v)
           arg == [kind |-> "local", id |-> BootstrapCap]
           w == WriteDescriptor(v, arg)
           a == [call |-> m.call, finish |-> FALSE, status |-> "returned",
                 exp |-> w.desc.id, ok |-> TRUE, broken |-> FALSE,
                 waits |-> {}, eager |-> FALSE]
           r == [t |-> "return", q |-> m.q, call |-> m.call,
                 which |-> "results", cap |-> w.desc, nofinish |-> FALSE]
<1>1. /\ IdsInv /\ connected[v] /\ TypeOK /\ loop[Peer(v)]
      /\ chan[Peer(v)] # << >> /\ m.t = "bootstrap" /\ UNCHANGED imports
  BY Together DEF HandleBootstrap, CanHandle, RefsInv
<1>2. CASE w.panic
  <2>1. UNCHANGED <<chan, questions, answers, exports>>
    BY <1>1, <1>2 DEF HandleBootstrap
  <2> QED
    BY <1>1, <2>1, RefsUntouched
<1>3. CASE ~ w.panic /\ answers[v][m.q] # None
  <2>1. Disconnect(v, Drained(v))
    BY <1>1, <1>3 DEF HandleBootstrap, Fail
  <2> QED
    BY <1>1, <2>1, DisconnectEnds
<1>4. CASE ~ w.panic /\ answers[v][m.q] = None
  <2> DEFINE xs == exports[v]
             xs2 == exports'[v]
             ims == imports[Peer(v)]
             qs == questions[Peer(v)]
             ans == answers[v]
             ans2 == answers'[v]
             out == chan[Peer(v)]
             out2 == chan'[Peer(v)]
             in == chan[v]
             in2 == chan'[v]
             n == issued'[Peer(v)]
  <2>1. /\ RoomToExport(v, arg)
        /\ answers' = [answers EXCEPT ![v][m.q] = a]
        /\ exports' = [exports EXCEPT ![v] = w.exports]
        /\ chan' = Transmit(Remaining(v), v, r)
        /\ UNCHANGED questions
    BY <1>1, <1>4 DEF HandleBootstrap
  <2>2. /\ Books(xs, ims, qs, ans, out, in)
        /\ Books(exports[Peer(v)], imports[v], questions[v], answers[Peer(v)], in, out)
        /\ ims \in [ExportIds -> Nat \cup {None}]
        /\ ExportsMatch(v) /\ Peer(v) \in Vats /\ Peer(v) # v
        /\ in \in Seq(Message) /\ out \in Seq(Message)
    BY BothBooks
  <2>3. m \in Message /\ Shorter(chan[Peer(v)], Remaining(v)[Peer(v)], m)
        /\ Remaining(v)[v] = chan[v] /\ Remaining(v) \in Channels
    BY <1>1, Received
  <2>4. m.q \in QuestionIds /\ m.call \in Nat
    BY <1>1, <2>3 DEF Message
  <2>5. arg \in Argument /\ arg.kind = "local"
    BY CapsAssumption DEF Argument
  <2>6. /\ w.desc \in Descriptor /\ w.desc.kind = "senderHosted"
        /\ RefsOf(w.exports[w.desc.id]) = RefsOf(exports[v][w.desc.id]) + 1
        /\ \A e \in ExportIds : e # w.desc.id => w.exports[e] = exports[v][e]
    <3> HIDE DEF arg
    <3> QED BY <1>1, <2>1, <2>2, <2>5, WriteDescriptorCounts
  <2>7. w.desc.id \in ExportIds
    BY <2>6 DEF Descriptor
  <2> HIDE DEF w, m
  <2>8. a \in Answer /\ a.call = m.call /\ a.status = "returned" /\ a.exp = w.desc.id
    BY <2>4, <2>7 DEF Answer
  <2>9. /\ r \in Message /\ r.t = "return" /\ r.q = m.q /\ r.call = m.call
        /\ r.which = "results" /\ r.cap = w.desc
    BY <2>4, <2>6 DEF Message
  <2> HIDE DEF a, r
  <2>10. /\ ans2[m.q] = a /\ answers'[Peer(v)] = answers[Peer(v)]
         /\ \A q \in QuestionIds : q # m.q => ans2[q] = ans[q]
         /\ xs2 = w.exports /\ exports'[Peer(v)] = exports[Peer(v)]
    BY <1>1, <2>1, <2>2, <2>4 DEF TypeOK
  <2>11. Longer(in, in2, r) /\ out2 = Remaining(v)[Peer(v)]
    <3>1. chan' = [Remaining(v) EXCEPT ![v] = Append(chan[v], r)]
      BY <1>1, <2>1, <2>3 DEF Transmit
    <3>2. chan'[v] = Append(chan[v], r) /\ chan'[Peer(v)] = Remaining(v)[Peer(v)]
      BY <2>2, <2>3, <3>1 DEF Channels
    <3> QED
      BY <2>2, <2>9, <3>2, LongerByAppend
  <2>12. in2 \in Seq(Message) /\ out2 \in Seq(Message)
    BY SidesAfter
  <2>13. SlotOK(qs[m.q], ans2[m.q], n, out2, in2, m.q)
    BY <2>1, <2>4, SidesAfter
  <2>14. Shorter(out, out2, m)
    BY <2>3, <2>11
  <2>15. ans[m.q] = None /\ exports[v] = xs
    BY <1>4 DEF m
  <2> HIDE DEF xs, xs2, ims, qs, ans, ans2, out, out2, in, in2, n
  <2>16. m.t \notin {"finish", "release"} /\ GivesNone(m)
    BY <1>1 DEF m, GivesNone
  <2>17. Books(xs, ims, qs, ans, out2, in)
    BY <2>2, <2>3, <2>12, <2>14, <2>16, BooksTaken
  <2>18. Returns(r, m.q, ans, ans2, xs, xs2)
    <3>1. \A q \in QuestionIds : q # m.q => Alike(ans[q], ans2[q])
      BY <2>10 DEF Alike
    <3>2. ans2[m.q] # None /\ ~ Open(ans2[m.q])
      BY <2>8, <2>10, NoneFacts DEF Open
    <3>3. ans2[m.q].call = r.call /\ ans2[m.q].exp = r.cap.id
      BY <2>8, <2>9, <2>10
    <3>4. /\ RefsOf(xs2[r.cap.id]) = RefsOf(xs[r.cap.id]) + 1
          /\ \A e \in ExportIds : e # r.cap.id => xs2[e] = xs[e]
          /\ r.cap.kind = "senderHosted"
      BY <2>6, <2>9, <2>10, <2>15
    <3> QED
      BY <2>9, <2>15, <3>1, <3>2, <3>3, <3>4 DEF Returns
  <2>19. ReturnTo(r, m.q)
    BY <2>9 DEF ReturnTo
  <2>20. Books(xs2, ims, qs, ans2, out2, in2)
    BY <2>2, <2>4, <2>9, <2>11, <2>12, <2>13, <2>17, <2>18, <2>19, BooksReturned
  <2>21. Books(exports[Peer(v)], imports[v], questions[v], answers[Peer(v)], in, out2)
    BY <2>2, <2>3, <2>12, <2>14, <2>16, BooksHeard
  <2>22. r.t \notin {"finish", "release"}
    BY <2>9
  <2>23. Books(exports[Peer(v)], imports[v], questions[v], answers[Peer(v)], in2, out2)
    BY <2>2, <2>9, <2>11, <2>12, <2>21, <2>22, BooksSaid
  <2> QED
    BY <1>1, <2>1, <2>10, <2>20, <2>23, KeptByBooks
       DEF xs, xs2, ims, qs, ans, ans2, out, out2, in, in2
<1> QED
  BY <1>2, <1>3, <1>4

\* handle_message, Call.
LEMMA HandleCallKeepsRefs ==
    ASSUME RefsInv, BothConnected, IdsInv', BothConnected', NEW v \in Vats,
           HandleCall(v)
    PROVE  RefsKept'
<1> DEFINE m == Incoming(v)
           pipelined == m.target.kind = "promisedAnswer"
           broken == pipelined /\ PipelineBroken(v, m.target.id)
           waits == IF pipelined THEN QueuedOn(v, m.target.id) ELSE {}
           a == [call |-> m.call, finish |-> FALSE, status |-> "new",
                 exp |-> None, ok |-> FALSE, broken |-> broken,
                 waits |-> waits, eager |-> TRUE]
           fails == \/ ~pipelined /\ exports[v][m.target.id] = None
                    \/ answers[v][m.q] # None
<1>1. /\ IdsInv /\ connected[v] /\ TypeOK
      /\ chan[Peer(v)] # << >> /\ m.t = "call"
  BY Together DEF HandleCall, CanHandle, RefsInv
<1>2. CASE fails
  <2>1. Disconnect(v, Drained(v))
    BY <1>2 DEF HandleCall, Fail
  <2> QED
    BY <1>1, <2>1, DisconnectEnds
<1>3. CASE ~ fails
  <2> DEFINE xs == exports[v]
             ims == imports[Peer(v)]
             qs == questions[Peer(v)]
             ans == answers[v]
             ans2 == answers'[v]
             out == chan[Peer(v)]
             out2 == chan'[Peer(v)]
             in == chan[v]
  <2>1. /\ answers[v][m.q] = None
        /\ answers' = [answers EXCEPT ![v][m.q] = a]
        /\ imports' = ReceiveCap(v, m.cap)
        /\ chan' = Remaining(v)
        /\ UNCHANGED <<questions, exports>>
    BY <1>3 DEF HandleCall
  <2>2. /\ Books(xs, ims, qs, ans, out, in)
        /\ Books(exports[Peer(v)], imports[v], questions[v], answers[Peer(v)], in, out)
        /\ imports[v] \in [ExportIds -> Nat \cup {None}]
        /\ Peer(v) \in Vats /\ Peer(v) # v
        /\ in \in Seq(Message) /\ out \in Seq(Message)
    BY BothBooks
  <2>3. /\ m \in Message /\ Shorter(out, out2, m) /\ chan'[v] = in
    BY <1>1, <2>1, Received
  <2>4. out2 \in Seq(Message)
    BY SidesAfter
  <2>5. m.q \in QuestionIds /\ m.call \in Nat /\ m.target \in Target /\ m.cap \in Descriptor
    BY <1>1, <2>3 DEF Message
  <2>6. a \in Answer /\ a.exp = None
    <3>1. pipelined => m.target.id \in QuestionIds
      BY <2>5 DEF Target
    <3>2. pipelined => QueuedOn(v, m.target.id) \in SUBSET QuestionIds
      BY <1>1, <3>1, QueuedOnType
    <3>3. broken \in BOOLEAN /\ waits \in SUBSET QuestionIds
      BY <3>2
    <3> HIDE DEF broken, waits, m
    <3> QED
      BY <2>5, <3>3 DEF Answer
  <2> HIDE DEF a
  <2>7. /\ ans2[m.q] = a /\ answers'[Peer(v)] = answers[Peer(v)]
        /\ \A q \in QuestionIds : q # m.q => ans2[q] = ans[q]
    BY <1>1, <2>1, <2>2, <2>5 DEF TypeOK
  <2>8. \A i \in 1 .. Len(in) : ~ ReturnTo(in[i], m.q)
    <3>1. AskFor(m, m.q)
      BY <1>1 DEF AskFor
    <3>2. SlotOK(questions[Peer(v)][m.q], answers[v][m.q], issued[Peer(v)], out, in, m.q)
      BY <1>1, <2>5, Sides
    <3>3. 1 \in 1 .. Len(out) /\ out[1] = m
      BY <2>3, ShorterPlaces DEF Shorter
    <3> HIDE DEF m, out, in
    <3> QED
      BY <3>1, <3>2, <3>3 DEF SlotOK, AskOK
  <2>9. /\ m.cap.kind = "senderHosted" =>
            /\ Held(imports'[v][m.cap.id]) = Held(imports[v][m.cap.id]) + 1
            /\ \A e \in ExportIds : e # m.cap.id => imports'[v][e] = imports[v][e]
        /\ m.cap.kind # "senderHosted" => imports'[v] = imports[v]
        /\ imports'[Peer(v)] = imports[Peer(v)]
    BY <1>1, <2>1, <2>5, ReceiveCapCounts
  <2>10. m.t \notin {"finish", "release"}
    BY <1>1
  <2>11. ans[m.q] = None /\ ans2[m.q] # None /\ ans2[m.q].exp = None
    BY <2>1, <2>6, <2>7, NoneFacts
  <2>12. m.t = "call"
    BY <1>1
  <2> HIDE DEF m, xs, ims, qs, ans, ans2, out, out2, in
  <2>13. Books(xs, ims, qs, ans, out2, in)
    BY <2>2, <2>3, <2>4, <2>10, BooksTaken
  <2>14. Books(xs, ims, qs, ans2, out2, in)
    BY <2>2, <2>4, <2>5, <2>7, <2>8, <2>11, <2>13, BooksEntered
  <2>15. Books(exports[Peer(v)], imports'[v], questions[v], answers[Peer(v)], in, out2)
    <3>1. CASE m.cap.kind = "senderHosted"
      <4>1. OneImport(imports[v], imports'[v], m.cap.id)
        BY <2>9, <3>1 DEF OneImport
      <4> QED
        BY <2>2, <2>3, <2>4, <2>12, <3>1, <4>1, BooksImported
    <3>2. CASE m.cap.kind # "senderHosted"
      <4>1. GivesNone(m)
        BY <2>12, <3>2 DEF GivesNone
      <4>2. Books(exports[Peer(v)], imports[v], questions[v], answers[Peer(v)], in, out2)
        BY <2>2, <2>3, <2>4, <4>1, BooksHeard
      <4> QED
        BY <2>9, <3>2, <4>2
    <3> QED
      BY <3>1, <3>2
  <2> QED
    BY <2>1, <2>3, <2>7, <2>9, <2>14, <2>15, KeptByBooks
       DEF xs, ims, qs, ans, ans2, out, out2, in
<1> QED
  BY <1>2, <1>3

\* handle_message, Return.
LEMMA HandleReturnKeepsRefs ==
    ASSUME RefsInv, BothConnected, IdsInv', BothConnected', NEW v \in Vats,
           HandleReturn(v)
    PROVE  RefsKept'
<1> DEFINE m == Incoming(v)
           qn == questions[v][m.q]
           returned == [qn EXCEPT !.awaiting = FALSE, !.skip = SkipFinish(qn, m)]
           after == IF ~ qn.ref THEN None
                    ELSE IF m.which = "canceled" THEN returned
                    ELSE [returned EXCEPT !.pending = FALSE]
<1>1. /\ IdsInv /\ connected[v] /\ TypeOK
      /\ chan[Peer(v)] # << >> /\ m.t = "return" /\ UNCHANGED answers
  BY Together DEF HandleReturn, CanHandle, RefsInv
<1>2. CASE qn = None
  <2>1. Disconnect(v, Drained(v))
    BY <1>2 DEF HandleReturn, Fail
  <2> QED
    BY <1>1, <2>1, DisconnectEnds
<1>3. CASE qn # None
  <2> DEFINE xs == exports[Peer(v)]
             ims == imports[v]
             ims2 == imports'[v]
             qs == questions[v]
             qs2 == questions'[v]
             ans == answers[Peer(v)]
             out == chan[v]
             in == chan[Peer(v)]
             in2 == chan'[Peer(v)]
             n == issued'[v]
  <2>1. /\ questions' = [questions EXCEPT ![v][m.q] = after]
        /\ chan' = IF qn.ref /\ m.which = "canceled"
                   THEN Transmit(Remaining(v), v, UnimplementedMsg)
                   ELSE Remaining(v)
        /\ imports' = IF qn.ref /\ m.which = "results"
                      THEN ReceiveCap(v, m.cap) ELSE imports
        /\ UNCHANGED exports
    BY <1>3 DEF HandleReturn
  <2>2. /\ m \in Message /\ Shorter(chan[Peer(v)], Remaining(v)[Peer(v)], m)
        /\ Remaining(v)[v] = chan[v]
    BY <1>1, Received
  <2>3. m.q \in QuestionIds /\ m.nofinish \in BOOLEAN /\ m.cap \in Descriptor
    BY <1>1, <2>2 DEF Message
  <2>4. qn \in Question /\ SlotOK(qn, answers[Peer(v)][m.q], issued[v],
                                  chan[v], chan[Peer(v)], m.q)
    BY <1>1, <1>3, <2>3, Sides
  <2>5. ReturnTo(m, m.q)
    BY <1>1 DEF ReturnTo
  <2>6. ~ (qn.ref /\ m.which = "canceled")
    <3>1. 1 \in 1 .. Len(chan[Peer(v)]) /\ chan[Peer(v)][1] = m
      BY <2>2, ShorterPlaces DEF Shorter
    <3> HIDE DEF m, qn
    <3> QED
      BY <2>4, <2>5, <3>1 DEF SlotOK, ReturnOK
  <2>7. chan' = Remaining(v)
    BY <2>1, <2>6
  <2>8. after = None \/ (after # None /\ ~ after.awaiting)
    <3> HIDE DEF m, qn
    <3>1. returned \in Question /\ ~ returned.awaiting
      BY <2>3, <2>4 DEF Question, SkipFinish
    <3>2. LET b == [returned EXCEPT !.pending = FALSE]
          IN  b \in Question /\ b.awaiting = returned.awaiting
      <4> HIDE DEF returned
      <4> QED BY <3>1 DEF Question
    <3> HIDE DEF returned
    <3>3. \/ after = None \/ after = returned
          \/ after = [returned EXCEPT !.pending = FALSE]
      OBVIOUS
    <3> HIDE DEF after
    <3> QED
      BY <3>1, <3>2, <3>3, NoneFacts
  <2> HIDE DEF after
  <2>9. /\ Books(exports[v], imports[Peer(v)], questions[Peer(v)], answers[v], in, out)
        /\ Books(xs, ims, qs, ans, out, in)
        /\ ims \in [ExportIds -> Nat \cup {None}]
        /\ Peer(v) \in Vats /\ Peer(v) # v
        /\ out \in Seq(Message) /\ in \in Seq(Message)
    BY BothBooks
  <2>10. /\ qs2[m.q] = after
         /\ \A q \in QuestionIds : q # m.q => qs2[q] = qs[q]
         /\ questions'[Peer(v)] = questions[Peer(v)]
    BY <1>1, <2>1, <2>3, <2>9 DEF TypeOK
  <2>11. /\ m.cap.kind = "senderHosted" /\ qn.ref /\ m.which = "results" =>
            /\ Held(ims2[m.cap.id]) = Held(ims[m.cap.id]) + 1
            /\ \A e \in ExportIds : e # m.cap.id => ims2[e] = ims[e]
         /\ ~ (qn.ref /\ m.which = "results" /\ m.cap.kind = "senderHosted") => ims2 = ims
         /\ imports'[Peer(v)] = imports[Peer(v)]
    <3>1. CASE qn.ref /\ m.which = "results"
      <4>1. imports' = ReceiveCap(v, m.cap)
        BY <2>1, <3>1
      <4> HIDE DEF m, qn
      <4> QED
        BY <1>1, <2>3, <3>1, <4>1, ReceiveCapCounts
    <3>2. CASE ~ (qn.ref /\ m.which = "results")
      <4>1. imports' = imports
        BY <2>1, <3>2
      <4> HIDE DEF m, qn
      <4> QED
        BY <3>2, <4>1
    <3> QED
      BY <3>1, <3>2
  <2>12. Shorter(in, in2, m) /\ chan'[v] = out
    BY <2>2, <2>7
  <2>13. in2 \in Seq(Message)
    BY SidesAfter
  <2>14. SlotOK(qs2[m.q], ans[m.q], n, out, in2, m.q)
    <3>1. SlotOK(questions'[v][m.q], answers'[Peer(v)][m.q], issued'[v],
                 chan'[v], chan'[Peer(v)], m.q)
      BY <2>3, SidesAfter
    <3> QED
      BY <1>1, <2>12, <3>1
  <2>15. qn = qs[m.q]
    OBVIOUS
  <2> HIDE DEF m, qn, xs, ims, ims2, qs, qs2, ans, out, in, in2, n
  <2>16. m.t \notin {"finish", "release"}
    BY <1>1 DEF m
  <2>17. Books(exports[v], imports[Peer(v)], questions[Peer(v)], answers[v], in2, out)
    BY <2>2, <2>9, <2>12, <2>13, <2>16, BooksTaken
  <2>18. Books(xs, ims2, qs2, ans, out, in2)
    <3>1. /\ qs[m.q] # None /\ (qs2[m.q] = None \/ (qs2[m.q] # None /\ ~ qs2[m.q].awaiting))
          /\ \A q \in QuestionIds : q # m.q => qs2[q] = qs[q]
      BY <1>3, <2>8, <2>10, <2>15
    <3>2. /\ qs[m.q].ref /\ m.which = "results" /\ m.cap.kind = "senderHosted" =>
                /\ Held(ims2[m.cap.id]) = Held(ims[m.cap.id]) + 1
                /\ \A e \in ExportIds : e # m.cap.id => ims2[e] = ims[e]
          /\ ~ (qs[m.q].ref /\ m.which = "results" /\ m.cap.kind = "senderHosted") =>
                ims2 = ims
      BY <2>11, <2>15
    <3>3. Receives(m, m.q, qs, qs2, ims, ims2)
      BY <3>1, <3>2 DEF Receives
    <3> QED
      BY <2>2, <2>3, <2>5, <2>9, <2>12, <2>13, <2>14, <3>3, BooksReceived
  <2> QED
    BY <1>1, <2>1, <2>10, <2>11, <2>12, <2>17, <2>18, KeptByBooks
       DEF xs, ims, ims2, qs, qs2, ans, out, in, in2
<1> QED
  BY <1>2, <1>3

\* handle_message, Release.
LEMMA HandleReleaseKeepsRefs ==
    ASSUME RefsInv, BothConnected, IdsInv', BothConnected', NEW v \in Vats,
           HandleRelease(v)
    PROVE  RefsKept'
<1> DEFINE m == Incoming(v)
<1>1. /\ IdsInv /\ TypeOK /\ chan[Peer(v)] # << >> /\ m.t = "release"
      /\ UNCHANGED <<answers, imports>>
  BY Together DEF HandleRelease, CanHandle, RefsInv
<1>2. CASE ~MayRelease(v, m.id, m.n)
  <2>1. Disconnect(v, Drained(v))
    BY <1>2 DEF HandleRelease, Fail
  <2> QED
    BY <1>1, <2>1, DisconnectEnds
<1>3. CASE MayRelease(v, m.id, m.n)
  <2> DEFINE xs == exports[v]
             xs2 == exports'[v]
             ims == imports[Peer(v)]
             qs == questions[Peer(v)]
             ans == answers[v]
             out == chan[Peer(v)]
             out2 == chan'[Peer(v)]
             in == chan[v]
  <2>1. chan' = Remaining(v) /\ Release(v, m.id, m.n) /\ UNCHANGED questions
    BY <1>3 DEF HandleRelease
  <2>2. /\ m \in Message /\ Shorter(out, out2, m) /\ chan'[v] = in
    BY <1>1, <2>1, Received
  <2>3. m.id \in ExportIds /\ m.n \in Nat
    BY <1>1, <2>2 DEF Message
  <2>4. /\ Books(xs, ims, qs, ans, out, in)
        /\ Books(exports[Peer(v)], imports[v], questions[v], answers[Peer(v)], in, out)
        /\ ims \in [ExportIds -> Nat \cup {None}]
        /\ in \in Seq(Message) /\ out \in Seq(Message)
        /\ Peer(v) \in Vats /\ Peer(v) # v
    BY BothBooks
  <2>5. out2 \in Seq(Message)
    BY SidesAfter
  <2>6. /\ RefsOf(xs2[m.id]) \in Nat /\ RefsOf(xs[m.id]) = RefsOf(xs2[m.id]) + m.n
        /\ \A e \in ExportIds : e # m.id => xs2[e] = xs[e]
    <3> HIDE DEF m
    <3> QED
      BY <1>1, <1>3, <2>1, <2>3, ReleaseCounts
  <2>7. exports'[Peer(v)] = exports[Peer(v)]
    BY <1>1, <2>1, <2>4, ReleaseOthers DEF TypeOK
  <2>8. m.t = "release" /\ GivesNone(m)
    BY <1>1 DEF GivesNone
  <2> HIDE DEF m, xs, xs2, ims, qs, ans, out, out2, in
  <2>9. Books(xs2, ims, qs, ans, out2, in)
    BY <2>2, <2>4, <2>5, <2>6, <2>8, BooksReleased
  <2>10. Books(exports[Peer(v)], imports[v], questions[v], answers[Peer(v)], in, out2)
    BY <2>2, <2>4, <2>5, <2>8, BooksHeard
  <2> QED
    BY <1>1, <2>1, <2>2, <2>7, <2>9, <2>10, KeptByBooks
       DEF xs, xs2, ims, qs, ans, out, out2, in
<1> QED
  BY <1>2, <1>3

\* handle_finish.
LEMMA HandleFinishKeepsRefs ==
    ASSUME RefsInv, BothConnected, IdsInv', BothConnected', NEW v \in Vats,
           HandleFinish(v)
    PROVE  RefsKept'
<1> DEFINE m == Incoming(v)
           a == answers[v][m.q]
           b == [a EXCEPT !.finish = TRUE, !.exp = IF m.release THEN None ELSE @]
           after == IF a.status = "returned" THEN None ELSE b
           drop == a # None /\ m.release /\ a.exp # None
<1>1. /\ IdsInv /\ connected[v] /\ TypeOK
      /\ chan[Peer(v)] # << >> /\ m.t = "finish" /\ UNCHANGED imports
      /\ answers' = IF a = None THEN answers ELSE [answers EXCEPT ![v][m.q] = after]
  BY Together DEF HandleFinish, CanHandle, RefsInv
<1>2. CASE drop /\ ~MayRelease(v, a.exp, 1)
  <2>1. Disconnect(v, Drained(v))
    BY <1>2 DEF HandleFinish, Fail
  <2> QED
    BY <1>1, <2>1, DisconnectEnds
<1>3. CASE ~ (drop /\ ~MayRelease(v, a.exp, 1))
  <2> DEFINE xs == exports[v]
             xs2 == exports'[v]
             ims == imports[Peer(v)]
             qs == questions[Peer(v)]
             ans == answers[v]
             ans2 == answers'[v]
             out == chan[Peer(v)]
             out2 == chan'[Peer(v)]
             in == chan[v]
             n == issued[Peer(v)]
  <2>1. /\ chan' = Remaining(v) /\ UNCHANGED questions
        /\ drop => Release(v, a.exp, 1)
        /\ ~ drop => exports' = exports
    BY <1>3 DEF HandleFinish
  <2>2. m \in Message /\ Shorter(out, out2, m) /\ chan'[v] = in
    BY <1>1, <2>1, Received
  <2>3. m.q \in QuestionIds /\ m.release \in BOOLEAN
    BY <1>1, <2>2 DEF Message
  <2>4. /\ Books(xs, ims, qs, ans, out, in)
        /\ Books(exports[Peer(v)], imports[v], questions[v], answers[Peer(v)], in, out)
        /\ ims \in [ExportIds -> Nat \cup {None}]
        /\ in \in Seq(Message) /\ out \in Seq(Message)
        /\ Peer(v) \in Vats /\ Peer(v) # v
    BY BothBooks
  <2>5. out2 \in Seq(Message)
    BY SidesAfter
  <2>6. SlotOK(qs[m.q], a, n, out, in, m.q) /\ a \in Answer \cup {None}
    BY <1>1, <2>3, Sides
  <2> HIDE DEF m
  <2>7. /\ answers'[Peer(v)] = answers[Peer(v)]
        /\ \A q \in QuestionIds : q # m.q => ans2[q] = ans[q]
        /\ a = None => ans2[m.q] = None
        /\ a # None => ans2[m.q] = after
    <3>1. CASE a = None
      BY <1>1, <3>1
    <3>2. CASE a # None
      <4>1. answers' = [answers EXCEPT ![v][m.q] = after]
        BY <1>1, <3>2
      <4> HIDE DEF after, a
      <4> QED
        BY <1>1, <2>3, <2>4, <3>2, <4>1 DEF TypeOK
    <3> QED
      BY <3>1, <3>2
  <2>8. FinishOf(m, m.q) /\ GivesNone(m)
    BY <1>1 DEF FinishOf, GivesNone, m
  <2>9. a # None => a.call = m.call
    <3>1. 1 \in 1 .. Len(out) /\ out[1] = m
      BY <2>2, ShorterPlaces DEF Shorter
    <3> HIDE DEF a, qs, out, in, n
    <3> QED
      BY <2>6, <2>8, <3>1, FinishMeetsItsCall
  <2>10. ans2[m.q] # None => ans2[m.q].exp = None
    <3>1. ASSUME a # None, a.status # "returned" PROVE ans2[m.q].exp = None
      <4>1. a \in Answer /\ ans2[m.q] = b
        BY <2>6, <2>7, <3>1
      <4>2. Open(a)
        <5> HIDE DEF a, qs, in, out, n
        <5>1. a.status # "redirected"
          BY <2>6, <3>1 DEF SlotOK, AnswerOK
        <5> QED
          BY <3>1, <4>1, <5>1 DEF Open, Answer
      <4>3. HeldOK(qs[m.q], a, out, in, m.q)
        BY <2>3, <2>4 DEF Books
      <4> HIDE DEF a, qs, in, out, n
      <4>4. a.exp = None
        BY <3>1, <4>2, <4>3 DEF HeldOK
      <4>5. b.exp = None
        BY <4>1, <4>4 DEF Answer
      <4> QED
        BY <4>1, <4>5
    <3> QED
      BY <2>7, <3>1
  <2>11. /\ drop => /\ RefsOf(xs2[a.exp]) \in Nat
                    /\ RefsOf(xs[a.exp]) = RefsOf(xs2[a.exp]) + 1
                    /\ \A e \in ExportIds : e # a.exp => xs2[e] = xs[e]
         /\ ~ drop => xs2 = xs
         /\ exports'[Peer(v)] = exports[Peer(v)]
    <3>1. CASE drop
      <4>1. a \in Answer /\ a.exp # None
        BY <2>6, <3>1
      <4>2. Release(v, a.exp, 1) /\ MayRelease(v, a.exp, 1)
        BY <1>3, <2>1, <3>1
      <4> HIDE DEF a
      <4>3. a.exp \in ExportIds
        BY <4>1 DEF Answer
      <4>4. /\ RefsOf(xs2[a.exp]) \in Nat
            /\ RefsOf(xs[a.exp]) = RefsOf(xs2[a.exp]) + 1
            /\ \A e \in ExportIds : e # a.exp => xs2[e] = xs[e]
        BY <1>1, <4>2, <4>3, ReleaseCounts
      <4>5. exports'[Peer(v)] = exports[Peer(v)]
        BY <1>1, <2>4, <4>2, ReleaseOthers
      <4> QED
        BY <3>1, <4>4, <4>5
    <3>2. CASE ~ drop
      BY <2>1, <3>2
    <3> QED
      BY <3>1, <3>2
  <2>12. a = ans[m.q]
    OBVIOUS
  <2> HIDE DEF a, xs, xs2, ims, qs, ans, ans2, out, out2, in, n
  <2>13. Finishes(m, m.q, ans, ans2, xs, xs2)
    <3>1. drop <=> ans[m.q] # None /\ m.release /\ ans[m.q].exp # None
      BY <2>12
    <3> HIDE DEF drop
    <3> QED
      BY <2>7, <2>9, <2>10, <2>11, <2>12, <3>1 DEF Finishes
  <2>14. SlotOK(qs[m.q], ans[m.q], n, out, in, m.q)
    BY <2>6, <2>12
  <2>15. Books(xs2, ims, qs, ans2, out2, in)
    BY <2>2, <2>3, <2>4, <2>5, <2>8, <2>13, <2>14, BooksFinished
  <2>16. Books(exports[Peer(v)], imports[v], questions[v], answers[Peer(v)], in, out2)
    BY <2>2, <2>4, <2>5, <2>8, BooksHeard
  <2> QED
    BY <1>1, <2>1, <2>2, <2>7, <2>11, <2>15, <2>16, KeptByBooks
       DEF xs, xs2, ims, qs, ans, ans2, out, out2, in
<1> QED
  BY <1>2, <1>3

-----------------------------------------------------------------------------
(* No step loses a reference *)

\* Every step keeps RefsInv.
LEMMA NextRefsInv == RefsInv /\ [Next]_vars => RefsInv'
<1> SUFFICES ASSUME RefsInv, [Next]_vars PROVE RefsInv'
  OBVIOUS
<1>1. IdsInv /\ ExportInv /\ TypeOK /\ \A v \in Vats : connected[v] => loop[v]
  BY DEF RefsInv, IdsInv
<1>2. IdsInv' /\ ExportInv'
  BY <1>1, NextIdsInv, NextExportInv
<1>3. \A u \in Vats : connected'[u] => connected[u] /\ loop'[u]
  BY <1>1, NeverReconnects
<1>4. BothConnected' => RefsKept'
  <2> SUFFICES ASSUME BothConnected' PROVE RefsKept'
    OBVIOUS
  <2>1. BothConnected /\ IdsInv'
    BY <1>2, <1>3 DEF BothConnected
  <2>2. CASE UNCHANGED vars
    BY <2>1, <2>2, RefsUntouched DEF vars
  <2>3. ASSUME NEW v \in Vats, Application(v)
        PROVE  RefsKept'
    BY <2>1, <2>3, BootstrapKeepsRefs, BuildRequestKeepsRefs, SendRequestKeepsRefs,
       DropQuestionRefKeepsRefs, DropImportKeepsRefs DEF Application
  <2>4. ASSUME NEW v \in Vats, NEW q \in QuestionIds, CancelCall(v, q) \/ InitResults(v, q)
        PROVE  RefsKept'
    BY <2>1, <2>4, RunningKeepsRefs
  <2>5. ASSUME NEW v \in Vats, Return(v)
        PROVE  RefsKept'
    <3>1. Arguments(v) \subseteq Argument
      BY <1>1, ApplicationChoices
    <3> QED
      BY <1>1, <2>1, <2>5, <3>1, ReturnCanceledKeepsRefs, ReturnResultsKeepsRefs,
         ReturnExceptionKeepsRefs, NotRedirected DEF Return
  <2>6. ASSUME NEW v \in Vats, HandleMessage(v)
        PROVE  RefsKept'
    <3>1. CASE HandleAbort(v)
      <4>1. Disconnect(v, Drained(v))
        BY <3>1 DEF HandleAbort
      <4> QED
        BY <1>1, <4>1, DisconnectEnds
    <3> QED
      BY <2>1, <2>6, <3>1, HandleBootstrapKeepsRefs, HandleCallKeepsRefs,
         HandleReturnKeepsRefs, HandleFinishKeepsRefs, HandleReleaseKeepsRefs
         DEF HandleMessage
  <2>7. ASSUME NEW v \in Vats, Disconnector(v) \/ ConnectionLost(v)
        PROVE  FALSE
    <3>1. \E ch : Disconnect(v, ch)
      BY <2>7 DEF Disconnector, ConnectionLost
    <3> QED
      BY <1>1, <3>1, DisconnectEnds
  <2>8. ASSUME NEW v \in Vats, DowncastMap(v)
        PROVE  RefsKept'
    BY <2>1, <2>8, DowncastMapOnly, RefsUntouched
  <2> QED
    BY <2>2, <2>3, <2>4, <2>5, <2>6, <2>7, <2>8 DEF Next
<1> QED
  BY <1>2, <1>4 DEF RefsInv

\* It holds of a new connection.
LEMMA InitRefsInv == Init => RefsInv
<1> SUFFICES ASSUME Init PROVE RefsInv
  OBVIOUS
<1>1. IdsInv /\ ExportInv
  BY InitIdsInv, InitExportInv
<1>2. \A v \in Vats : /\ chan[v] = << >>
                      /\ \A q \in QuestionIds : questions[v][q] = None /\ answers[v][q] = None
                      /\ \A e \in ExportIds : exports[v][e] = None /\ imports[v][e] = None
  BY DEF Init, InitFrom
<1>3. \A q : HeldOK(None, None, << >>, << >>, q)
  BY DEF HeldOK
<1>4. ASSUME NEW qs, NEW ans, NEW e PROVE Ledger(None, None, qs, ans, << >>, << >>, e)
  <2>1. /\ ComingTo(qs, << >>, e) = {} /\ GivenBack(<< >>, e) = {}
        /\ FinishedOf(ans, << >>, e) = {}
    BY DEF ComingTo, GivenBack, FinishedOf
  <2>2. IsFiniteSet({}) /\ Cardinality({}) = 0
    BY FS_EmptySet
  <2>3. RefsOf(None) = 0 /\ Held(None) = 0
    BY DEF RefsOf, Held
  <2>4. IsFiniteSet(GivenBack(<< >>, e))
    BY <2>1, <2>2
  <2>5. Cardinality(ComingTo(qs, << >>, e)) = 0 /\ Cardinality(GivenBack(<< >>, e)) = 0
        /\ Cardinality(FinishedOf(ans, << >>, e)) = 0
    BY <2>1, <2>2
  <2>6. Balance(None, None, qs, ans, << >>, << >>, e)
    BY <2>3, <2>5 DEF Balance
  <2> QED
    BY <2>4, <2>6 DEF Ledger
<1>5. ASSUME NEW v \in Vats PROVE BooksOf(v)
  <2>1. Peer(v) \in Vats
    BY PeerType
  <2> QED
    BY <1>2, <1>3, <1>4, <2>1 DEF BooksOf, Books
<1> QED
  BY <1>1, <1>5 DEF RefsInv, RefsKept

\* RefCountConservation is the balance of the meters.
LEMMA RefsInvConserved == RefsInv => RefCountConservation
<1> SUFFICES ASSUME RefsInv, BothConnected, NEW v \in Vats, NEW e \in ExportIds
             PROVE  (IF exports[v][e] = None THEN 0 ELSE exports[v][e].refcount)
                        = Outstanding(v, e)
  BY DEF RefCountConservation
<1> DEFINE u == Peer(v)
           came == ComingTo(questions[u], chan[v], e)
           given == GivenBack(chan[u], e)
           done == FinishedOf(answers[v], chan[u], e)
<1>1. BooksOf(v)
  BY DEF RefsInv, RefsKept
<1>2. RefsOf(exports[v][e]) = Held(imports[u][e]) + Cardinality(came)
                                + Cardinality(given) + Cardinality(done)
  BY <1>1 DEF BooksOf, Books, Ledger, Balance
<1>3. Outstanding(v, e) = Held(imports[u][e]) + Cardinality(came)
                                + Cardinality(given) + Cardinality(done)
  BY DEF Outstanding, ComingTo, GivenBack, FinishedOf, Imports, Gives, Settles, Held
<1> QED
  BY <1>2, <1>3 DEF RefsOf

\* Reference counting is exact for every bound: the refcount of each export is
\* the number of references its peer holds, is about to import, or is about
\* to give back with a Release or the Finish of a call it dropped, through
\* any race of QuestionRef::drop, Return, Finish and Release.
THEOREM CountsConserved == Spec => []RefCountConservation
<1>1. Init => RefsInv
  BY InitRefsInv
<1>2. RefsInv /\ [Next]_vars => RefsInv'
  BY NextRefsInv
<1>3. RefsInv => RefCountConservation
  BY RefsInvConserved
<1> QED
  BY <1>1, <1>2, <1>3, PTL DEF Spec

-----------------------------------------------------------------------------
(* What a message names is alive when it arrives *)

\* m names the receiver's export e: it is called, or handed back.
Names(m, e) ==
    \/ m.t = "call" /\ m.target.kind = "importedCap" /\ m.target.id = e
    \/ m.t \in {"call", "return"} /\ m.cap.kind = "receiverHosted" /\ m.cap.id = e

\* The sender, whose imports are ims and who has sent out, still holds what
\* out[i] names, or gives it up behind out[i].
KeptFor(ims, out, i, e) ==
    \/ ims[e] # None
    \/ \E j \in 1 .. Len(out) : i < j /\ Gives(out[j], e) /\ out[j].n # 0
\* A message neither ends the connection nor gives back nothing.
Proper(m) == /\ m.t \notin {"abort", "unimplemented"}
             /\ m.t = "release" => m.n # 0
NamedOK(ims, out) ==
    /\ \A i \in 1 .. Len(out) : Proper(out[i])
    /\ \A e \in ExportIds : ims[e] # 0
    /\ \A i \in 1 .. Len(out), e \in ExportIds : Names(out[i], e) => KeptFor(ims, out, i, e)

\* A request that is not sent yet holds the imports it names.
BuiltNamed(v) ==
    built[v] # None =>
        /\ built[v].target.kind = "importedCap" => imports[v][built[v].target.id] # None
        /\ built[v].arg.kind = "import" => imports[v][built[v].arg.id] # None

NamesKept == \A v \in Vats : BuiltNamed(v) /\ NamedOK(imports[v], chan[v])
LiveInv == RefsInv /\ (BothConnected => NamesKept)

\* The sender sends something that names what it holds.
LEMMA NamedSaid ==
    ASSUME NEW ims, NEW out, NEW out2, NEW m, NamedOK(ims, out), Longer(out, out2, m),
           Proper(m), \A e \in ExportIds : Names(m, e) => ims[e] # None
    PROVE  NamedOK(ims, out2)
<1>1. Len(out) \in Nat /\ Len(out2) = Len(out) + 1
  BY DEF Longer
<1>0. \A i \in 1 .. Len(out2) : Proper(out2[i])
  BY <1>1 DEF NamedOK, Longer
<1> SUFFICES ASSUME NEW i \in 1 .. Len(out2), NEW e \in ExportIds, Names(out2[i], e)
             PROVE  KeptFor(ims, out2, i, e)
  BY <1>0 DEF NamedOK
<1>2. CASE i = Len(out) + 1
  BY <1>2 DEF Longer, KeptFor
<1>3. CASE i # Len(out) + 1
  <2>1. i \in 1 .. Len(out)
    BY <1>1, <1>3
  <2>2. KeptFor(ims, out, i, e)
    BY <2>1 DEF NamedOK, Longer
  <2>3. \A j \in 1 .. Len(out) : j \in 1 .. Len(out2) /\ out2[j] = out[j]
    BY <1>1 DEF Longer
  <2> QED
    BY <2>2, <2>3 DEF KeptFor
<1> QED
  BY <1>2, <1>3

\* The receiver handles a message.
LEMMA NamedTaken ==
    ASSUME NEW ims, NEW out, NEW out2, NEW m, NamedOK(ims, out), Shorter(out, out2, m)
    PROVE  NamedOK(ims, out2)
<1>1. Len(out2) \in Nat /\ Len(out) = Len(out2) + 1
  BY DEF Shorter
<1>0. \A i \in 1 .. Len(out2) : Proper(out2[i])
  <2>1. \A i \in 1 .. Len(out2) : i + 1 \in 1 .. Len(out) /\ out2[i] = out[i + 1]
    BY <1>1 DEF Shorter
  <2> QED
    BY <2>1 DEF NamedOK
<1> SUFFICES ASSUME NEW i \in 1 .. Len(out2), NEW e \in ExportIds, Names(out2[i], e)
             PROVE  KeptFor(ims, out2, i, e)
  BY <1>0 DEF NamedOK
<1>2. i + 1 \in 1 .. Len(out) /\ out2[i] = out[i + 1]
  BY <1>1 DEF Shorter
<1>3. KeptFor(ims, out, i + 1, e)
  BY <1>2 DEF NamedOK
<1>4. CASE ims[e] # None
  BY <1>4 DEF KeptFor
<1>5. CASE ims[e] = None
  <2>1. PICK j \in 1 .. Len(out) : i + 1 < j /\ Gives(out[j], e) /\ out[j].n # 0
    BY <1>3, <1>5 DEF KeptFor
  <2>2. j - 1 \in 1 .. Len(out2) /\ i < j - 1 /\ (j - 1) + 1 = j
    BY <1>1, <2>1
  <2>3. out2[j - 1] = out[j]
    BY <2>2 DEF Shorter
  <2> QED
    BY <2>1, <2>2, <2>3 DEF KeptFor
<1> QED
  BY <1>4, <1>5

\* The sender imports something.
LEMMA NamedImported ==
    ASSUME NEW ims, NEW ims2, NEW out, NamedOK(ims, out),
           \A e \in ExportIds : ims2[e] = ims[e] \/ (ims2[e] # None /\ ims2[e] # 0)
    PROVE  NamedOK(ims2, out)
  BY DEF NamedOK, KeptFor

\* The sender drops an import: the Release goes behind all that names it.
LEMMA NamedDropped ==
    ASSUME NEW ims, NEW ims2, NEW out, NEW out2, NEW m, NEW p \in ExportIds,
           NamedOK(ims, out), Longer(out, out2, m), NoImport(ims, ims2, p),
           m.t = "release", m.id = p, m.n = ims[p]
    PROVE  NamedOK(ims2, out2)
<1>1. Len(out) \in Nat /\ Len(out2) = Len(out) + 1 /\ out2[Len(out) + 1] = m
  BY DEF Longer
<1>2. \A e \in ExportIds : ims2[e] # 0
  BY NoneFacts DEF NamedOK, NoImport
<1>3. ASSUME NEW i \in 1 .. Len(out2), NEW e \in ExportIds, Names(out2[i], e)
      PROVE  KeptFor(ims2, out2, i, e)
  <2>1. i \in 1 .. Len(out) /\ i < Len(out) + 1 /\ Len(out) + 1 \in 1 .. Len(out2)
    <3>1. i # Len(out) + 1
      BY <1>1, <1>3 DEF Names
    <3> QED
      BY <1>1, <3>1
  <2>2. KeptFor(ims, out, i, e)
    BY <1>3, <2>1 DEF NamedOK, Longer
  <2>3. CASE e = p
    <3>1. Gives(out2[Len(out) + 1], e) /\ out2[Len(out) + 1].n # 0
      BY <1>1, <2>3 DEF Gives, NamedOK
    <3> QED
      BY <2>1, <3>1 DEF KeptFor
  <2>4. CASE e # p
    <3>1. ims2[e] = ims[e]
      BY <2>4 DEF NoImport
    <3>2. \A j \in 1 .. Len(out) : j \in 1 .. Len(out2) /\ out2[j] = out[j]
      BY <1>1 DEF Longer
    <3> QED
      BY <2>2, <3>1, <3>2 DEF KeptFor
  <2> QED
    BY <2>3, <2>4
<1>4. \A i \in 1 .. Len(out2) : Proper(out2[i])
  <2>1. Proper(m)
    BY DEF Proper, NamedOK
  <2> QED
    BY <1>1, <2>1 DEF NamedOK, Longer
<1> QED
  BY <1>2, <1>3, <1>4 DEF NamedOK

\* What a vat knows of the names in its own messages is kept by the peer's
\* steps, which at most take a message.
LEMMA NamesKeptBy ==
    ASSUME LiveInv, BothConnected, NEW v \in Vats,
           imports'[Peer(v)] = imports[Peer(v)], built'[Peer(v)] = built[Peer(v)],
           \/ chan'[Peer(v)] = chan[Peer(v)]
           \/ \E m : Shorter(chan[Peer(v)], chan'[Peer(v)], m),
           BuiltNamed(v)', NamedOK(imports'[v], chan'[v])
    PROVE  NamesKept'
<1>1. Peer(v) \in Vats /\ \A u \in Vats : u = v \/ u = Peer(v)
  BY DEF Vats, Peer
<1>2. BuiltNamed(Peer(v)) /\ NamedOK(imports[Peer(v)], chan[Peer(v)])
  BY <1>1 DEF LiveInv, NamesKept
<1>3. BuiltNamed(Peer(v))'
  BY <1>2 DEF BuiltNamed
<1>4. NamedOK(imports'[Peer(v)], chan'[Peer(v)])
  BY <1>2, NamedTaken
<1> QED
  BY <1>1, <1>3, <1>4 DEF NamesKept

\* A step that touches nothing names are about.
LEMMA NamesUntouched ==
    ASSUME LiveInv, BothConnected, UNCHANGED <<imports, built, chan>>
    PROVE  NamesKept'
<1>1. NamesKept
  BY DEF LiveInv
<1> QED
  BY <1>1 DEF NamesKept, BuiltNamed

\* A vat sends a message that names what it holds.
LEMMA SayKeepsNames ==
    ASSUME LiveInv, BothConnected, NEW v \in Vats, NEW m \in Message,
           chan' = Transmit(chan, v, m), Proper(m),
           \A e \in ExportIds : Names(m, e) => imports[v][e] # None,
           built' = built \/ built' = [built EXCEPT ![v] = None], UNCHANGED imports
    PROVE  NamesKept'
<1>1. BuiltNamed(v) /\ NamedOK(imports[v], chan[v]) /\ IdsInv
  BY DEF LiveInv, NamesKept, RefsInv
<1>2. Longer(chan[v], chan'[v], m) /\ chan'[Peer(v)] = chan[Peer(v)]
  BY <1>1, Sent
<1>3. NamedOK(imports'[v], chan'[v])
  BY <1>1, <1>2, NamedSaid
<1>4. TypeOK /\ Peer(v) \in Vats /\ Peer(v) # v
  BY <1>1, Together
<1>5. built'[Peer(v)] = built[Peer(v)] /\ (built'[v] = built[v] \/ built'[v] = None)
  BY <1>4 DEF TypeOK
<1>6. BuiltNamed(v)'
  BY <1>1, <1>5 DEF BuiltNamed
<1> QED
  BY <1>2, <1>3, <1>5, <1>6, NamesKeptBy

\* write_descriptor names an export of the peer only for an import.
LEMMA WriteDescriptorNames ==
    ASSUME NEW v, NEW arg
    PROVE  LET w == WriteDescriptor(v, arg)
           IN  w.desc.kind = "receiverHosted" => arg.kind = "import" /\ w.desc.id = arg.id
<1> DEFINE same == [exports |-> exports[v], byCap |-> exportsByCap[v],
                    panic |-> FALSE, desc |-> [kind |-> "none", id |-> 0]]
           seen == exportsByCap[v][arg.id]
           fresh == FreeId(exports[v])
           handed == [same EXCEPT !.desc = [kind |-> "receiverHosted", id |-> arg.id]]
           failed == [same EXCEPT !.panic = TRUE]
           again == [same EXCEPT !.desc = [kind |-> "senderHosted", id |-> seen],
                                 !.exports[seen].refcount = @ + 1]
           first == [same EXCEPT !.desc = [kind |-> "senderHosted", id |-> fresh],
                                 !.exports[fresh] = [refcount |-> 1, cap |-> arg.id],
                                 !.byCap[arg.id] = fresh]
           w == WriteDescriptor(v, arg)
<1>1. /\ same.desc.kind = "none" /\ failed.desc.kind = "none"
      /\ again.desc.kind = "senderHosted" /\ first.desc.kind = "senderHosted"
      /\ handed.desc.id = arg.id
  OBVIOUS
<1>2. \/ arg.kind = "none" /\ w = same
      \/ arg.kind = "import" /\ w = handed
      \/ w = failed \/ w = again \/ w = first
  BY DEF WriteDescriptor
<1> HIDE DEF same, handed, failed, again, first, w
<1>3. w.desc.kind = "receiverHosted" => arg.kind = "import" /\ w.desc.id = arg.id
  BY <1>1, <1>2
<1> QED
  BY <1>3 DEF w

\* receive_cap drops no import.
LEMMA ReceiveCapKeeps ==
    ASSUME TypeOK, NEW v \in Vats, NEW desc \in Descriptor
    PROVE  \A e \in ExportIds :
                \/ ReceiveCap(v, desc)[v][e] = imports[v][e]
                \/ ReceiveCap(v, desc)[v][e] # None /\ ReceiveCap(v, desc)[v][e] # 0
<1>1. CASE desc.kind # "senderHosted"
  BY <1>1 DEF ReceiveCap
<1>2. CASE desc.kind = "senderHosted"
  <2> DEFINE i == imports[v][desc.id]
             j == IF i = None THEN 1 ELSE i + 1
  <2>1. ReceiveCap(v, desc) = [imports EXCEPT ![v][desc.id] = j]
    BY <1>2 DEF ReceiveCap
  <2>2. i \in Nat \cup {None}
    BY DEF TypeOK, Descriptor
  <2>3. j # None /\ j # 0
    <3> HIDE DEF i
    <3> QED
      BY <2>2, NoneFacts
  <2> HIDE DEF j
  <2> QED
    BY <2>1, <2>3 DEF TypeOK
<1> QED
  BY <1>1, <1>2

\* A vat takes a message, and may import a capability of it.
LEMMA TakeKeepsNames ==
    ASSUME LiveInv, BothConnected, NEW v \in Vats, chan[Peer(v)] # << >>,
           chan' = Remaining(v), UNCHANGED built,
           \/ imports' = imports
           \/ \E desc \in Descriptor : imports' = ReceiveCap(v, desc)
    PROVE  NamesKept'
<1>1. BuiltNamed(v) /\ NamedOK(imports[v], chan[v]) /\ IdsInv
  BY DEF LiveInv, NamesKept, RefsInv
<1>2. /\ Shorter(chan[Peer(v)], chan'[Peer(v)], Incoming(v)) /\ chan'[v] = chan[v]
  BY <1>1, Received
<1>3. TypeOK /\ Peer(v) \in Vats /\ Peer(v) # v
  BY <1>1, Together
<1>4. /\ imports'[Peer(v)] = imports[Peer(v)]
      /\ \A e \in ExportIds : \/ imports'[v][e] = imports[v][e]
                              \/ imports'[v][e] # None /\ imports'[v][e] # 0
  <2>1. CASE imports' = imports
    BY <2>1
  <2>2. ASSUME NEW desc \in Descriptor, imports' = ReceiveCap(v, desc)
        PROVE  /\ imports'[Peer(v)] = imports[Peer(v)]
               /\ \A e \in ExportIds : \/ imports'[v][e] = imports[v][e]
                                       \/ imports'[v][e] # None /\ imports'[v][e] # 0
    BY <1>3, <2>2, ReceiveCapCounts, ReceiveCapKeeps
  <2> QED
    BY <2>1, <2>2
<1>5. NamedOK(imports'[v], chan'[v])
  BY <1>1, <1>2, <1>4, NamedImported
<1>6. BuiltNamed(v)'
  <2>1. \A e \in ExportIds : imports[v][e] # None => imports'[v][e] # None
    BY <1>4
  <2>2. ASSUME built[v] # None
        PROVE  /\ built[v].target.kind = "importedCap" => built[v].target.id \in ExportIds
               /\ built[v].arg.kind = "import" => built[v].arg.id \in ExportIds
    <3>1. built[v].target \in Target /\ built[v].arg \in Argument
      BY <1>3, <2>2 DEF TypeOK
    <3> QED
      BY <3>1 DEF Target, Argument
  <2> QED
    BY <1>1, <2>1, <2>2 DEF BuiltNamed
<1> QED
  BY <1>2, <1>4, <1>5, <1>6, NamesKeptBy

\* ConnectionState::bootstrap.
LEMMA BootstrapKeepsNames ==
    ASSUME LiveInv, BothConnected, NEW v \in Vats, Bootstrap(v)
    PROVE  NamesKept'
<1> DEFINE m == [t |-> "bootstrap", q |-> FreeId(questions[v]),
                 call |-> issued[v] + 1]
<1>0. /\ IdsInv /\ connected[v] /\ TypeOK /\ issued[v] \in Nat
  BY Together DEF LiveInv, RefsInv
<1>1. /\ MayAsk(v) /\ chan' = Transmit(chan, v, m) /\ UNCHANGED <<imports, built>>
  BY <1>0 DEF Bootstrap
<1>2. m \in Message
  <2>1. FreeId(questions[v]) \in QuestionIds /\ issued[v] + 1 \in Nat
    BY <1>0, <1>1, FreeQuestionId DEF MayAsk
  <2> QED
    BY <2>1 DEF Message
<1>3. Proper(m) /\ \A e \in ExportIds : ~ Names(m, e)
  BY DEF Names, Proper
<1> HIDE DEF m
<1> QED
  BY <1>1, <1>2, <1>3, SayKeepsNames

\* Client::new_call and Request::new: a request is built on what is held.
LEMMA BuildRequestKeepsNames ==
    ASSUME LiveInv, BothConnected, NEW v \in Vats, NEW target \in Targets(v),
           NEW arg \in Arguments(v), BuildRequest(v, target, arg)
    PROVE  NamesKept'
<1>1. /\ IdsInv /\ NamedOK(imports[v], chan[v])
  BY DEF LiveInv, RefsInv, NamesKept
<1>2. TypeOK /\ Peer(v) \in Vats /\ Peer(v) # v
  BY <1>1, Together
<1>3. /\ built' = [built EXCEPT ![v] = [target |-> target, arg |-> arg]]
      /\ UNCHANGED <<chan, imports>>
  BY DEF BuildRequest
<1>4. built'[v] = [target |-> target, arg |-> arg] /\ built'[Peer(v)] = built[Peer(v)]
  BY <1>2, <1>3 DEF TypeOK
<1>5. built'[v].target = target /\ built'[v].arg = arg
  BY <1>4
<1>6. /\ target.kind = "importedCap" => imports[v][target.id] # None
      /\ arg.kind = "import" => imports[v][arg.id] # None
  BY DEF Targets, Arguments
<1>7. BuiltNamed(v)'
  BY <1>3, <1>5, <1>6 DEF BuiltNamed
<1> QED
  BY <1>1, <1>3, <1>4, <1>7, NamesKeptBy

\* Request::send and send_internal.
LEMMA SendRequestKeepsNames ==
    ASSUME LiveInv, BothConnected, NEW v \in Vats, SendRequest(v)
    PROVE  NamesKept'
<1> DEFINE target == built[v].target
           arg == built[v].arg
           w == WriteDescriptor(v, arg)
           m == [t |-> "call", q |-> FreeId(questions[v]),
                 call |-> issued[v] + 1, target |-> target, cap |-> w.desc]
<1>0. /\ IdsInv /\ TypeOK /\ issued[v] \in Nat /\ built[v] # None
      /\ ExportsMatch(v) /\ BuiltNamed(v)
  <2>1. IdsInv /\ BuiltNamed(v) /\ RefsInv
    BY DEF LiveInv, RefsInv, NamesKept
  <2> QED
    BY <2>1, Together, BothBooks DEF SendRequest
<1>1. /\ target \in Target /\ arg \in Argument /\ MayAsk(v) /\ RoomToExport(v, arg)
  BY <1>0 DEF SendRequest, TypeOK
<1>2. /\ target.kind = "importedCap" => imports[v][target.id] # None
      /\ arg.kind = "import" => imports[v][arg.id] # None
  BY <1>0 DEF BuiltNamed
<1>3. /\ built' = [built EXCEPT ![v] = None] /\ UNCHANGED imports
  BY DEF SendRequest
<1>4. ~ w.panic /\ w.desc \in Descriptor
  <2> HIDE DEF arg
  <2> QED
    BY <1>0, <1>1, WriteDescriptorCounts
<1>5. w.desc.kind = "receiverHosted" => arg.kind = "import" /\ w.desc.id = arg.id
  <2> HIDE DEF arg
  <2> QED
    BY WriteDescriptorNames
<1>6. chan' = Transmit(chan, v, m)
  BY <1>4 DEF SendRequest
<1> HIDE DEF w, target, arg
<1>7. m \in Message
  <2>1. FreeId(questions[v]) \in QuestionIds /\ issued[v] + 1 \in Nat
    BY <1>0, <1>1, FreeQuestionId DEF MayAsk
  <2> QED
    BY <1>1, <1>4, <2>1 DEF Message
<1>8. Proper(m) /\ \A e \in ExportIds : Names(m, e) => imports[v][e] # None
  BY <1>2, <1>5 DEF Names, Proper
<1> HIDE DEF m
<1> QED
  BY <1>3, <1>6, <1>7, <1>8, SayKeepsNames

\* QuestionRef::drop.
LEMMA DropQuestionRefKeepsNames ==
    ASSUME LiveInv, BothConnected, NEW v \in Vats, NEW p \in QuestionIds,
           DropQuestionRef(v, p)
    PROVE  NamesKept'
<1> DEFINE qn == questions[v][p]
           m == [t |-> "finish", q |-> p, call |-> qn.call,
                 release |-> ReleaseResultCaps(qn)]
<1>1. /\ qn # None
      /\ chan' = chan \/ chan' = Transmit(chan, v, m)
      /\ UNCHANGED <<imports, built>>
  BY DEF DropQuestionRef
<1>2. qn \in Question
  <2>1. IdsInv
    BY DEF LiveInv, RefsInv
  <2> QED
    BY <1>1, <2>1, Sides
<1>3. m \in Message
  <2> HIDE DEF qn
  <2> QED BY <1>2 DEF Message, ReleaseResultCaps, Question
<1>4. Proper(m) /\ \A e \in ExportIds : ~ Names(m, e)
  BY DEF Names, Proper
<1> HIDE DEF m
<1> QED
  BY <1>1, <1>3, <1>4, SayKeepsNames, NamesUntouched

\* ImportClient::drop.
LEMMA DropImportKeepsNames ==
    ASSUME LiveInv, BothConnected, NEW v \in Vats, NEW p \in ExportIds, DropImport(v, p)
    PROVE  NamesKept'
<1> DEFINE m == [t |-> "release", id |-> p, n |-> imports[v][p]]
<1>1. /\ imports[v][p] # None /\ chan' = Transmit(chan, v, m)
      /\ ~HeldByRequest(v, "importedCap", p) /\ ~HeldByRequest(v, "import", p)
      /\ imports' = [imports EXCEPT ![v][p] = None] /\ UNCHANGED built
  BY DEF DropImport
<1>2. /\ IdsInv /\ NamedOK(imports[v], chan[v]) /\ BuiltNamed(v)
  BY DEF LiveInv, RefsInv, NamesKept
<1>3. TypeOK /\ Peer(v) \in Vats /\ Peer(v) # v
  BY <1>2, Together
<1>4. m \in Message /\ m.t = "release" /\ m.id = p /\ m.n = imports[v][p]
  BY <1>1, <1>3 DEF Message, TypeOK
<1> HIDE DEF m
<1>5. Longer(chan[v], chan'[v], m) /\ chan'[Peer(v)] = chan[Peer(v)]
  BY <1>1, <1>2, <1>4, Sent
<1>6. /\ imports'[Peer(v)] = imports[Peer(v)] /\ imports'[v][p] = None
      /\ \A e \in ExportIds : e # p => imports'[v][e] = imports[v][e]
  BY <1>1, <1>3 DEF TypeOK
<1>7. NoImport(imports[v], imports'[v], p)
  BY <1>1, <1>6 DEF NoImport
<1>8. NamedOK(imports'[v], chan'[v])
  BY <1>2, <1>4, <1>5, <1>7, NamedDropped
<1>9. BuiltNamed(v)'
  <2> SUFFICES ASSUME built[v] # None
               PROVE  /\ built[v].target.kind = "importedCap" =>
                            imports'[v][built[v].target.id] # None
                      /\ built[v].arg.kind = "import" =>
                            imports'[v][built[v].arg.id] # None
    BY <1>1 DEF BuiltNamed
  <2>1. /\ built[v].target.kind = "importedCap" => built[v].target.id # p
        /\ built[v].arg.kind = "import" => built[v].arg.id # p
    BY <1>1 DEF HeldByRequest
  <2>2. built[v].target \in Target /\ built[v].arg \in Argument
    BY <1>3 DEF TypeOK
  <2>3. /\ built[v].target.kind = "importedCap" => built[v].target.id \in ExportIds
        /\ built[v].arg.kind = "import" => built[v].arg.id \in ExportIds
    BY <2>2 DEF Target, Argument
  <2> QED
    BY <1>2, <1>6, <2>1, <2>3 DEF BuiltNamed
<1> QED
  BY <1>1, <1>5, <1>6, <1>8, <1>9, NamesKeptBy

\* eagerly_evaluate and ensure_initialized.
LEMMA RunningKeepsNames ==
    ASSUME LiveInv, BothConnected, NEW v \in Vats, NEW q \in QuestionIds,
           CancelCall(v, q) \/ InitResults(v, q)
    PROVE  NamesKept'
<1>1. UNCHANGED <<imports, built, chan>>
  BY DEF CancelCall, InitResults
<1> QED
  BY <1>1, NamesUntouched

\* A Return without a capability.
LEMMA ReturnNothingKeepsNames ==
    ASSUME LiveInv, BothConnected, NEW v \in Vats, NEW q \in QuestionIds,
           ReturnException(v, q) \/ \E ok \in BOOLEAN : ReturnCanceled(v, q, ok)
    PROVE  NamesKept'
<1> DEFINE m(which) == ReturnMsg(v, q, which, [kind |-> "none", id |-> 0], FALSE)
<1>1. /\ Unreturned(v, q) /\ UNCHANGED <<imports, built>>
      /\ \E which \in {"exception", "canceled"} : chan' = Transmit(chan, v, m(which))
  BY DEF ReturnException, ReturnCanceled, Executing
<1>2. PICK which \in {"exception", "canceled"} : chan' = Transmit(chan, v, m(which))
  BY <1>1
<1>3. TypeOK
  BY Together DEF LiveInv, RefsInv
<1>4. m(which) \in Message
  BY <1>1, <1>3, ReturnMsgType, NoCap
<1>5. Proper(m(which)) /\ \A e \in ExportIds : ~ Names(m(which), e)
  BY DEF Names, Proper, ReturnMsg
<1> HIDE DEF m
<1> QED
  BY <1>1, <1>2, <1>4, <1>5, SayKeepsNames

\* A Return with results: a capability handed back is an import that is held.
LEMMA ReturnResultsKeepsNames ==
    ASSUME LiveInv, BothConnected, NEW v \in Vats, NEW q \in QuestionIds,
           NEW arg \in Arguments(v), ReturnResults(v, q, arg)
    PROVE  NamesKept'
<1> DEFINE w == WriteDescriptor(v, arg)
           nofinish == arg.kind = "none"
           m == ReturnMsg(v, q, "results", w.desc, nofinish)
<1>1. /\ Unreturned(v, q) /\ RoomToExport(v, arg) /\ UNCHANGED <<imports, built>>
  BY DEF ReturnResults, Executing
<1>2. RefsInv
  BY DEF LiveInv
<1>3. TypeOK /\ ExportsMatch(v)
  BY <1>2, BothBooks
<1>4. arg \in Argument
  BY <1>3, ApplicationChoices
<1>5. arg.kind = "import" => imports[v][arg.id] # None
  BY DEF Arguments
<1>6. ~ w.panic /\ w.desc \in Descriptor
  BY <1>1, <1>3, <1>4, WriteDescriptorCounts
<1>7. w.desc.kind = "receiverHosted" => arg.kind = "import" /\ w.desc.id = arg.id
  BY WriteDescriptorNames
<1>8. chan' = Transmit(chan, v, m)
  BY <1>6 DEF ReturnResults
<1>9. nofinish \in BOOLEAN
  OBVIOUS
<1> HIDE DEF w, nofinish
<1>10. m \in Message
  BY <1>1, <1>3, <1>6, <1>9, ReturnMsgType
<1>11. Proper(m) /\ \A e \in ExportIds : Names(m, e) => imports[v][e] # None
  BY <1>5, <1>7 DEF Names, Proper, ReturnMsg
<1> HIDE DEF m
<1> QED
  BY <1>1, <1>8, <1>10, <1>11, SayKeepsNames

\* handle_bootstrap: the answer gives a capability of the callee's own.
LEMMA HandleBootstrapKeepsNames ==
    ASSUME LiveInv, BothConnected, BothConnected', NEW v \in Vats, HandleBootstrap(v)
    PROVE  NamesKept'
<1> DEFINE m == Incoming(v)
           arg == [kind |-> "local", id |-> BootstrapCap]
           w == WriteDescriptor(v, arg)
           r == [t |-> "return", q |-> m.q, call |-> m.call,
                 which |-> "results", cap |-> w.desc, nofinish |-> FALSE]
<1>0. RefsInv /\ IdsInv /\ BuiltNamed(v) /\ NamedOK(imports[v], chan[v])
  BY DEF LiveInv, RefsInv, NamesKept
<1>1. /\ connected[v] /\ TypeOK /\ loop[Peer(v)] /\ Peer(v) \in Vats /\ Peer(v) # v
      /\ chan[Peer(v)] # << >> /\ m.t = "bootstrap" /\ UNCHANGED <<imports, built>>
  BY <1>0, Together DEF HandleBootstrap, CanHandle
<1>2. CASE w.panic
  <2>1. UNCHANGED chan
    BY <1>1, <1>2 DEF HandleBootstrap
  <2> QED
    BY <1>1, <2>1, NamesUntouched
<1>3. CASE ~ w.panic /\ answers[v][m.q] # None
  <2>1. Disconnect(v, Drained(v))
    BY <1>1, <1>3 DEF HandleBootstrap, Fail
  <2> QED
    BY <1>1, <2>1, DisconnectEnds
<1>4. CASE ~ w.panic /\ answers[v][m.q] = None
  <2>1. chan' = Transmit(Remaining(v), v, r)
    BY <1>1, <1>4 DEF HandleBootstrap
  <2>2. w.desc.kind # "receiverHosted"
    <3>1. arg.kind # "import"
      OBVIOUS
    <3> HIDE DEF arg
    <3> QED
      BY <3>1, WriteDescriptorNames
  <2>3. m \in Message /\ Shorter(chan[Peer(v)], Remaining(v)[Peer(v)], m)
        /\ Remaining(v)[v] = chan[v] /\ Remaining(v) \in Channels
    BY <1>0, <1>1, Received
  <2>4. w.desc \in Descriptor
    <3>1. arg \in Argument /\ ExportsMatch(v)
      BY <1>0, CapsAssumption, BothBooks DEF Argument
    <3>2. RoomToExport(v, arg)
      BY <1>1, <1>4 DEF HandleBootstrap
    <3> HIDE DEF arg
    <3> QED
      BY <1>1, <3>1, <3>2, WriteDescriptorCounts
  <2>5. m.q \in QuestionIds /\ m.call \in Nat
    BY <1>1, <2>3 DEF Message
  <2> HIDE DEF w, m
  <2>6. r.t = "return" /\ r.cap = w.desc /\ r \in Message
    BY <2>4, <2>5 DEF Message
  <2> HIDE DEF r
  <2>7. Proper(r) /\ \A e \in ExportIds : ~ Names(r, e)
    BY <2>2, <2>6 DEF Names, Proper
  <2>8. chan'[v] = Append(chan[v], r) /\ chan'[Peer(v)] = Remaining(v)[Peer(v)]
    <3>1. chan' = [Remaining(v) EXCEPT ![v] = Append(chan[v], r)]
      BY <1>1, <2>1, <2>3 DEF Transmit
    <3> QED
      BY <1>1, <2>3, <3>1 DEF Channels
  <2>9. Longer(chan[v], chan'[v], r)
    <3>1. chan[v] \in Seq(Message)
      BY <1>0, Together
    <3> QED
      BY <2>6, <2>8, <3>1, LongerByAppend
  <2>10. NamedOK(imports'[v], chan'[v])
    BY <1>0, <1>1, <2>7, <2>9, NamedSaid
  <2>11. BuiltNamed(v)'
    BY <1>0, <1>1 DEF BuiltNamed
  <2> QED
    BY <1>1, <2>3, <2>8, <2>10, <2>11, NamesKeptBy
<1> QED
  BY <1>2, <1>3, <1>4

\* handle_message, Call.
LEMMA HandleCallKeepsNames ==
    ASSUME LiveInv, BothConnected, BothConnected', NEW v \in Vats, HandleCall(v)
    PROVE  NamesKept'
<1> DEFINE m == Incoming(v)
<1>1. IdsInv /\ TypeOK /\ chan[Peer(v)] # << >> /\ m.t = "call" /\ UNCHANGED built
  BY Together DEF HandleCall, CanHandle, LiveInv, RefsInv
<1>2. CASE Disconnect(v, Drained(v))
  BY <1>1, <1>2, DisconnectEnds
<1>3. CASE chan' = Remaining(v) /\ imports' = ReceiveCap(v, m.cap)
  <2>1. m \in Message
    BY <1>1, <1>3, Received
  <2>2. m.cap \in Descriptor
    BY <1>1, <2>1 DEF Message
  <2> QED
    BY <1>1, <1>3, <2>2, TakeKeepsNames
<1> QED
  BY <1>2, <1>3 DEF HandleCall, Fail

\* handle_message, Return.
LEMMA HandleReturnKeepsNames ==
    ASSUME LiveInv, BothConnected, BothConnected', NEW v \in Vats, HandleReturn(v)
    PROVE  NamesKept'
<1> DEFINE m == Incoming(v)
           qn == questions[v][m.q]
<1>1. IdsInv /\ TypeOK /\ chan[Peer(v)] # << >> /\ m.t = "return" /\ UNCHANGED built
  BY Together DEF HandleReturn, CanHandle, LiveInv, RefsInv
<1>2. CASE qn = None
  <2>1. Disconnect(v, Drained(v))
    BY <1>2 DEF HandleReturn, Fail
  <2> QED
    BY <1>1, <2>1, DisconnectEnds
<1>3. CASE qn # None
  <2>1. /\ chan' = IF qn.ref /\ m.which = "canceled"
                   THEN Transmit(Remaining(v), v, UnimplementedMsg)
                   ELSE Remaining(v)
        /\ imports' = IF qn.ref /\ m.which = "results"
                      THEN ReceiveCap(v, m.cap) ELSE imports
    BY <1>3 DEF HandleReturn
  <2>2. m \in Message /\ Shorter(chan[Peer(v)], Remaining(v)[Peer(v)], m)
    BY <1>1, Received
  <2>3. m.q \in QuestionIds /\ m.cap \in Descriptor
    BY <1>1, <2>2 DEF Message
  <2>4. SlotOK(qn, answers[Peer(v)][m.q], issued[v], chan[v], chan[Peer(v)], m.q)
    BY <1>1, <2>3, Sides
  <2>5. ~ (qn.ref /\ m.which = "canceled")
    <3>1. ReturnTo(m, m.q)
      BY <1>1 DEF ReturnTo
    <3>2. 1 \in 1 .. Len(chan[Peer(v)]) /\ chan[Peer(v)][1] = m
      BY <2>2, ShorterPlaces DEF Shorter
    <3> HIDE DEF m, qn
    <3> QED
      BY <2>4, <3>1, <3>2 DEF SlotOK, ReturnOK
  <2>6. /\ chan' = Remaining(v)
        /\ imports' = imports \/ imports' = ReceiveCap(v, m.cap)
    BY <2>1, <2>5
  <2> HIDE DEF m, qn
  <2> QED
    BY <1>1, <2>3, <2>6, TakeKeepsNames
<1> QED
  BY <1>2, <1>3

\* handle_finish and handle_message, Release.
LEMMA HandleReleasesKeepNames ==
    ASSUME LiveInv, BothConnected, BothConnected', NEW v \in Vats,
           HandleFinish(v) \/ HandleRelease(v)
    PROVE  NamesKept'
<1>1. TypeOK /\ chan[Peer(v)] # << >> /\ UNCHANGED <<imports, built>>
  BY Together DEF HandleFinish, HandleRelease, CanHandle, LiveInv, RefsInv
<1>2. CASE Disconnect(v, Drained(v))
  BY <1>1, <1>2, DisconnectEnds
<1>3. CASE chan' = Remaining(v)
  BY <1>1, <1>3, TakeKeepsNames
<1> QED
  BY <1>2, <1>3 DEF HandleFinish, HandleRelease, Fail

-----------------------------------------------------------------------------
(* No step forgets a name *)

\* Every step keeps LiveInv.
LEMMA NextLiveInv == LiveInv /\ [Next]_vars => LiveInv'
<1> SUFFICES ASSUME LiveInv, [Next]_vars PROVE LiveInv'
  OBVIOUS
<1>1. RefsInv /\ IdsInv /\ TypeOK /\ \A v \in Vats : connected[v] => loop[v]
  BY DEF LiveInv, RefsInv, IdsInv
<1>2. RefsInv'
  BY <1>1, NextRefsInv
<1>3. \A u \in Vats : connected'[u] => connected[u] /\ loop'[u]
  BY <1>1, NeverReconnects
<1>4. BothConnected' => NamesKept'
  <2> SUFFICES ASSUME BothConnected' PROVE NamesKept'
    OBVIOUS
  <2>1. BothConnected
    BY <1>3 DEF BothConnected
  <2>2. CASE UNCHANGED vars
    BY <2>1, <2>2, NamesUntouched DEF vars
  <2>3. ASSUME NEW v \in Vats, Application(v)
        PROVE  NamesKept'
    BY <2>1, <2>3, BootstrapKeepsNames, BuildRequestKeepsNames, SendRequestKeepsNames,
       DropQuestionRefKeepsNames, DropImportKeepsNames DEF Application
  <2>4. ASSUME NEW v \in Vats, NEW q \in QuestionIds, CancelCall(v, q) \/ InitResults(v, q)
        PROVE  NamesKept'
    BY <2>1, <2>4, RunningKeepsNames
  <2>5. ASSUME NEW v \in Vats, Return(v)
        PROVE  NamesKept'
    BY <1>1, <2>1, <2>5, ReturnNothingKeepsNames, ReturnResultsKeepsNames, NotRedirected
       DEF Return
  <2>6. ASSUME NEW v \in Vats, HandleMessage(v)
        PROVE  NamesKept'
    <3>1. CASE HandleAbort(v)
      <4>1. Disconnect(v, Drained(v))
        BY <3>1 DEF HandleAbort
      <4> QED
        BY <1>1, <4>1, DisconnectEnds
    <3> QED
      BY <2>1, <2>6, <3>1, HandleBootstrapKeepsNames, HandleCallKeepsNames,
         HandleReturnKeepsNames, HandleReleasesKeepNames DEF HandleMessage
  <2>7. ASSUME NEW v \in Vats, Disconnector(v) \/ ConnectionLost(v)
        PROVE  FALSE
    <3>1. \E ch : Disconnect(v, ch)
      BY <2>7 DEF Disconnector, ConnectionLost
    <3> QED
      BY <1>1, <3>1, DisconnectEnds
  <2>8. ASSUME NEW v \in Vats, DowncastMap(v)
        PROVE  NamesKept'
    BY <2>1, <2>8, DowncastMapOnly, NamesUntouched
  <2> QED
    BY <2>2, <2>3, <2>4, <2>5, <2>6, <2>7, <2>8 DEF Next
<1> QED
  BY <1>2, <1>4 DEF LiveInv

\* It holds of a new connection.
LEMMA InitLiveInv == Init => LiveInv
<1> SUFFICES ASSUME Init PROVE LiveInv
  OBVIOUS
<1>1. RefsInv
  BY InitRefsInv
<1>2. \A v \in Vats : /\ built[v] = None /\ chan[v] = << >>
                      /\ \A e \in ExportIds : imports[v][e] = None
  BY DEF Init, InitFrom
<1>3. None # 0
  BY NoneFacts
<1>4. \A v \in Vats : BuiltNamed(v) /\ NamedOK(imports[v], chan[v])
  BY <1>2, <1>3 DEF BuiltNamed, NamedOK
<1> QED
  BY <1>1, <1>4 DEF LiveInv, NamesKept

\* What the sender still holds, or has yet to give back, is exported.
LEMMA KeptIsExported ==
    ASSUME RefsInv, BothConnected, NEW v \in Vats, NEW i, NEW e \in ExportIds,
           NamedOK(imports[v], chan[v]), KeptFor(imports[v], chan[v], i, e)
    PROVE  exports[Peer(v)][e] # None
<1> DEFINE x == exports[Peer(v)][e]
           im == imports[v][e]
           qs == questions[v]
           ans == answers[Peer(v)]
           out == chan[v]
           in == chan[Peer(v)]
           came == Cardinality(ComingTo(qs, in, e))
           given == Cardinality(GivenBack(out, e))
           done == Cardinality(FinishedOf(ans, out, e))
<1>1. /\ Books(exports[Peer(v)], imports[v], qs, ans, out, in)
      /\ imports[v] \in [ExportIds -> Nat \cup {None}]
      /\ out \in Seq(Message) /\ in \in Seq(Message)
  BY BothBooks
<1>2. Ledger(x, im, qs, ans, out, in, e)
  BY <1>1 DEF Books
<1>3. im \in Nat \cup {None} /\ im # 0
  BY <1>1 DEF NamedOK
<1>4. IsFiniteSet(GivenBack(out, e)) /\ RefsOf(x) = Held(im) + came + given + done
  BY <1>2 DEF Ledger, Balance
<1>5. /\ came \in Nat /\ given \in Nat /\ done \in Nat
  BY <1>1, <1>4, ComingNumber, FinishedNumber, FS_CardinalityType
<1>6. Held(im) \in Nat /\ (im # None => Held(im) # 0)
  BY <1>3 DEF Held
<1>7. ASSUME im = None PROVE given # 0
  <2>1. PICK j \in 1 .. Len(out) : i < j /\ Gives(out[j], e) /\ out[j].n # 0
    BY <1>7 DEF KeptFor
  <2>2. out[j] \in Message
    BY <1>1, <2>1
  <2>3. out[j].n \in Nat
    BY <2>1, <2>2 DEF Gives, Message
  <2>4. 1 \in 1 .. out[j].n /\ j \in DOMAIN out
    BY <1>1, <2>1, <2>3
  <2>5. <<j, 1>> \in GivenBack(out, e)
    BY <2>1, <2>4 DEF GivenBack
  <2> QED
    BY <1>4, <2>5, FS_EmptySet
<1> HIDE DEF x, im, came, given, done
<1>8. RefsOf(x) # 0
  BY <1>4, <1>5, <1>6, <1>7
<1> QED
  BY <1>8 DEF RefsOf, x

\* The capability a message hands back is kept alive by its sender.
LEMMA LiveInvLive == LiveInv => ReceiverHostedIsLive
<1> SUFFICES ASSUME LiveInv, BothConnected, NEW v \in Vats, chan[v] # << >>,
                    Head(chan[v]).t \in {"call", "return"},
                    Head(chan[v]).cap.kind = "receiverHosted"
             PROVE  exports[Peer(v)][Head(chan[v]).cap.id] # None
  BY DEF ReceiverHostedIsLive
<1> DEFINE m == Head(chan[v])
           e == m.cap.id
<1>1. RefsInv /\ NamedOK(imports[v], chan[v])
  BY DEF LiveInv, NamesKept
<1>2. chan[v] \in Seq(Message)
  BY <1>1, BothBooks
<1>3. m \in Message /\ 1 \in 1 .. Len(chan[v]) /\ chan[v][1] = m
  BY <1>2
<1> HIDE DEF m
<1>4. m.t \in {"call", "return"} /\ m.cap.kind = "receiverHosted"
  BY DEF m
<1>5. m.cap \in Descriptor
  BY <1>3, <1>4 DEF Message
<1>6. e \in ExportIds
  BY <1>5 DEF Descriptor
<1>7. Names(m, e)
  BY <1>4 DEF Names
<1> HIDE DEF e
<1>8. KeptFor(imports[v], chan[v], 1, e)
  BY <1>1, <1>3, <1>6, <1>7 DEF NamedOK
<1>9. exports[Peer(v)][e] # None
  BY <1>1, <1>6, <1>8, KeptIsExported
<1> QED
  BY <1>9 DEF e, m

\* For every bound, a capability handed back to its host with a Call or a
\* Return is still in the host's export table when the message arrives:
\* ImportClient::drop sends its Release behind every message that names the
\* import, and the references it gives back are still counted until then.
THEOREM HandedBackIsLive == Spec => []ReceiverHostedIsLive
<1>1. Init => LiveInv
  BY InitLiveInv
<1>2. LiveInv /\ [Next]_vars => LiveInv'
  BY NextLiveInv
<1>3. LiveInv => ReceiverHostedIsLive
  BY LiveInvLive
<1> QED
  BY <1>1, <1>2, <1>3, PTL DEF Spec

-----------------------------------------------------------------------------
(* No handler fails *)

\* When a call arrives its id is free: the Finish of the last call under it
\* came ahead.
LEMMA AskMeetsNoAnswer ==
    ASSUME NEW qn, NEW an, NEW n, NEW out, NEW in, NEW q,
           SlotOK(qn, an, n, out, in, q), 1 \in 1 .. Len(out), AskFor(out[1], q)
    PROVE  an = None
<1> SUFFICES ASSUME an # None PROVE FALSE
  OBVIOUS
<1>1. About(out[1], qn) /\ an.call # qn.call
  BY DEF SlotOK, AskOK
<1>2. ~ About(an, qn) /\ qn # None
  BY <1>1 DEF About
<1>3. PICK j \in 1 .. Len(out) : FinishOf(out[j], q) /\ out[j].call = an.call
  BY <1>2 DEF SlotOK, AnswerOK
<1>4. ~ About(out[j], qn)
  BY <1>1, <1>3 DEF About
<1>5. j < 1
  BY <1>3, <1>4 DEF SlotOK, FinishOK
<1> QED
  BY <1>5

\* What a vat knows of a message that arrives from its peer.
LEMMA Arrives ==
    ASSUME LiveInv, BothConnected, NEW v \in Vats, chan[Peer(v)] # << >>
    PROVE  LET m == Incoming(v)
               out == chan[Peer(v)]
           IN  /\ m \in Message /\ Proper(m) /\ 1 \in 1 .. Len(out) /\ out[1] = m
               /\ NamedOK(imports[Peer(v)], out) /\ out \in Seq(Message)
               /\ RefsInv /\ IdsInv /\ TypeOK /\ connected[v]
               /\ Peer(v) \in Vats /\ Peer(Peer(v)) = v
               /\ \A q \in QuestionIds :
                    /\ SlotOK(questions[Peer(v)][q], answers[v][q], issued[Peer(v)],
                              out, chan[v], q)
                    /\ SlotOK(questions[v][q], answers[Peer(v)][q], issued[v],
                              chan[v], out, q)
                    /\ answers[v][q] \in Answer \cup {None}
               /\ Books(exports[v], imports[Peer(v)], questions[Peer(v)], answers[v],
                        out, chan[v])
               /\ imports[Peer(v)] \in [ExportIds -> Nat \cup {None}]
               /\ chan[v] \in Seq(Message)
<1>1. RefsInv /\ IdsInv
  BY DEF LiveInv, RefsInv
<1>2. /\ TypeOK /\ connected[v] /\ Peer(v) \in Vats /\ Peer(Peer(v)) = v
      /\ chan[v] \in Seq(Message) /\ chan[Peer(v)] \in Seq(Message)
  BY <1>1, Together
<1>3. NamedOK(imports[Peer(v)], chan[Peer(v)])
  BY <1>2 DEF LiveInv, NamesKept
<1>4. /\ 1 \in 1 .. Len(chan[Peer(v)]) /\ chan[Peer(v)][1] = Incoming(v)
      /\ Incoming(v) \in Message
  BY <1>2 DEF Incoming
<1>5. Proper(Incoming(v))
  BY <1>3, <1>4 DEF NamedOK
<1>6. /\ Books(exports[v], imports[Peer(v)], questions[Peer(v)], answers[v],
               chan[Peer(v)], chan[v])
      /\ imports[Peer(v)] \in [ExportIds -> Nat \cup {None}]
  BY <1>1, BothBooks
<1>7. \A q \in QuestionIds :
        /\ SlotOK(questions[Peer(v)][q], answers[v][q], issued[Peer(v)],
                  chan[Peer(v)], chan[v], q)
        /\ SlotOK(questions[v][q], answers[Peer(v)][q], issued[v],
                  chan[v], chan[Peer(v)], q)
        /\ answers[v][q] \in Answer \cup {None}
  BY <1>1, Sides
<1> QED
  BY <1>1, <1>2, <1>3, <1>4, <1>5, <1>6, <1>7

\* Whatever part of the balance n is, an export has as many references.
LEMMA EnoughRefs ==
    ASSUME TypeOK, NEW v \in Vats, NEW e \in ExportIds, NEW n \in Nat \ {0},
           NEW r \in Nat, RefsOf(exports[v][e]) = n + r
    PROVE  MayRelease(v, e, n)
<1>1. exports[v][e] # None
  BY DEF RefsOf
<1>2. exports[v][e].refcount = n + r
  BY <1>1 DEF RefsOf
<1> QED
  BY <1>1, <1>2 DEF MayRelease

\* The references a Release gives back are there.
LEMMA ReleaseFits ==
    ASSUME LiveInv, BothConnected, NEW v \in Vats, chan[Peer(v)] # << >>,
           Incoming(v).t = "release"
    PROVE  MayRelease(v, Incoming(v).id, Incoming(v).n)
<1> DEFINE m == Incoming(v)
           e == m.id
           out == chan[Peer(v)]
           out2 == Tail(out)
           in == chan[v]
           qs == questions[Peer(v)]
           ans == answers[v]
           im == imports[Peer(v)][e]
           x == exports[v][e]
           h == Held(im)
           c == Cardinality(ComingTo(qs, in, e))
           g == Cardinality(GivenBack(out2, e))
           f == Cardinality(FinishedOf(ans, out, e))
<1>1. /\ m \in Message /\ Proper(m) /\ TypeOK /\ out \in Seq(Message) /\ in \in Seq(Message)
      /\ Books(exports[v], imports[Peer(v)], qs, ans, out, in)
      /\ imports[Peer(v)] \in [ExportIds -> Nat \cup {None}]
  BY Arrives
<1>2. e \in ExportIds /\ m.n \in Nat /\ m.n # 0 /\ Gives(m, e)
  BY <1>1 DEF Message, Proper, Gives
<1>3. Shorter(out, out2, m) /\ out2 \in Seq(Message)
  BY <1>1, ShorterByTail DEF Incoming
<1>4. Ledger(x, im, qs, ans, out, in, e) /\ im \in Nat \cup {None}
  BY <1>1, <1>2 DEF Books
<1>5. h \in Nat
  BY <1>4 DEF Held
<1> HIDE DEF m, e, out, out2, in, qs, ans, im, x
<1>6. /\ IsFiniteSet(GivenBack(out, e))
      /\ RefsOf(x) = h + c + Cardinality(GivenBack(out, e)) + f
  BY <1>4 DEF Ledger, Balance
<1>7. IsFiniteSet(GivenBack(out2, e)) /\ Cardinality(GivenBack(out, e)) = g + m.n
  BY <1>1, <1>2, <1>3, <1>6, GivenTaken
<1>8. c \in Nat /\ g \in Nat /\ f \in Nat
  BY <1>1, <1>3, <1>7, ComingNumber, FinishedNumber, FS_CardinalityType
<1> HIDE DEF h, c, g, f
<1>9. RefsOf(x) = m.n + (h + c + g + f) /\ h + c + g + f \in Nat
  <2> DEFINE n == m.n
  <2>1. n \in Nat /\ RefsOf(x) = h + c + (g + n) + f
    BY <1>2, <1>6, <1>7
  <2> HIDE DEF n
  <2>2. RefsOf(x) = n + (h + c + g + f) /\ h + c + g + f \in Nat
    BY <1>5, <1>8, <2>1
  <2> QED
    BY <2>2 DEF n
<1>10. MayRelease(v, e, m.n)
  BY <1>1, <1>2, <1>9, EnoughRefs DEF x
<1> QED
  BY <1>10 DEF e, m

\* The result of a call that its Finish releases is there.
LEMMA FinishFits ==
    ASSUME LiveInv, BothConnected, NEW v \in Vats, chan[Peer(v)] # << >>,
           Incoming(v).t = "finish", Incoming(v).release,
           answers[v][Incoming(v).q] # None, answers[v][Incoming(v).q].exp # None
    PROVE  MayRelease(v, answers[v][Incoming(v).q].exp, 1)
<1> DEFINE m == Incoming(v)
           out == chan[Peer(v)]
           in == chan[v]
           qs == questions[Peer(v)]
           ans == answers[v]
           a == ans[m.q]
           e == a.exp
           im == imports[Peer(v)][e]
           x == exports[v][e]
           h == Held(im)
           c == Cardinality(ComingTo(qs, in, e))
           g == Cardinality(GivenBack(out, e))
           f == Cardinality(FinishedOf(ans, out, e))
<1>1. /\ m \in Message /\ TypeOK /\ out \in Seq(Message) /\ in \in Seq(Message)
      /\ Books(exports[v], imports[Peer(v)], qs, ans, out, in)
      /\ imports[Peer(v)] \in [ExportIds -> Nat \cup {None}]
      /\ 1 \in 1 .. Len(out) /\ out[1] = m
  BY Arrives
<1>2. m.q \in QuestionIds
  BY <1>1 DEF Message
<1>3. /\ a \in Answer /\ a # None /\ e # None
      /\ SlotOK(qs[m.q], a, issued[Peer(v)], out, in, m.q)
  BY <1>2, Arrives
<1>4. e \in ExportIds
  <2> HIDE DEF a
  <2> QED
    BY <1>3 DEF Answer
<1>5. m.t = "finish" /\ m.release
  OBVIOUS
<1>6. Ledger(x, im, qs, ans, out, in, e) /\ im \in Nat \cup {None}
  BY <1>1, <1>4 DEF Books
<1> HIDE DEF m, out, in, qs, im, x
<1>7. h \in Nat
  BY <1>6 DEF Held
<1>8. a.call = m.call
  <2>1. FinishOf(out[1], m.q)
    BY <1>1, <1>5 DEF FinishOf
  <2> HIDE DEF a
  <2> QED
    BY <1>1, <1>3, <2>1, FinishMeetsItsCall
<1>9. Settles(m, ans, e)
  BY <1>3, <1>5, <1>8 DEF Settles
<1> HIDE DEF ans, e
<1>10. /\ IsFiniteSet(GivenBack(out, e)) /\ RefsOf(x) = h + c + g + f
  BY <1>6 DEF Ledger, Balance
<1>11. /\ c \in Nat /\ g \in Nat /\ f \in Nat /\ f # 0
  <2>1. c \in Nat /\ g \in Nat /\ f \in Nat
    BY <1>1, <1>10, ComingNumber, FinishedNumber, FS_CardinalityType
  <2>2. IsFiniteSet(FinishedOf(ans, out, e))
    BY <1>1, FinishedNumber, PlacesFinite
  <2>3. 1 \in FinishedOf(ans, out, e)
    BY <1>1, <1>9 DEF FinishedOf
  <2> QED
    BY <2>1, <2>2, <2>3, FS_EmptySet
<1> HIDE DEF h, c, g, f
<1>12. RefsOf(x) = 1 + (h + c + g + (f - 1)) /\ h + c + g + (f - 1) \in Nat
  BY <1>7, <1>10, <1>11
<1>13. MayRelease(v, e, 1)
  BY <1>1, <1>4, <1>12, EnoughRefs DEF x
<1> QED
  BY <1>13 DEF e, a, ans, m

\* handle_bootstrap.
LEMMA HandleBootstrapSucceeds ==
    ASSUME LiveInv, BothConnected, NEW v \in Vats, HandleBootstrap(v)
    PROVE  UNCHANGED <<connected, err>>
<1> DEFINE m == Incoming(v)
<1>1. chan[Peer(v)] # << >> /\ m.t = "bootstrap"
  BY DEF HandleBootstrap, CanHandle
<1>2. m \in Message /\ 1 \in 1 .. Len(chan[Peer(v)]) /\ chan[Peer(v)][1] = m /\ connected[v]
  BY <1>1, Arrives
<1>3. m.q \in QuestionIds
  BY <1>1, <1>2 DEF Message
<1>4. SlotOK(questions[Peer(v)][m.q], answers[v][m.q], issued[Peer(v)],
             chan[Peer(v)], chan[v], m.q)
  BY <1>1, <1>3, Arrives
<1>5. AskFor(m, m.q)
  BY <1>1 DEF AskFor
<1>6. answers[v][m.q] = None
  <2> HIDE DEF m
  <2> QED
    BY <1>2, <1>4, <1>5, AskMeetsNoAnswer
<1> QED
  BY <1>2, <1>6 DEF HandleBootstrap

\* handle_message, Call: the export it is for is alive, and its id is free.
LEMMA HandleCallSucceeds ==
    ASSUME LiveInv, BothConnected, NEW v \in Vats, HandleCall(v)
    PROVE  UNCHANGED <<connected, err>>
<1> DEFINE m == Incoming(v)
<1>1. chan[Peer(v)] # << >> /\ m.t = "call"
  BY DEF HandleCall, CanHandle
<1>2. /\ m \in Message /\ 1 \in 1 .. Len(chan[Peer(v)]) /\ chan[Peer(v)][1] = m
      /\ RefsInv /\ Peer(v) \in Vats /\ Peer(Peer(v)) = v
      /\ NamedOK(imports[Peer(v)], chan[Peer(v)])
  BY <1>1, Arrives
<1>3. m.q \in QuestionIds /\ m.target \in Target
  BY <1>1, <1>2 DEF Message
<1>4. SlotOK(questions[Peer(v)][m.q], answers[v][m.q], issued[Peer(v)],
             chan[Peer(v)], chan[v], m.q)
  BY <1>1, <1>3, Arrives
<1>5. AskFor(m, m.q)
  BY <1>1 DEF AskFor
<1>6. answers[v][m.q] = None
  <2> HIDE DEF m
  <2> QED
    BY <1>2, <1>4, <1>5, AskMeetsNoAnswer
<1>7. ASSUME m.target.kind # "promisedAnswer" PROVE exports[v][m.target.id] # None
  <2>1. m.target.kind = "importedCap" /\ m.target.id \in ExportIds
    BY <1>3, <1>7 DEF Target
  <2>2. Names(m, m.target.id)
    BY <1>1, <2>1 DEF Names
  <2> HIDE DEF m
  <2>3. KeptFor(imports[Peer(v)], chan[Peer(v)], 1, m.target.id)
    BY <1>2, <2>1, <2>2 DEF NamedOK
  <2>4. exports[Peer(Peer(v))][m.target.id] # None
    BY <1>2, <2>1, <2>3, KeptIsExported
  <2> QED
    BY <1>2, <2>4
<1> QED
  BY <1>6, <1>7 DEF HandleCall

\* handle_message, Return: the question is still in the table.
LEMMA HandleReturnSucceeds ==
    ASSUME LiveInv, BothConnected, NEW v \in Vats, HandleReturn(v)
    PROVE  UNCHANGED <<connected, err>>
<1> DEFINE m == Incoming(v)
<1>1. chan[Peer(v)] # << >> /\ m.t = "return"
  BY DEF HandleReturn, CanHandle
<1>2. m \in Message /\ 1 \in 1 .. Len(chan[Peer(v)]) /\ chan[Peer(v)][1] = m
  BY <1>1, Arrives
<1>3. m.q \in QuestionIds
  BY <1>1, <1>2 DEF Message
<1>4. SlotOK(questions[v][m.q], answers[Peer(v)][m.q], issued[v],
             chan[v], chan[Peer(v)], m.q)
  BY <1>1, <1>3, Arrives
<1>5. ReturnTo(m, m.q)
  BY <1>1 DEF ReturnTo
<1>6. questions[v][m.q] # None
  <2> HIDE DEF m
  <2> QED
    BY <1>2, <1>4, <1>5 DEF SlotOK, ReturnOK, About
<1> QED
  BY <1>6 DEF HandleReturn

\* handle_finish and handle_message, Release: what is released is there.
LEMMA HandleReleasesSucceed ==
    ASSUME LiveInv, BothConnected, NEW v \in Vats, HandleFinish(v) \/ HandleRelease(v)
    PROVE  UNCHANGED <<connected, err>>
<1>1. chan[Peer(v)] # << >>
  BY DEF HandleFinish, HandleRelease, CanHandle
<1>2. CASE HandleRelease(v)
  <2>1. Incoming(v).t = "release"
    BY <1>2 DEF HandleRelease, CanHandle
  <2>2. MayRelease(v, Incoming(v).id, Incoming(v).n)
    BY <1>1, <2>1, ReleaseFits
  <2> QED
    BY <1>2, <2>2 DEF HandleRelease
<1>3. CASE HandleFinish(v)
  <2> DEFINE m == Incoming(v)
             a == answers[v][m.q]
             drop == a # None /\ m.release /\ a.exp # None
  <2>1. m.t = "finish"
    BY <1>3 DEF HandleFinish, CanHandle
  <2>2. drop => MayRelease(v, a.exp, 1)
    BY <1>1, <2>1, FinishFits
  <2> QED
    BY <1>3, <2>2 DEF HandleFinish
<1> QED
  BY <1>2, <1>3

\* No handler fails, and no vat is told that one did.
LEMMA HandlersSucceedTogether ==
    ASSUME LiveInv, BothConnected, NEW v \in Vats, HandleMessage(v)
    PROVE  UNCHANGED <<connected, err>>
<1>1. ~ HandleAbort(v)
  <2> SUFFICES ASSUME HandleAbort(v) PROVE FALSE
    OBVIOUS
  <2>1. chan[Peer(v)] # << >> /\ Incoming(v).t \in {"abort", "unimplemented"}
    BY DEF HandleAbort, CanHandle
  <2>2. Proper(Incoming(v))
    BY <2>1, Arrives
  <2> QED
    BY <2>1, <2>2 DEF Proper
<1> QED
  BY <1>1, HandleBootstrapSucceeds, HandleCallSucceeds, HandleReturnSucceeds,
     HandleReleasesSucceed DEF HandleMessage

\* Only a handler can find a message wrong, and as long as both ends have the
\* connection only Disconnector::disconnect and the loss of the stream end it.
LEMMA NoErrorStep ==
    ASSUME LiveInv, BothConnected, [Next]_vars
    PROVE  /\ UNCHANGED err
           /\ \/ UNCHANGED connected
              \/ \E v \in Vats : Disconnector(v) \/ ConnectionLost(v)
<1>1. CASE UNCHANGED vars
  BY <1>1 DEF vars
<1>2. ASSUME NEW v \in Vats, Application(v)
      PROVE  UNCHANGED <<connected, err>>
  BY <1>2 DEF Application, Bootstrap, BuildRequest, SendRequest, DropQuestionRef, DropImport
<1>3. ASSUME NEW v \in Vats, NEW q \in QuestionIds, CancelCall(v, q) \/ InitResults(v, q)
      PROVE  UNCHANGED <<connected, err>>
  BY <1>3 DEF CancelCall, InitResults
<1>4. ASSUME NEW v \in Vats, Return(v)
      PROVE  UNCHANGED <<connected, err>>
  BY <1>4 DEF Return, ReturnCanceled, ReturnResults, ReturnException, ReturnRedirected
<1>5. ASSUME NEW v \in Vats, HandleMessage(v)
      PROVE  UNCHANGED <<connected, err>>
  BY <1>5, HandlersSucceedTogether
<1>6. ASSUME NEW v \in Vats, Disconnector(v) \/ ConnectionLost(v)
      PROVE  UNCHANGED err
  BY <1>6 DEF Disconnector, ConnectionLost
<1>7. ASSUME NEW v \in Vats, DowncastMap(v)
      PROVE  UNCHANGED <<connected, err>>
  BY <1>7, DowncastMapOnly
<1> QED
  BY <1>1, <1>2, <1>3, <1>4, <1>5, <1>6, <1>7 DEF Next

-----------------------------------------------------------------------------
(* What a vat that has gone leaves behind *)

\* In what follows a vat is connected and its peer no longer is: qs, ans and xs
\* are the vat's questions, answers and exports, out is what the peer had sent
\* that is not handled yet, and K are the exports the peer held an import of.

\* Each Return left finds a question that awaits it.
LeftReturns(qs, out) ==
    \A i \in 1 .. Len(out), q \in QuestionIds : ReturnTo(out[i], q) =>
        /\ qs[q] # None /\ qs[q].awaiting
        /\ \A j \in 1 .. Len(out) : ReturnTo(out[j], q) => j = i
        /\ out[i].which = "canceled" => ~ qs[q].ref

\* A call left finds its id free: the Finish of an answer under it is ahead.
LeftAsk(an, out, q) ==
    \A i \in 1 .. Len(out) : AskFor(out[i], q) =>
        /\ \A j \in 1 .. Len(out) : AskFor(out[j], q) => j = i
        /\ an # None =>
            /\ an.status = "returned"
            /\ \E j \in 1 .. Len(out) : j < i /\ FinishOf(out[j], q) /\ out[j].call = an.call

\* A Finish left is about the answer it will meet.
LeftFinish(an, out, q) ==
    \A i \in 1 .. Len(out) : FinishOf(out[i], q) =>
        /\ \A j \in 1 .. Len(out) : FinishOf(out[j], q) /\ out[j].call = out[i].call => j = i
        /\ \A j \in 1 .. Len(out) : AskFor(out[j], q) /\ j < i => out[j].call = out[i].call
        /\ an # None => \/ an.call = out[i].call
                        \/ \E j \in 1 .. Len(out) : AskFor(out[j], q) /\ j < i

\* An export that a message left names is held, or given up behind it.
LeftNames(K, out) ==
    \A i \in 1 .. Len(out) :
        /\ out[i].t # "unimplemented" /\ (out[i].t = "release" => out[i].n # 0)
        /\ \A e \in ExportIds : Names(out[i], e) =>
            e \in K \/ \E j \in 1 .. Len(out) : i < j /\ Gives(out[j], e) /\ out[j].n # 0

\* There are at least as many references as are held and will be given back.
LeftCount(x, ans, out, K, e) ==
    /\ IsFiniteSet(GivenBack(out, e))
    /\ (IF e \in K THEN 1 ELSE 0) + Cardinality(GivenBack(out, e))
            + Cardinality(FinishedOf(ans, out, e)) <= RefsOf(x)

LeftOK(K, qs, ans, xs, out) ==
    /\ LeftReturns(qs, out)
    /\ \A q \in QuestionIds : LeftAsk(ans[q], out, q) /\ LeftFinish(ans[q], out, q)
    /\ LeftNames(K, out)
    /\ \A e \in ExportIds : LeftCount(xs[e], ans, out, K, e)

\* What the two vats know of each other leaves each with enough.
LEMMA LeftAskFrom ==
    ASSUME NEW qn, NEW an, NEW n, NEW out, NEW in, NEW q,
           SlotOK(qn, an, n, out, in, q), an \in Answer \cup {None}
    PROVE  LeftAsk(an, out, q)
<1> SUFFICES ASSUME NEW i \in 1 .. Len(out), AskFor(out[i], q), an # None
             PROVE  /\ an.status = "returned"
                    /\ \E j \in 1 .. Len(out) :
                            j < i /\ FinishOf(out[j], q) /\ out[j].call = an.call
  BY DEF LeftAsk, SlotOK, AskOK
<1>1. About(out[i], qn) /\ an.call # qn.call
  BY DEF SlotOK, AskOK
<1>2. ~ About(an, qn) /\ qn # None
  BY <1>1 DEF About
<1>3. ~ Open(an) /\ an.status # "redirected"
  BY <1>2 DEF SlotOK, AnswerOK
<1>4. an.status = "returned"
  BY <1>3 DEF Open, Answer
<1>5. PICK j \in 1 .. Len(out) : FinishOf(out[j], q) /\ out[j].call = an.call
  BY <1>2 DEF SlotOK, AnswerOK
<1>6. ~ About(out[j], qn)
  BY <1>1, <1>5 DEF About
<1>7. j < i
  BY <1>5, <1>6 DEF SlotOK, FinishOK
<1> QED
  BY <1>4, <1>5, <1>7

\* So a Finish is about the answer it meets: the last one was asked ahead of it.
LEMMA LeftFinishFrom ==
    ASSUME NEW qn, NEW an, NEW n, NEW out, NEW in, NEW q, SlotOK(qn, an, n, out, in, q)
    PROVE  LeftFinish(an, out, q)
<1> SUFFICES ASSUME NEW i \in 1 .. Len(out), FinishOf(out[i], q)
             PROVE  /\ \A j \in 1 .. Len(out) :
                        FinishOf(out[j], q) /\ out[j].call = out[i].call => j = i
                    /\ \A j \in 1 .. Len(out) :
                        AskFor(out[j], q) /\ j < i => out[j].call = out[i].call
                    /\ an # None => \/ an.call = out[i].call
                                    \/ \E j \in 1 .. Len(out) : AskFor(out[j], q) /\ j < i
  BY DEF LeftFinish
<1>1. ASSUME NEW j \in 1 .. Len(out), FinishOf(out[j], q), out[j].call = out[i].call
      PROVE  j = i
  <2>1. About(out[j], qn) <=> About(out[i], qn)
    BY <1>1 DEF About
  <2> QED
    BY <1>1, <2>1 DEF SlotOK, FinishOK
<1>2. ASSUME NEW j \in 1 .. Len(out), AskFor(out[j], q), j < i
      PROVE  out[j].call = out[i].call
  <2>1. About(out[j], qn)
    BY <1>2 DEF SlotOK, AskOK
  <2>2. ~ About(out[i], qn) => i < j
    BY <1>2 DEF SlotOK, FinishOK
  <2>3. About(out[i], qn)
    BY <1>2, <2>2
  <2> QED
    BY <2>1, <2>3 DEF About
<1>3. ASSUME an # None, an.call # out[i].call
      PROVE  \E j \in 1 .. Len(out) : AskFor(out[j], q) /\ j < i
  <2>1. CASE About(out[i], qn)
    <3>1. ~ About(an, qn) /\ qn # None
      BY <1>3, <2>1 DEF About
    <3>2. PICK j \in 1 .. Len(out) : FinishOf(out[j], q) /\ out[j].call = an.call
      BY <1>3, <3>1 DEF SlotOK, AnswerOK
    <3>3. ~ About(out[j], qn)
      BY <3>1, <3>2 DEF About
    <3>4. PICK k \in 1 .. Len(out) : AskFor(out[k], q)
      BY <3>1, <3>2, <3>3 DEF SlotOK, FinishOK
    <3>5. k < i
      BY <2>1, <3>4 DEF SlotOK, FinishOK
    <3> QED
      BY <3>4, <3>5
  <2>2. CASE ~ About(out[i], qn)
    <3>1. CASE About(an, qn)
      <4>1. qn # None /\ an.call = qn.call
        BY <3>1 DEF About
      <4>2. \E k \in 1 .. Len(out) : AskFor(out[k], q)
        BY <2>2, <4>1 DEF SlotOK, FinishOK
      <4> QED
        BY <1>3, <4>1, <4>2 DEF SlotOK, AskOK
    <3>2. CASE ~ About(an, qn)
      <4>1. PICK j \in 1 .. Len(out) : FinishOf(out[j], q) /\ out[j].call = an.call
        BY <1>3, <3>2 DEF SlotOK, AnswerOK
      <4>2. ~ About(out[j], qn)
        BY <3>2, <4>1 DEF About
      <4>3. j = i
        BY <2>2, <4>1, <4>2 DEF SlotOK, FinishOK
      <4> QED
        BY <1>3, <4>1, <4>3
    <3> QED
      BY <3>1, <3>2
  <2> QED
    BY <2>1, <2>2
<1> QED
  BY <1>1, <1>2, <1>3

\* A Return finds its question, as it does while both are connected.
LEMMA LeftReturnsFrom ==
    ASSUME NEW qs, NEW ans, NEW n, NEW out, NEW in,
           \A q \in QuestionIds : SlotOK(qs[q], ans[q], n, in, out, q)
    PROVE  LeftReturns(qs, out)
  BY DEF LeftReturns, SlotOK, ReturnOK, About

\* What a message names the peer holds, or gives back behind it.
LEMMA LeftNamesFrom ==
    ASSUME NEW ims, NEW out, NamedOK(ims, out)
    PROVE  LeftNames({e \in ExportIds : ims[e] # None}, out)
  BY DEF LeftNames, NamedOK, KeptFor, Proper

\* A balance is enough: an import that is held counts one reference or more.
LEMMA LeftCountFrom ==
    ASSUME NEW x, NEW im \in Nat \cup {None}, im # 0, NEW qs, NEW ans,
           NEW out \in Seq(Message), NEW in \in Seq(Message), NEW e \in ExportIds,
           Ledger(x, im, qs, ans, out, in, e), NEW K, e \in K <=> im # None
    PROVE  LeftCount(x, ans, out, K, e)
<1> DEFINE k == IF e \in K THEN 1 ELSE 0
           h == Held(im)
           c == Cardinality(ComingTo(qs, in, e))
           g == Cardinality(GivenBack(out, e))
           f == Cardinality(FinishedOf(ans, out, e))
<1>1. IsFiniteSet(GivenBack(out, e)) /\ RefsOf(x) = h + c + g + f
  BY DEF Ledger, Balance
<1>2. c \in Nat /\ g \in Nat /\ f \in Nat
  BY <1>1, LedgerNumbers
<1>3. h \in Nat /\ k \in Nat /\ k <= h
  <2>1. CASE im = None
    BY <2>1 DEF Held
  <2>2. CASE im # None
    <3>1. h = im /\ k = 1 /\ im \in Nat
      BY <2>2 DEF Held
    <3> QED
      BY <3>1
  <2> QED
    BY <2>1, <2>2
<1> HIDE DEF k, h, c, g, f
<1>4. k + g + f <= RefsOf(x)
  BY <1>1, <1>2, <1>3
<1> QED
  BY <1>1, <1>4 DEF LeftCount, k, g, f

\* The peer's Abort is the last that it sends.
LEMMA LeftAborted ==
    ASSUME NEW K, NEW qs, NEW ans, NEW xs, NEW out \in Seq(Message),
           LeftOK(K, qs, ans, xs, out), NEW m \in Message, m.t = "abort",
           NEW out2 \in Seq(Message), Longer(out, out2, m)
    PROVE  LeftOK(K, qs, ans, xs, out2)
<1>1. /\ Len(out) \in Nat /\ Len(out2) = Len(out) + 1 /\ out2[Len(out) + 1] = m
      /\ \A i \in 1 .. Len(out) : i \in 1 .. Len(out2) /\ out2[i] = out[i]
      /\ \A i \in 1 .. Len(out2) : i = Len(out) + 1 \/ i \in 1 .. Len(out)
  BY DEF Longer
<1>2. \A q, e : ~ ReturnTo(m, q) /\ ~ AskFor(m, q) /\ ~ FinishOf(m, q) /\ ~ Names(m, e)
  BY DEF ReturnTo, AskFor, FinishOf, Names
<1>3. LeftReturns(qs, out2)
  <2>1. LeftReturns(qs, out)
    BY DEF LeftOK
  <2>2. \A i \in 1 .. Len(out2), q \in QuestionIds : ReturnTo(out2[i], q) =>
            i \in 1 .. Len(out) /\ out2[i] = out[i]
    BY <1>1, <1>2
  <2>3. \A i \in 1 .. Len(out2), q \in QuestionIds : ReturnTo(out2[i], q) =>
            i \in 1 .. Len(out) /\ out2[i] = out[i] /\ ReturnTo(out[i], q)
    BY <2>2
  <2> QED
    BY <2>1, <2>3 DEF LeftReturns
<1>4. ASSUME NEW q \in QuestionIds
      PROVE  LeftAsk(ans[q], out2, q) /\ LeftFinish(ans[q], out2, q)
  <2> DEFINE an == ans[q]
  <2>1. LeftAsk(an, out, q) /\ LeftFinish(an, out, q)
    BY DEF LeftOK
  <2> HIDE DEF an
  <2>2. \A i \in 1 .. Len(out2) : AskFor(out2[i], q) \/ FinishOf(out2[i], q) =>
            i \in 1 .. Len(out) /\ out2[i] = out[i]
    BY <1>1, <1>2
  <2>3. LeftAsk(an, out2, q)
    BY <1>1, <2>1, <2>2 DEF LeftAsk
  <2>4. LeftFinish(an, out2, q)
    <3> SUFFICES ASSUME NEW i \in 1 .. Len(out2), FinishOf(out2[i], q)
                 PROVE  /\ \A j \in 1 .. Len(out2) :
                            FinishOf(out2[j], q) /\ out2[j].call = out2[i].call => j = i
                        /\ \A j \in 1 .. Len(out2) :
                            AskFor(out2[j], q) /\ j < i => out2[j].call = out2[i].call
                        /\ an # None =>
                            \/ an.call = out2[i].call
                            \/ \E j \in 1 .. Len(out2) : AskFor(out2[j], q) /\ j < i
      BY DEF LeftFinish
    <3>1. i \in 1 .. Len(out) /\ out2[i] = out[i] /\ FinishOf(out[i], q)
      BY <2>2
    <3>2. /\ \A j \in 1 .. Len(out) : FinishOf(out[j], q) /\ out[j].call = out[i].call => j = i
          /\ \A j \in 1 .. Len(out) : AskFor(out[j], q) /\ j < i => out[j].call = out[i].call
          /\ an # None => \/ an.call = out[i].call
                          \/ \E j \in 1 .. Len(out) : AskFor(out[j], q) /\ j < i
      BY <2>1, <3>1 DEF LeftFinish
    <3> QED
      BY <1>1, <2>2, <3>1, <3>2
  <2> QED
    BY <2>3, <2>4 DEF an
<1>5. LeftNames(K, out2)
  BY <1>1, <1>2 DEF LeftOK, LeftNames
<1>6. ASSUME NEW e \in ExportIds PROVE LeftCount(xs[e], ans, out2, K, e)
  <2>1. LeftCount(xs[e], ans, out, K, e)
    BY DEF LeftOK
  <2>2. ~ Gives(m, e) /\ ~ Settles(m, ans, e)
    BY DEF Gives, Settles
  <2>3. IsFiniteSet(GivenBack(out2, e)) /\ GivenBack(out2, e) = GivenBack(out, e)
    BY <2>1, <2>2, GivenSent DEF LeftCount
  <2>4. FinishedOf(ans, out2, e) = FinishedOf(ans, out, e)
    BY <2>2, FinishedSent
  <2> QED
    BY <2>1, <2>3, <2>4 DEF LeftCount
<1> QED
  BY <1>3, <1>4, <1>5, <1>6 DEF LeftOK

\* A Return left is taken with its question; other questions stay.
LEMMA LeftReturnsTaken ==
    ASSUME NEW qs, NEW qs2, NEW out, NEW out2, NEW m, LeftReturns(qs, out),
           Shorter(out, out2, m),
           \A q \in QuestionIds : qs2[q] = qs[q] \/ ReturnTo(m, q)
    PROVE  LeftReturns(qs2, out2)
<1>1. /\ Len(out2) \in Nat /\ 1 \in 1 .. Len(out) /\ out[1] = m
      /\ \A i \in 1 .. Len(out2) :
            i + 1 \in 1 .. Len(out) /\ out2[i] = out[i + 1] /\ i + 1 # 1
  BY ShorterPlaces DEF Shorter
<1>2. ASSUME NEW i \in 1 .. Len(out2), NEW q \in QuestionIds, ReturnTo(out2[i], q)
      PROVE  /\ qs2[q] # None /\ qs2[q].awaiting
             /\ \A j \in 1 .. Len(out2) : ReturnTo(out2[j], q) => j = i
             /\ out2[i].which = "canceled" => ~ qs2[q].ref
  <2>1. ReturnTo(out[i + 1], q) /\ i + 1 \in 1 .. Len(out) /\ i + 1 # 1
    BY <1>1, <1>2
  <2>2. /\ qs[q] # None /\ qs[q].awaiting
        /\ \A j \in 1 .. Len(out) : ReturnTo(out[j], q) => j = i + 1
        /\ out[i + 1].which = "canceled" => ~ qs[q].ref
    BY <2>1 DEF LeftReturns
  <2>3. ~ ReturnTo(m, q)
    BY <1>1, <2>1, <2>2
  <2>4. \A j \in 1 .. Len(out2) : ReturnTo(out2[j], q) => j + 1 = i + 1
    BY <1>1, <2>2
  <2> QED
    BY <1>1, <2>2, <2>3, <2>4
<1> QED
  BY <1>2 DEF LeftReturns

\* What the vat does with a question of its own: one that awaits its Return
\* stays and goes on awaiting it.
StillAwaits(qn, qn2) ==
    \/ qn2 = qn \/ qn = None \/ ~ qn.awaiting
    \/ qn2 # None /\ qn2.awaiting /\ (qn2.ref => qn.ref)

\* The Returns left still find their questions.
LEMMA LeftReturnsChanged ==
    ASSUME NEW qs, NEW qs2, NEW out, LeftReturns(qs, out),
           \A q \in QuestionIds : StillAwaits(qs[q], qs2[q])
    PROVE  LeftReturns(qs2, out)
  BY DEF LeftReturns, StillAwaits

\* What the vat does with an answer of its own: it goes, or stays the answer
\* of its call and, once returned, returned.
StillAnswers(an, an2) ==
    \/ an2 = None
    \/ /\ an # None /\ an2.call = an.call
       /\ an2.status = an.status \/ an.status # "returned"

\* The calls and Finishes left are still about the same answers.
LEMMA LeftSlotChanged ==
    ASSUME NEW an, NEW an2, NEW out, NEW q, LeftAsk(an, out, q), LeftFinish(an, out, q),
           StillAnswers(an, an2)
    PROVE  LeftAsk(an2, out, q) /\ LeftFinish(an2, out, q)
<1>1. LeftAsk(an2, out, q)
  BY DEF LeftAsk, StillAnswers
<1>2. LeftFinish(an2, out, q)
  BY DEF LeftFinish, StillAnswers
<1> QED
  BY <1>1, <1>2

\* A message that neither makes the call under id q nor finishes it is taken.
LEMMA LeftSlotTaken ==
    ASSUME NEW an, NEW out, NEW out2, NEW m, NEW q, LeftAsk(an, out, q),
           LeftFinish(an, out, q), Shorter(out, out2, m), ~ AskFor(m, q), ~ FinishOf(m, q)
    PROVE  LeftAsk(an, out2, q) /\ LeftFinish(an, out2, q)
<1>1. /\ Len(out2) \in Nat /\ 1 \in 1 .. Len(out) /\ out[1] = m
      /\ \A i \in 1 .. Len(out2) : i + 1 \in 1 .. Len(out) /\ out2[i] = out[i + 1]
      /\ \A i \in 1 .. Len(out) : i # 1 => i - 1 \in 1 .. Len(out2) /\ out2[i - 1] = out[i]
  BY DEF Shorter
<1>2. ASSUME NEW i \in 1 .. Len(out2), AskFor(out2[i], q)
      PROVE  /\ \A j \in 1 .. Len(out2) : AskFor(out2[j], q) => j = i
             /\ an # None =>
                /\ an.status = "returned"
                /\ \E j \in 1 .. Len(out2) :
                        j < i /\ FinishOf(out2[j], q) /\ out2[j].call = an.call
  <2>1. i + 1 \in 1 .. Len(out) /\ AskFor(out[i + 1], q)
    BY <1>1, <1>2
  <2>2. \A j \in 1 .. Len(out) : AskFor(out[j], q) => j = i + 1
    BY <2>1 DEF LeftAsk
  <2>3. \A j \in 1 .. Len(out2) : AskFor(out2[j], q) => j + 1 = i + 1
    BY <1>1, <2>2
  <2>4. ASSUME an # None
        PROVE  \E j \in 1 .. Len(out2) :
                    j < i /\ FinishOf(out2[j], q) /\ out2[j].call = an.call
    <3>1. PICK j \in 1 .. Len(out) :
                    j < i + 1 /\ FinishOf(out[j], q) /\ out[j].call = an.call
      BY <2>1, <2>4 DEF LeftAsk
    <3>2. j # 1
      BY <1>1, <3>1
    <3>3. j - 1 \in 1 .. Len(out2) /\ out2[j - 1] = out[j] /\ j - 1 < i
      BY <1>1, <3>1, <3>2
    <3> QED
      BY <3>1, <3>3
  <2>5. an # None => an.status = "returned"
    BY <2>1 DEF LeftAsk
  <2> QED
    BY <2>3, <2>4, <2>5
<1>3. ASSUME NEW i \in 1 .. Len(out2), FinishOf(out2[i], q)
      PROVE  /\ \A j \in 1 .. Len(out2) :
                    FinishOf(out2[j], q) /\ out2[j].call = out2[i].call => j = i
             /\ \A j \in 1 .. Len(out2) :
                    AskFor(out2[j], q) /\ j < i => out2[j].call = out2[i].call
             /\ an # None => \/ an.call = out2[i].call
                             \/ \E j \in 1 .. Len(out2) : AskFor(out2[j], q) /\ j < i
  <2>1. i + 1 \in 1 .. Len(out) /\ FinishOf(out[i + 1], q) /\ out2[i] = out[i + 1]
    BY <1>1, <1>3
  <2>2. /\ \A j \in 1 .. Len(out) :
                FinishOf(out[j], q) /\ out[j].call = out[i + 1].call => j = i + 1
        /\ \A j \in 1 .. Len(out) :
                AskFor(out[j], q) /\ j < i + 1 => out[j].call = out[i + 1].call
        /\ an # None => \/ an.call = out[i + 1].call
                        \/ \E j \in 1 .. Len(out) : AskFor(out[j], q) /\ j < i + 1
    BY <2>1 DEF LeftFinish
  <2>3. ASSUME NEW j \in 1 .. Len(out2), FinishOf(out2[j], q), out2[j].call = out2[i].call
        PROVE  j = i
    <3>1. j + 1 \in 1 .. Len(out) /\ out2[j] = out[j + 1]
      BY <1>1
    <3>2. j + 1 = i + 1
      BY <2>1, <2>2, <2>3, <3>1
    <3> QED
      BY <3>2
  <2>4. ASSUME NEW j \in 1 .. Len(out2), AskFor(out2[j], q), j < i
        PROVE  out2[j].call = out2[i].call
    <3>1. j + 1 \in 1 .. Len(out) /\ out2[j] = out[j + 1] /\ j + 1 < i + 1
      BY <1>1, <2>4
    <3> QED
      BY <2>1, <2>2, <2>4, <3>1
  <2>5. ASSUME an # None, an.call # out2[i].call
        PROVE  \E j \in 1 .. Len(out2) : AskFor(out2[j], q) /\ j < i
    <3>1. PICK j \in 1 .. Len(out) : AskFor(out[j], q) /\ j < i + 1
      BY <2>1, <2>2, <2>5
    <3>2. j # 1
      BY <1>1, <3>1
    <3>3. j - 1 \in 1 .. Len(out2) /\ out2[j - 1] = out[j] /\ j - 1 < i
      BY <1>1, <3>1, <3>2
    <3> QED
      BY <3>1, <3>3
  <2> QED
    BY <2>3, <2>4, <2>5
<1> QED
  BY <1>2, <1>3 DEF LeftAsk, LeftFinish

\* A call left meets no answer under its id.
LEMMA LeftAskMeetsNone ==
    ASSUME NEW an, NEW out, NEW q, LeftAsk(an, out, q), 1 \in 1 .. Len(out),
           AskFor(out[1], q)
    PROVE  an = None
<1>1. \A j \in 1 .. Len(out) : ~ (j < 1)
  OBVIOUS
<1> QED
  BY <1>1 DEF LeftAsk

\* A call left is taken: what finishes it is about its answer.
LEMMA LeftSlotEntered ==
    ASSUME NEW an, NEW an2, NEW out, NEW out2, NEW m, NEW q, LeftAsk(an, out, q),
           LeftFinish(an, out, q), Shorter(out, out2, m), AskFor(m, q),
           an2.call = m.call
    PROVE  LeftAsk(an2, out2, q) /\ LeftFinish(an2, out2, q)
<1>1. /\ Len(out2) \in Nat /\ 1 \in 1 .. Len(out) /\ out[1] = m
      /\ \A i \in 1 .. Len(out2) :
            i + 1 \in 1 .. Len(out) /\ out2[i] = out[i + 1] /\ 1 < i + 1
  BY DEF Shorter
<1>2. \A j \in 1 .. Len(out) : AskFor(out[j], q) => j = 1
  BY <1>1 DEF LeftAsk
<1>3. \A i \in 1 .. Len(out2) : ~ AskFor(out2[i], q)
  BY <1>1, <1>2
<1>4. ASSUME NEW i \in 1 .. Len(out2), FinishOf(out2[i], q)
      PROVE  /\ \A j \in 1 .. Len(out2) :
                    FinishOf(out2[j], q) /\ out2[j].call = out2[i].call => j = i
             /\ an2.call = out2[i].call
  <2>1. i + 1 \in 1 .. Len(out) /\ FinishOf(out[i + 1], q) /\ out2[i] = out[i + 1]
    BY <1>1, <1>4
  <2>2. \A j \in 1 .. Len(out) :
            FinishOf(out[j], q) /\ out[j].call = out[i + 1].call => j = i + 1
    BY <2>1 DEF LeftFinish
  <2>3. \A j \in 1 .. Len(out2) :
            FinishOf(out2[j], q) /\ out2[j].call = out2[i].call => j + 1 = i + 1
    BY <1>1, <2>1, <2>2
  <2>4. out[1].call = out[i + 1].call
    BY <1>1, <2>1 DEF LeftFinish
  <2> QED
    BY <1>1, <2>1, <2>3, <2>4
<1> QED
  BY <1>3, <1>4 DEF LeftAsk, LeftFinish

\* A Finish left is about the answer it meets.
LEMMA LeftFinishMeets ==
    ASSUME NEW an, NEW out, NEW q, LeftFinish(an, out, q), 1 \in 1 .. Len(out),
           FinishOf(out[1], q), an # None
    PROVE  an.call = out[1].call
<1>1. \A j \in 1 .. Len(out) : ~ (j < 1)
  OBVIOUS
<1> QED
  BY <1>1 DEF LeftFinish

\* A Finish left is taken: an answer that has returned goes.
LEMMA LeftSlotFinished ==
    ASSUME NEW an, NEW an2, NEW out, NEW out2, NEW m, NEW q, LeftAsk(an, out, q),
           LeftFinish(an, out, q), Shorter(out, out2, m), FinishOf(m, q),
           an2 = None \/ (an # None /\ an.status # "returned" /\ an2.call = an.call)
    PROVE  LeftAsk(an2, out2, q) /\ LeftFinish(an2, out2, q)
<1>1. /\ Len(out2) \in Nat /\ 1 \in 1 .. Len(out) /\ out[1] = m
      /\ \A i \in 1 .. Len(out2) : i + 1 \in 1 .. Len(out) /\ out2[i] = out[i + 1]
      /\ \A i \in 1 .. Len(out) : i # 1 => i - 1 \in 1 .. Len(out2) /\ out2[i - 1] = out[i]
  BY DEF Shorter
<1>2. ~ AskFor(m, q)
  BY DEF AskFor, FinishOf
<1>3. ASSUME NEW i \in 1 .. Len(out2), AskFor(out2[i], q)
      PROVE  an2 = None /\ \A j \in 1 .. Len(out2) : AskFor(out2[j], q) => j = i
  <2>1. i + 1 \in 1 .. Len(out) /\ AskFor(out[i + 1], q)
    BY <1>1, <1>3
  <2>2. \A j \in 1 .. Len(out) : AskFor(out[j], q) => j = i + 1
    BY <2>1 DEF LeftAsk
  <2>3. \A j \in 1 .. Len(out2) : AskFor(out2[j], q) => j + 1 = i + 1
    BY <1>1, <2>2
  <2>4. an # None => an.status = "returned"
    BY <2>1 DEF LeftAsk
  <2> QED
    BY <2>3, <2>4
<1>4. ASSUME NEW i \in 1 .. Len(out2), FinishOf(out2[i], q)
      PROVE  /\ \A j \in 1 .. Len(out2) :
                    FinishOf(out2[j], q) /\ out2[j].call = out2[i].call => j = i
             /\ \A j \in 1 .. Len(out2) :
                    AskFor(out2[j], q) /\ j < i => out2[j].call = out2[i].call
             /\ an2 # None => \/ an2.call = out2[i].call
                              \/ \E j \in 1 .. Len(out2) : AskFor(out2[j], q) /\ j < i
  <2>1. i + 1 \in 1 .. Len(out) /\ FinishOf(out[i + 1], q) /\ out2[i] = out[i + 1]
    BY <1>1, <1>4
  <2>2. /\ \A j \in 1 .. Len(out) :
                FinishOf(out[j], q) /\ out[j].call = out[i + 1].call => j = i + 1
        /\ \A j \in 1 .. Len(out) :
                AskFor(out[j], q) /\ j < i + 1 => out[j].call = out[i + 1].call
        /\ an # None => \/ an.call = out[i + 1].call
                        \/ \E j \in 1 .. Len(out) : AskFor(out[j], q) /\ j < i + 1
    BY <2>1 DEF LeftFinish
  <2>3. ASSUME NEW j \in 1 .. Len(out2), FinishOf(out2[j], q), out2[j].call = out2[i].call
        PROVE  j = i
    <3>1. j + 1 \in 1 .. Len(out) /\ out2[j] = out[j + 1]
      BY <1>1
    <3>2. j + 1 = i + 1
      BY <2>1, <2>2, <2>3, <3>1
    <3> QED
      BY <3>2
  <2>4. ASSUME NEW j \in 1 .. Len(out2), AskFor(out2[j], q), j < i
        PROVE  out2[j].call = out2[i].call
    <3>1. j + 1 \in 1 .. Len(out) /\ out2[j] = out[j + 1] /\ j + 1 < i + 1
      BY <1>1, <2>4
    <3> QED
      BY <2>1, <2>2, <2>4, <3>1
  <2>5. ASSUME an2 # None, an2.call # out2[i].call
        PROVE  \E j \in 1 .. Len(out2) : AskFor(out2[j], q) /\ j < i
    <3>1. PICK j \in 1 .. Len(out) : AskFor(out[j], q) /\ j < i + 1
      BY <2>1, <2>2, <2>5
    <3>2. j # 1
      BY <1>1, <1>2, <3>1
    <3>3. j - 1 \in 1 .. Len(out2) /\ out2[j - 1] = out[j] /\ j - 1 < i
      BY <1>1, <3>1, <3>2
    <3> QED
      BY <3>1, <3>3
  <2> QED
    BY <2>3, <2>4, <2>5
<1> QED
  BY <1>3, <1>4 DEF LeftAsk, LeftFinish

\* A message left is taken: what the others name is still held.
LEMMA LeftNamesTaken ==
    ASSUME NEW K, NEW out, NEW out2, NEW m, LeftNames(K, out), Shorter(out, out2, m)
    PROVE  LeftNames(K, out2)
<1>1. /\ Len(out2) \in Nat
      /\ \A i \in 1 .. Len(out2) : i + 1 \in 1 .. Len(out) /\ out2[i] = out[i + 1]
      /\ \A i \in 1 .. Len(out) : i # 1 => i - 1 \in 1 .. Len(out2) /\ out2[i - 1] = out[i]
  BY DEF Shorter
<1>2. ASSUME NEW i \in 1 .. Len(out2), NEW e \in ExportIds, Names(out2[i], e), e \notin K
      PROVE  \E j \in 1 .. Len(out2) : i < j /\ Gives(out2[j], e) /\ out2[j].n # 0
  <2>1. i + 1 \in 1 .. Len(out) /\ Names(out[i + 1], e)
    BY <1>1, <1>2
  <2>2. PICK j \in 1 .. Len(out) : i + 1 < j /\ Gives(out[j], e) /\ out[j].n # 0
    BY <1>2, <2>1 DEF LeftNames
  <2>3. j - 1 \in 1 .. Len(out2) /\ out2[j - 1] = out[j] /\ i < j - 1
    BY <1>1, <2>2
  <2> QED
    BY <2>2, <2>3
<1>3. \A i \in 1 .. Len(out2) : /\ out2[i].t # "unimplemented"
                                /\ out2[i].t = "release" => out2[i].n # 0
  BY <1>1 DEF LeftNames
<1> QED
  BY <1>2, <1>3 DEF LeftNames

\* Fewer of the Finishes left will release results.
LEMMA FinishedLess ==
    ASSUME NEW ans, NEW ans2, NEW out \in Seq(Message), NEW e,
           \A i \in 1 .. Len(out) : Settles(out[i], ans2, e) => Settles(out[i], ans, e)
    PROVE  Cardinality(FinishedOf(ans2, out, e)) <= Cardinality(FinishedOf(ans, out, e))
<1> DEFINE S == FinishedOf(ans, out, e)
           T == FinishedOf(ans2, out, e)
<1>1. /\ S \in SUBSET (1 .. Len(out)) /\ Len(out) \in Nat
      /\ \A i \in 1 .. Len(out) : i \in S <=> Settles(out[i], ans, e)
  BY FinishedNumber
<1>2. /\ T \in SUBSET (1 .. Len(out))
      /\ \A i \in 1 .. Len(out) : i \in T <=> Settles(out[i], ans2, e)
  BY FinishedNumber
<1> HIDE DEF S, T
<1>3. T \in SUBSET S
  BY <1>1, <1>2
<1>4. IsFiniteSet(S)
  BY <1>1, PlacesFinite
<1>5. Cardinality(T) <= Cardinality(S)
  BY <1>3, <1>4, FS_Subset
<1> QED
  BY <1>5 DEF S, T

\* One more of them will, at most: there is one Finish of a call.
LEMMA FinishedOneMore ==
    ASSUME NEW ans, NEW ans2, NEW out \in Seq(Message), NEW e, NEW f, NEW an,
           LeftFinish(an, out, f), NEW c,
           \A i \in 1 .. Len(out) : Settles(out[i], ans2, e) =>
                Settles(out[i], ans, e) \/ (FinishOf(out[i], f) /\ out[i].call = c)
    PROVE  Cardinality(FinishedOf(ans2, out, e)) <= Cardinality(FinishedOf(ans, out, e)) + 1
<1> DEFINE S == FinishedOf(ans, out, e)
           T == FinishedOf(ans2, out, e)
<1>1. /\ S \in SUBSET (1 .. Len(out)) /\ Len(out) \in Nat
      /\ \A i \in 1 .. Len(out) : i \in S <=> Settles(out[i], ans, e)
  BY FinishedNumber
<1>2. /\ T \in SUBSET (1 .. Len(out))
      /\ \A i \in 1 .. Len(out) : i \in T <=> Settles(out[i], ans2, e)
  BY FinishedNumber
<1> HIDE DEF S, T
<1>3. IsFiniteSet(S) /\ Cardinality(S) \in Nat /\ Cardinality(T) \in Nat
  BY <1>1, <1>2, PlacesFinite
<1>4. CASE T \in SUBSET S
  <2>1. Cardinality(T) <= Cardinality(S)
    BY <1>3, <1>4, FS_Subset
  <2> QED
    BY <1>3, <2>1 DEF S, T
<1>5. CASE T \notin SUBSET S
  <2>1. PICK k \in T : k \notin S
    BY <1>5
  <2>2. k \in 1 .. Len(out) /\ FinishOf(out[k], f) /\ out[k].call = c
    BY <1>1, <1>2, <2>1
  <2>3. \A i \in T : i \in S \/ i = k
    BY <1>1, <1>2, <2>2 DEF LeftFinish
  <2> DEFINE R == S \cup {k}
  <2>4. T \in SUBSET R /\ \A y : y \in R <=> y \in S \/ y = k
    BY <2>3
  <2> HIDE DEF R
  <2>5. IsFiniteSet(R) /\ Cardinality(R) = Cardinality(S) + 1
    BY <1>3, <2>1, <2>4, OneMore
  <2>6. Cardinality(T) <= Cardinality(R)
    BY <2>4, <2>5, FS_Subset
  <2> QED
    BY <1>3, <2>5, <2>6 DEF S, T
<1> QED
  BY <1>4, <1>5

\* What a vat does to an export, and to the answers that hold it: the references
\* do not get fewer, and one that an answer now holds is one more.
CountKept(x, y, ans, ans2, out, e) ==
    /\ RefsOf(x) \in Nat /\ RefsOf(y) \in Nat
    /\ \/ /\ RefsOf(x) <= RefsOf(y)
          /\ \A i \in 1 .. Len(out) : Settles(out[i], ans2, e) => Settles(out[i], ans, e)
       \/ /\ RefsOf(y) = RefsOf(x) + 1
          /\ \E f \in QuestionIds, c \in Nat :
                \A i \in 1 .. Len(out) : Settles(out[i], ans2, e) =>
                    Settles(out[i], ans, e) \/ (FinishOf(out[i], f) /\ out[i].call = c)

\* There still are enough references.
LEMMA LeftCountKept ==
    ASSUME NEW x, NEW y, NEW ans, NEW ans2, NEW out \in Seq(Message), NEW K, NEW e,
           LeftCount(x, ans, out, K, e), CountKept(x, y, ans, ans2, out, e),
           NEW left, \A q \in QuestionIds : LeftFinish(left[q], out, q)
    PROVE  LeftCount(y, ans2, out, K, e)
<1> DEFINE k == IF e \in K THEN 1 ELSE 0
           g == Cardinality(GivenBack(out, e))
           s == Cardinality(FinishedOf(ans, out, e))
           t == Cardinality(FinishedOf(ans2, out, e))
<1>1. IsFiniteSet(GivenBack(out, e)) /\ k + g + s <= RefsOf(x)
  BY DEF LeftCount
<1>2. g \in Nat /\ s \in Nat /\ t \in Nat /\ k \in Nat
  BY <1>1, FinishedNumber, FS_CardinalityType
<1>3. RefsOf(x) \in Nat /\ RefsOf(y) \in Nat
  BY DEF CountKept
<1>4. \/ RefsOf(x) <= RefsOf(y) /\ t <= s
      \/ RefsOf(y) = RefsOf(x) + 1 /\ t <= s + 1
  <2>1. CASE \A i \in 1 .. Len(out) : Settles(out[i], ans2, e) => Settles(out[i], ans, e)
    <3>1. t <= s
      BY <2>1, FinishedLess
    <3>2. RefsOf(x) <= RefsOf(y) \/ RefsOf(y) = RefsOf(x) + 1
      BY DEF CountKept
    <3> HIDE DEF s, t
    <3> QED
      BY <1>2, <1>3, <3>1, <3>2
  <2>2. CASE ~ \A i \in 1 .. Len(out) : Settles(out[i], ans2, e) => Settles(out[i], ans, e)
    <3>1. RefsOf(y) = RefsOf(x) + 1
      BY <2>2 DEF CountKept
    <3>2. PICK f \in QuestionIds, c \in Nat :
                \A i \in 1 .. Len(out) : Settles(out[i], ans2, e) =>
                    Settles(out[i], ans, e) \/ (FinishOf(out[i], f) /\ out[i].call = c)
      BY <2>2 DEF CountKept
    <3>3. LeftFinish(left[f], out, f)
      OBVIOUS
    <3>4. t <= s + 1
      BY <3>2, <3>3, FinishedOneMore
    <3> QED
      BY <3>1, <3>4
  <2> QED
    BY <2>1, <2>2
<1> HIDE DEF k, g, s, t
<1>5. k + g + t <= RefsOf(y)
  BY <1>1, <1>2, <1>3, <1>4
<1> QED
  BY <1>1, <1>5 DEF LeftCount, k, g, t

\* A message left is taken, and what it gives back with it.
TakesBack(m, x, y, ans, e) ==
    /\ RefsOf(x) \in Nat /\ RefsOf(y) \in Nat
    /\ \/ RefsOf(x) <= RefsOf(y)
       \/ Gives(m, e) /\ RefsOf(x) = RefsOf(y) + m.n
       \/ Settles(m, ans, e) /\ RefsOf(x) = RefsOf(y) + 1

\* What is left to be given back is still there.
LEMMA LeftCountTaken ==
    ASSUME NEW x, NEW y, NEW ans, NEW out \in Seq(Message), NEW out2 \in Seq(Message),
           NEW m \in Message, NEW K, NEW e, Shorter(out, out2, m),
           LeftCount(x, ans, out, K, e), TakesBack(m, x, y, ans, e)
    PROVE  LeftCount(y, ans, out2, K, e)
<1> DEFINE k == IF e \in K THEN 1 ELSE 0
           g == Cardinality(GivenBack(out, e))
           g2 == Cardinality(GivenBack(out2, e))
           s == Cardinality(FinishedOf(ans, out, e))
           s2 == Cardinality(FinishedOf(ans, out2, e))
<1>1. IsFiniteSet(GivenBack(out, e)) /\ k + g + s <= RefsOf(x)
  BY DEF LeftCount
<1>2. IsFiniteSet(GivenBack(out2, e))
  BY <1>1, GivenTaken
<1>3. g \in Nat /\ s \in Nat /\ g2 \in Nat /\ s2 \in Nat /\ k \in Nat
  BY <1>1, <1>2, FinishedNumber, FS_CardinalityType
<1>4. /\ Gives(m, e) => m.n \in Nat /\ g = g2 + m.n
      /\ ~ Gives(m, e) => g = g2
  BY <1>1, GivenTaken
<1>5. /\ Settles(m, ans, e) => s = s2 + 1
      /\ ~ Settles(m, ans, e) => s = s2
  BY FinishedTaken
<1>6. RefsOf(x) \in Nat /\ RefsOf(y) \in Nat
  BY DEF TakesBack
<1> HIDE DEF k, g, g2, s, s2
<1>7. g2 <= g /\ s2 <= s
  <2> DEFINE n == m.n
  <2>1. g = g2 \/ (n \in Nat /\ g = g2 + n)
    BY <1>4
  <2> HIDE DEF n
  <2> QED
    BY <1>3, <1>5, <2>1
<1>8. CASE RefsOf(x) <= RefsOf(y)
  <2>1. k + g2 + s2 <= RefsOf(y)
    BY <1>1, <1>3, <1>6, <1>7, <1>8
  <2> QED
    BY <1>2, <2>1 DEF LeftCount, k, g2, s2
<1>9. CASE Gives(m, e) /\ RefsOf(x) = RefsOf(y) + m.n
  <2> DEFINE n == m.n
  <2>1. n \in Nat /\ g = g2 + n /\ RefsOf(x) = RefsOf(y) + n
    BY <1>4, <1>9
  <2> HIDE DEF n
  <2>2. k + g2 + s2 <= RefsOf(y)
    BY <1>1, <1>3, <1>6, <1>7, <2>1
  <2> QED
    BY <1>2, <2>2 DEF LeftCount, k, g2, s2
<1>10. CASE Settles(m, ans, e) /\ RefsOf(x) = RefsOf(y) + 1
  <2>1. k + g2 + s2 <= RefsOf(y)
    BY <1>1, <1>3, <1>5, <1>6, <1>7, <1>10
  <2> QED
    BY <1>2, <2>1 DEF LeftCount, k, g2, s2
<1> QED
  BY <1>8, <1>9, <1>10 DEF TakesBack

\* A step of the vat that takes no message.
LEMMA LeftKept ==
    ASSUME NEW K, NEW qs, NEW qs2, NEW ans, NEW ans2, NEW xs, NEW xs2,
           NEW out \in Seq(Message), LeftOK(K, qs, ans, xs, out),
           \A q \in QuestionIds : StillAwaits(qs[q], qs2[q]),
           \A q \in QuestionIds : StillAnswers(ans[q], ans2[q]),
           \A e \in ExportIds : CountKept(xs[e], xs2[e], ans, ans2, out, e)
    PROVE  LeftOK(K, qs2, ans2, xs2, out)
<1>1. LeftReturns(qs2, out)
  BY LeftReturnsChanged DEF LeftOK
<1>2. ASSUME NEW q \in QuestionIds
      PROVE  LeftAsk(ans2[q], out, q) /\ LeftFinish(ans2[q], out, q)
  <2>1. LeftAsk(ans[q], out, q) /\ LeftFinish(ans[q], out, q) /\ StillAnswers(ans[q], ans2[q])
    BY DEF LeftOK
  <2> QED
    BY <2>1, LeftSlotChanged
<1>3. LeftNames(K, out)
  BY DEF LeftOK
<1>4. ASSUME NEW e \in ExportIds PROVE LeftCount(xs2[e], ans2, out, K, e)
  <2>1. /\ LeftCount(xs[e], ans, out, K, e) /\ \A q \in QuestionIds : LeftFinish(ans[q], out, q)
        /\ CountKept(xs[e], xs2[e], ans, ans2, out, e)
    BY DEF LeftOK
  <2> QED
    BY <2>1, LeftCountKept
<1> QED
  BY <1>1, <1>2, <1>3, <1>4 DEF LeftOK

\* What taking m does to the answer under id q: a call enters it, and a Finish
\* forgets it or leaves it to its Return.
AnswerTaken(an, an2, m, q) ==
    \/ ~ AskFor(m, q) /\ ~ FinishOf(m, q) /\ an2 = an
    \/ AskFor(m, q) /\ an2.call = m.call
    \/ /\ FinishOf(m, q)
       /\ an2 = None \/ (an # None /\ an.status # "returned" /\ an2.call = an.call)

\* A step of the vat that takes m; ys are the exports without what m gives back.
LEMMA LeftTaken ==
    ASSUME NEW K, NEW qs, NEW qs2, NEW ans, NEW ans2, NEW xs, NEW ys, NEW xs2,
           NEW out \in Seq(Message), NEW out2 \in Seq(Message), NEW m \in Message,
           LeftOK(K, qs, ans, xs, out), Shorter(out, out2, m),
           \A q \in QuestionIds : qs2[q] = qs[q] \/ ReturnTo(m, q),
           \A q \in QuestionIds : AnswerTaken(ans[q], ans2[q], m, q),
           \A e \in ExportIds : /\ TakesBack(m, xs[e], ys[e], ans, e)
                                /\ CountKept(ys[e], xs2[e], ans, ans2, out2, e)
    PROVE  LeftOK(K, qs2, ans2, xs2, out2)
<1>1. LeftReturns(qs2, out2)
  BY LeftReturnsTaken DEF LeftOK
<1>2. ASSUME NEW q \in QuestionIds
      PROVE  LeftAsk(ans2[q], out2, q) /\ LeftFinish(ans2[q], out2, q)
  <2> DEFINE an == ans[q]
             an2 == ans2[q]
  <2>1. LeftAsk(an, out, q) /\ LeftFinish(an, out, q) /\ AnswerTaken(an, an2, m, q)
    BY DEF LeftOK
  <2> HIDE DEF an, an2
  <2>2. CASE ~ AskFor(m, q) /\ ~ FinishOf(m, q) /\ an2 = an
    <3>1. LeftAsk(an, out2, q) /\ LeftFinish(an, out2, q)
      BY <2>1, <2>2, LeftSlotTaken
    <3> QED
      BY <2>2, <3>1 DEF an2
  <2>3. CASE AskFor(m, q) /\ an2.call = m.call
    <3>1. LeftAsk(an2, out2, q) /\ LeftFinish(an2, out2, q)
      BY <2>1, <2>3, LeftSlotEntered
    <3> QED
      BY <3>1 DEF an2
  <2>4. CASE /\ FinishOf(m, q)
             /\ an2 = None \/ (an # None /\ an.status # "returned" /\ an2.call = an.call)
    <3>1. LeftAsk(an2, out2, q) /\ LeftFinish(an2, out2, q)
      BY <2>1, <2>4, LeftSlotFinished
    <3> QED
      BY <3>1 DEF an2
  <2> QED
    BY <2>1, <2>2, <2>3, <2>4 DEF AnswerTaken
<1>3. LeftNames(K, out2)
  BY LeftNamesTaken DEF LeftOK
<1>4. ASSUME NEW e \in ExportIds PROVE LeftCount(xs2[e], ans2, out2, K, e)
  <2>1. LeftCount(xs[e], ans, out, K, e) /\ TakesBack(m, xs[e], ys[e], ans, e)
    BY DEF LeftOK
  <2>2. LeftCount(ys[e], ans, out2, K, e)
    BY <2>1, LeftCountTaken
  <2>3. CountKept(ys[e], xs2[e], ans, ans2, out2, e)
    OBVIOUS
  <2>4. \A q \in QuestionIds : LeftFinish(ans2[q], out2, q)
    BY <1>2
  <2> QED
    BY <2>2, <2>3, <2>4, LeftCountKept
<1> QED
  BY <1>1, <1>2, <1>3, <1>4 DEF LeftOK

\* The Finish m releases the results e of the answer now under f.
SettlesNew(m, ans, f, e) ==
    FinishOf(m, f) /\ ans[f] # None /\ m.call = ans[f].call /\ ans[f].exp = e

\* One answer is put in: whose Finishes will release what.
LEMMA SettlesOther ==
    ASSUME NEW ans, NEW ans2, NEW out \in Seq(Message), NEW f, NEW e \in ExportIds,
           \A q \in QuestionIds : q # f => Alike(ans[q], ans2[q])
    PROVE  \A i \in 1 .. Len(out) : Settles(out[i], ans2, e) =>
                Settles(out[i], ans, e) \/ SettlesNew(out[i], ans2, f, e)
<1> SUFFICES ASSUME NEW i \in 1 .. Len(out), Settles(out[i], ans2, e), ~ Settles(out[i], ans, e)
             PROVE  SettlesNew(out[i], ans2, f, e)
  OBVIOUS
<1>1. out[i] \in Message
  OBVIOUS
<1>2. out[i].t = "finish" /\ out[i].q \in QuestionIds
  BY <1>1 DEF Message, Settles
<1>3. out[i].q = f
  <2> SUFFICES ASSUME out[i].q # f PROVE FALSE
    OBVIOUS
  <2>1. Alike(ans[out[i].q], ans2[out[i].q])
    BY <1>2
  <2> QED
    BY <2>1 DEF Settles, Alike
<1> QED
  BY <1>2, <1>3 DEF Settles, SettlesNew, FinishOf

\* An entry of the export table has a number of references.
LEMMA RefsNumber == ASSUME NEW x \in Export \cup {None} PROVE RefsOf(x) \in Nat
<1>1. CASE x = None
  BY <1>1 DEF RefsOf
<1>2. CASE x # None
  <2>1. x.refcount \in Nat
    BY <1>2 DEF Export
  <2> QED
    BY <1>2, <2>1 DEF RefsOf
<1> QED
  BY <1>1, <1>2

\* An export and the answers that hold it are left alone.
LEMMA CountSame ==
    ASSUME NEW x \in Export \cup {None}, NEW ans, NEW ans2, NEW out, NEW e,
           \A i \in 1 .. Len(out) : Settles(out[i], ans2, e) => Settles(out[i], ans, e)
    PROVE  CountKept(x, x, ans, ans2, out, e)
<1>1. RefsOf(x) \in Nat
  BY RefsNumber
<1>2. RefsOf(x) <= RefsOf(x)
  BY <1>1
<1> QED
  BY <1>1, <1>2 DEF CountKept

\* The answer under f is entered or returned, with exp in its results: exp has
\* one reference more, and the other exports stay.
Provides(xs, xs2, exp) ==
    \A e \in ExportIds : IF e = exp THEN RefsOf(xs2[e]) = RefsOf(xs[e]) + 1
                                    ELSE xs2[e] = xs[e]

\* There are enough references for the answer under f, too.
LEMMA CountProvided ==
    ASSUME NEW xs \in [ExportIds -> Export \cup {None}],
           NEW xs2 \in [ExportIds -> Export \cup {None}],
           NEW ans, NEW ans2, NEW out \in Seq(Message), NEW f \in QuestionIds, NEW exp,
           \A q \in QuestionIds : q # f => Alike(ans[q], ans2[q]),
           ans2[f] # None => ans2[f].call \in Nat /\ ans2[f].exp = exp,
           Provides(xs, xs2, exp)
    PROVE  \A e \in ExportIds : CountKept(xs[e], xs2[e], ans, ans2, out, e)
<1> SUFFICES ASSUME NEW e \in ExportIds PROVE CountKept(xs[e], xs2[e], ans, ans2, out, e)
  OBVIOUS
<1>1. RefsOf(xs[e]) \in Nat /\ RefsOf(xs2[e]) \in Nat
  BY RefsNumber
<1>2. \A i \in 1 .. Len(out) : Settles(out[i], ans2, e) =>
            Settles(out[i], ans, e) \/ SettlesNew(out[i], ans2, f, e)
  BY SettlesOther
<1>3. CASE e # exp \/ ans2[f] = None
  <2>1. \A i \in 1 .. Len(out) : Settles(out[i], ans2, e) => Settles(out[i], ans, e)
    BY <1>2, <1>3 DEF SettlesNew
  <2>2. RefsOf(xs2[e]) = RefsOf(xs[e]) + 1 \/ xs2[e] = xs[e]
    BY DEF Provides
  <2>3. RefsOf(xs[e]) <= RefsOf(xs2[e])
    BY <1>1, <2>2
  <2> QED
    BY <1>1, <2>1, <2>3 DEF CountKept
<1>4. CASE e = exp /\ ans2[f] # None
  <2>1. RefsOf(xs2[e]) = RefsOf(xs[e]) + 1
    BY <1>4 DEF Provides
  <2>2. ans2[f].call \in Nat
    BY <1>4
  <2>3. \A i \in 1 .. Len(out) : Settles(out[i], ans2, e) =>
            Settles(out[i], ans, e) \/ (FinishOf(out[i], f) /\ out[i].call = ans2[f].call)
    BY <1>2 DEF SettlesNew
  <2>4. \E g \in QuestionIds, c \in Nat :
            \A i \in 1 .. Len(out) : Settles(out[i], ans2, e) =>
                Settles(out[i], ans, e) \/ (FinishOf(out[i], g) /\ out[i].call = c)
    BY <2>2, <2>3
  <2> QED
    BY <1>1, <2>1, <2>4 DEF CountKept
<1> QED
  BY <1>3, <1>4

-----------------------------------------------------------------------------
(* The steps of a vat whose peer has gone *)

\* What is left for v, the peer having held the exports K.
LeftWith(v, K) == LeftOK(K, questions[v], answers[v], exports[v], chan[Peer(v)])

\* v has the connection, and its peer no longer has.
Alone(v, K) == TypeOK /\ connected[v] /\ ExportsMatch(v) /\ LeftWith(v, K)

\* A step of v that takes no message.
LEMMA LeftStays ==
    ASSUME NEW v \in Vats, NEW K, Alone(v, K), chan'[Peer(v)] = chan[Peer(v)],
           \A q \in QuestionIds : StillAwaits(questions[v][q], questions'[v][q]),
           \A q \in QuestionIds : StillAnswers(answers[v][q], answers'[v][q]),
           \A e \in ExportIds : CountKept(exports[v][e], exports'[v][e], answers[v],
                                          answers'[v], chan[Peer(v)], e)
    PROVE  LeftWith(v, K)'
<1>1. chan[Peer(v)] \in Seq(Message)
  BY PeerType DEF Alone, TypeOK
<1>2. LeftOK(K, questions[v], answers[v], exports[v], chan[Peer(v)])
  BY DEF Alone, LeftWith
<1>3. LeftOK(K, questions'[v], answers'[v], exports'[v], chan[Peer(v)])
  BY <1>1, <1>2, LeftKept
<1> QED
  BY <1>3 DEF LeftWith

\* What v sends is not what it will read.
LEMMA SendsAway ==
    ASSUME TypeOK, NEW v \in Vats, NEW m, chan' = Transmit(chan, v, m) \/ chan' = chan
    PROVE  chan'[Peer(v)] = chan[Peer(v)]
  BY PeerType DEF Transmit, TypeOK

\* Nothing happens to questions, answers or exports.
LEMMA NothingDone ==
    ASSUME TypeOK, NEW v \in Vats
    PROVE  /\ \A q \in QuestionIds : StillAwaits(questions[v][q], questions[v][q])
           /\ \A q \in QuestionIds : StillAnswers(answers[v][q], answers[v][q])
           /\ \A e \in ExportIds : \A out : CountKept(exports[v][e], exports[v][e], answers[v],
                                                      answers[v], out, e)
<1>1. ASSUME NEW e \in ExportIds, NEW out
      PROVE  CountKept(exports[v][e], exports[v][e], answers[v], answers[v], out, e)
  <2>1. exports[v][e] \in Export \cup {None}
    BY DEF TypeOK
  <2> QED
    BY <2>1, CountSame
<1> QED
  BY <1>1 DEF StillAwaits, StillAnswers

\* Exports get more references, and answers stay.
LEMMA CountGrown ==
    ASSUME NEW xs \in [ExportIds -> Export \cup {None}],
           NEW xs2 \in [ExportIds -> Export \cup {None}], NEW exp, Provides(xs, xs2, exp),
           NEW ans, NEW out
    PROVE  \A e \in ExportIds : CountKept(xs[e], xs2[e], ans, ans, out, e)
<1> SUFFICES ASSUME NEW e \in ExportIds PROVE CountKept(xs[e], xs2[e], ans, ans, out, e)
  OBVIOUS
<1>1. RefsOf(xs[e]) \in Nat /\ RefsOf(xs2[e]) \in Nat
  BY RefsNumber
<1>2. RefsOf(xs2[e]) = RefsOf(xs[e]) + 1 \/ xs2[e] = xs[e]
  BY DEF Provides
<1>3. RefsOf(xs[e]) <= RefsOf(xs2[e])
  BY <1>1, <1>2
<1> QED
  BY <1>1, <1>3 DEF CountKept

\* What write_descriptor exports.
Exported(desc) == IF desc.kind = "senderHosted" THEN desc.id ELSE None

\* write_descriptor adds one reference to what it exports.
LEMMA WriteProvides ==
    ASSUME TypeOK, NEW v \in Vats, NEW arg \in Argument, RoomToExport(v, arg),
           ExportsMatch(v)
    PROVE  LET w == WriteDescriptor(v, arg)
           IN  /\ ~ w.panic /\ w.desc \in Descriptor
               /\ w.desc.kind = "senderHosted" <=> arg.kind = "local"
               /\ Provides(exports[v], w.exports, Exported(w.desc))
<1> DEFINE w == WriteDescriptor(v, arg)
<1>1. /\ ~ w.panic /\ w.desc \in Descriptor
      /\ w.desc.kind = "senderHosted" <=> arg.kind = "local"
      /\ arg.kind = "local" =>
            /\ RefsOf(w.exports[w.desc.id]) = RefsOf(exports[v][w.desc.id]) + 1
            /\ \A e \in ExportIds : e # w.desc.id => w.exports[e] = exports[v][e]
      /\ arg.kind # "local" => w.exports = exports[v]
  BY WriteDescriptorCounts
<1> HIDE DEF w
<1>2. None \notin ExportIds
  BY NoneFacts DEF ExportIds
<1>3. Provides(exports[v], w.exports, Exported(w.desc))
  BY <1>1, <1>2 DEF Provides, Exported
<1> QED
  BY <1>1, <1>3 DEF w

\* A new question replaces none.
LEMMA AskStillAwaits ==
    ASSUME TypeOK, NEW v \in Vats, MayAsk(v), Ask(v)
    PROVE  \A q \in QuestionIds : StillAwaits(questions[v][q], questions'[v][q])
<1>0. HasFree(questions[v])
  BY DEF MayAsk
<1>1. FreeId(questions[v]) \in QuestionIds /\ questions[v][FreeId(questions[v])] = None
  <2>1. DOMAIN questions[v] = 0 .. MaxQuestions - 1
    BY DEF TypeOK, QuestionIds
  <2> QED
    BY <1>0, <2>1, FreeIdIsFree, BoundsAssumption DEF QuestionIds
<1>2. \A q \in QuestionIds : q # FreeId(questions[v]) => questions'[v][q] = questions[v][q]
  BY <1>1 DEF Ask, TypeOK
<1> QED
  BY <1>1, <1>2 DEF StillAwaits

\* ConnectionState::bootstrap.
LEMMA BootstrapLeft ==
    ASSUME NEW v \in Vats, NEW K, Alone(v, K), Bootstrap(v)
    PROVE  LeftWith(v, K)' /\ UNCHANGED <<connected, err>>
<1>1. TypeOK /\ connected[v]
  BY DEF Alone
<1> DEFINE m == [t |-> "bootstrap", q |-> FreeId(questions[v]), call |-> issued[v] + 1]
<1>2. /\ MayAsk(v) /\ Ask(v) /\ chan' = Transmit(chan, v, m)
      /\ UNCHANGED <<answers, exports, connected, err>>
  BY <1>1 DEF Bootstrap
<1> HIDE DEF m
<1>3. chan'[Peer(v)] = chan[Peer(v)]
  BY <1>1, <1>2, SendsAway
<1>4. \A q \in QuestionIds : StillAwaits(questions[v][q], questions'[v][q])
  BY <1>1, <1>2, AskStillAwaits
<1>5. /\ \A q \in QuestionIds : StillAnswers(answers[v][q], answers'[v][q])
      /\ \A e \in ExportIds : CountKept(exports[v][e], exports'[v][e], answers[v],
                                        answers'[v], chan[Peer(v)], e)
  BY <1>1, <1>2, NothingDone
<1> QED
  BY <1>2, <1>3, <1>4, <1>5, LeftStays

\* Request::send and send_internal.
LEMMA SendRequestLeft ==
    ASSUME NEW v \in Vats, NEW K, Alone(v, K), SendRequest(v), TypeOK'
    PROVE  LeftWith(v, K)' /\ UNCHANGED <<connected, err>>
<1> DEFINE arg == built[v].arg
           w == WriteDescriptor(v, arg)
           m == [t |-> "call", q |-> FreeId(questions[v]),
                 call |-> issued[v] + 1, target |-> built[v].target,
                 cap |-> w.desc]
<1>1. TypeOK /\ ExportsMatch(v)
  BY DEF Alone
<1>2. arg \in Argument /\ MayAsk(v) /\ RoomToExport(v, arg)
  BY <1>1 DEF SendRequest, TypeOK
<1>3. ~ w.panic /\ Provides(exports[v], w.exports, Exported(w.desc))
  <2> HIDE DEF arg
  <2> QED
    BY <1>1, <1>2, WriteProvides
<1>4. /\ Ask(v) /\ chan' = Transmit(chan, v, m)
      /\ exports' = [exports EXCEPT ![v] = w.exports]
      /\ UNCHANGED <<answers, connected, err>>
  BY <1>3 DEF SendRequest
<1> HIDE DEF m, w
<1>5. chan'[Peer(v)] = chan[Peer(v)]
  BY <1>1, <1>4, SendsAway
<1>6. \A q \in QuestionIds : StillAwaits(questions[v][q], questions'[v][q])
  BY <1>1, <1>2, <1>4, AskStillAwaits
<1>7. \A q \in QuestionIds : StillAnswers(answers[v][q], answers'[v][q])
  BY <1>1, <1>4, NothingDone
<1>8. /\ exports[v] \in [ExportIds -> Export \cup {None}]
      /\ exports'[v] \in [ExportIds -> Export \cup {None}]
      /\ exports'[v] = w.exports
  BY <1>1, <1>4 DEF TypeOK
<1>9. Provides(exports[v], exports'[v], Exported(w.desc))
  BY <1>3, <1>8
<1>10. \A e \in ExportIds : CountKept(exports[v][e], exports'[v][e], answers[v],
                                      answers[v], chan[Peer(v)], e)
  BY <1>8, <1>9, CountGrown
<1> QED
  BY <1>4, <1>5, <1>6, <1>7, <1>10, LeftStays

\* QuestionRef::drop.
LEMMA DropQuestionRefLeft ==
    ASSUME NEW v \in Vats, NEW K, Alone(v, K), NEW p \in QuestionIds, DropQuestionRef(v, p)
    PROVE  LeftWith(v, K)' /\ UNCHANGED <<connected, err>>
<1> DEFINE qn == questions[v][p]
           m == [t |-> "finish", q |-> p, call |-> questions[v][p].call,
                 release |-> ReleaseResultCaps(questions[v][p])]
<1>1. TypeOK
  BY DEF Alone
<1>2. /\ chan' = chan \/ chan' = Transmit(chan, v, m)
      /\ qn # None /\ qn.ref
      /\ questions' = [questions EXCEPT ![v][p] = Dropped(qn)]
      /\ UNCHANGED <<answers, exports, connected, err>>
  BY DEF DropQuestionRef
<1> HIDE DEF m
<1>3. chan'[Peer(v)] = chan[Peer(v)]
  BY <1>1, <1>2, SendsAway
<1>4. /\ questions'[v][p] = Dropped(qn) /\ qn \in Question
      /\ \A q \in QuestionIds : q # p => questions'[v][q] = questions[v][q]
  BY <1>1, <1>2 DEF TypeOK
<1>5. StillAwaits(qn, Dropped(qn))
  <2> HIDE DEF qn
  <2>1. CASE ~ qn.awaiting
    BY <2>1 DEF StillAwaits
  <2>2. CASE qn.awaiting
    <3> DEFINE d == [qn EXCEPT !.ref = FALSE, !.pending = FALSE]
    <3>1. Dropped(qn) = d
      BY <2>2 DEF Dropped
    <3>2. d \in Question /\ d.awaiting /\ ~ d.ref
      BY <1>4, <2>2 DEF Question
    <3> HIDE DEF d
    <3> QED
      BY <3>1, <3>2, NoneFacts DEF StillAwaits
  <2> QED
    BY <2>1, <2>2
<1>6. \A q \in QuestionIds : StillAwaits(questions[v][q], questions'[v][q])
  BY <1>4, <1>5 DEF StillAwaits
<1>7. /\ \A q \in QuestionIds : StillAnswers(answers[v][q], answers'[v][q])
      /\ \A e \in ExportIds : CountKept(exports[v][e], exports'[v][e], answers[v],
                                        answers'[v], chan[Peer(v)], e)
  BY <1>1, <1>2, NothingDone
<1> QED
  BY <1>2, <1>3, <1>6, <1>7, LeftStays

\* ImportClient::drop, Client::new_call and Request::new.
LEMMA DropImportLeft ==
    ASSUME NEW v \in Vats, NEW K, Alone(v, K),
           \/ \E e \in ExportIds : DropImport(v, e)
           \/ \E target \in Targets(v), arg \in Arguments(v) : BuildRequest(v, target, arg)
    PROVE  LeftWith(v, K)' /\ UNCHANGED <<connected, err>>
<1>1. TypeOK
  BY DEF Alone
<1>2. /\ chan' = chan \/ \E m : chan' = Transmit(chan, v, m)
      /\ UNCHANGED <<questions, answers, exports, connected, err>>
  BY DEF DropImport, BuildRequest
<1>3. chan'[Peer(v)] = chan[Peer(v)]
  BY <1>1, <1>2, SendsAway
<1>4. /\ \A q \in QuestionIds : StillAwaits(questions[v][q], questions'[v][q])
      /\ \A q \in QuestionIds : StillAnswers(answers[v][q], answers'[v][q])
      /\ \A e \in ExportIds : CountKept(exports[v][e], exports'[v][e], answers[v],
                                        answers'[v], chan[Peer(v)], e)
  BY <1>1, <1>2, NothingDone
<1> QED
  BY <1>2, <1>3, <1>4, LeftStays

\* The answer b is a in all but how it runs.
SameAnswers(a, b) ==
    b = a \/ (a # None /\ b # None /\ b.call = a.call /\ b.exp = a.exp /\ b.status = a.status)

\* Neither references nor what is left is about how an answer runs.
LEMMA SameAnswersIs ==
    ASSUME NEW a, NEW b, SameAnswers(a, b)
    PROVE  Alike(a, b) /\ StillAnswers(a, b)
  BY DEF SameAnswers, Alike, StillAnswers, Open

\* eagerly_evaluate and ResultsInner::ensure_initialized.
LEMMA RunningLeft ==
    ASSUME NEW v \in Vats, NEW K, Alone(v, K), NEW p \in QuestionIds,
           CancelCall(v, p) \/ InitResults(v, p)
    PROVE  LeftWith(v, K)' /\ UNCHANGED <<connected, err>>
<1> DEFINE a == answers[v][p]
           b == answers'[v][p]
           c == [a EXCEPT !.eager = FALSE]
           d == [a EXCEPT !.status = "init"]
<1>1. TypeOK
  BY DEF Alone
<1>2. UNCHANGED <<chan, questions, exports, connected, err>>
  BY DEF CancelCall, InitResults
<1>3. a # None /\ a.status \in {"new", "init"}
  BY DEF CancelCall, InitResults, Executing, Unreturned
<1>4. a \in Answer
  BY <1>1, <1>3 DEF TypeOK
<1>5. answers' = [answers EXCEPT ![v][p] = c] \/ answers' = [answers EXCEPT ![v][p] = d]
  BY DEF CancelCall, InitResults
<1>6. /\ b = c \/ b = d
      /\ \A q \in QuestionIds : q # p => answers'[v][q] = answers[v][q]
  <2>1. \A x : answers' = [answers EXCEPT ![v][p] = x] =>
            b = x /\ \A q \in QuestionIds : q # p => answers'[v][q] = answers[v][q]
    BY <1>1 DEF TypeOK
  <2> HIDE DEF b, c, d
  <2> QED
    BY <1>5, <2>1
<1>7. Alike(a, b) /\ StillAnswers(a, b)
  <2> HIDE DEF a, b
  <2>1. b \in Answer /\ b.call = a.call /\ b.exp = a.exp /\ (Open(b) => Open(a))
    BY <1>3, <1>4, <1>6 DEF Answer, Open
  <2>2. b # None /\ a.status # "returned"
    BY <1>3, <2>1, NoneFacts
  <2> QED
    BY <1>3, <2>1, <2>2 DEF Alike, StillAnswers
<1>8. \A q \in QuestionIds : /\ Alike(answers[v][q], answers'[v][q])
                             /\ StillAnswers(answers[v][q], answers'[v][q])
  BY <1>6, <1>7 DEF Alike, StillAnswers
<1>9. ASSUME NEW e \in ExportIds
      PROVE  CountKept(exports[v][e], exports[v][e], answers[v], answers'[v], chan[Peer(v)], e)
  <2> DEFINE out == chan[Peer(v)]
  <2>1. exports[v][e] \in Export \cup {None} /\ out \in Seq(Message)
    BY <1>1, PeerType DEF TypeOK
  <2> HIDE DEF out
  <2>2. ASSUME NEW i \in 1 .. Len(out), Settles(out[i], answers'[v], e)
        PROVE  Settles(out[i], answers[v], e)
    <3>1. out[i] \in Message
      BY <2>1
    <3>2. out[i].q \in QuestionIds
      BY <2>2, <3>1 DEF Settles, Message
    <3>3. Alike(answers[v][out[i].q], answers'[v][out[i].q])
      BY <1>8, <3>2
    <3> QED
      BY <2>2, <3>3 DEF Settles, Alike
  <2>3. CountKept(exports[v][e], exports[v][e], answers[v], answers'[v], out, e)
    BY <2>1, <2>2, CountSame
  <2> QED
    BY <2>3 DEF out
<1>10. \A q \in QuestionIds : StillAwaits(questions[v][q], questions'[v][q])
  BY <1>1, <1>2, NothingDone
<1> QED
  BY <1>2, <1>8, <1>9, <1>10, LeftStays

\* answer_has_sent_return and PipelineInnerSender::complete: the answer of q
\* keeps its call and is returned, or goes; the others only stop waiting.
LEMMA SentReturnAlone ==
    ASSUME TypeOK, NEW v \in Vats, NEW q \in QuestionIds, NEW finish \in BOOLEAN,
           NEW exp \in ExportIds \cup {None}, NEW ok \in BOOLEAN,
           answers[v][q] # None
    PROVE  LET bs == Unqueue(SentReturn(answers[v], q, finish, exp, ok), q, ok)
           IN  /\ finish => bs[q] = None
               /\ ~ finish => bs[q].call = answers[v][q].call /\ bs[q].exp = exp
               /\ \A r \in QuestionIds : r # q => SameAnswers(answers[v][r], bs[r])
<1> DEFINE sent == SentReturn(answers[v], q, finish, exp, ok)
           bs == Unqueue(sent, q, ok)
<1>1. answers[v] \in [QuestionIds -> Answer \cup {None}] /\ answers[v][q] \in Answer
  BY DEF TypeOK
<1>2. sent \in [QuestionIds -> Answer \cup {None}]
  BY <1>1, SentReturnType
<1>3. \A r \in QuestionIds : r # q => sent[r] = answers[v][r]
  BY <1>1 DEF SentReturn
<1>4. /\ finish => sent[q] = None
      /\ ~ finish => /\ sent[q] \in Answer /\ sent[q].exp = exp
                     /\ sent[q].call = answers[v][q].call
  <2> DEFINE kept == [answers[v][q] EXCEPT !.status = "returned", !.exp = exp, !.ok = ok]
  <2>1. kept \in Answer /\ kept.exp = exp /\ kept.call = answers[v][q].call
    BY <1>1 DEF Answer
  <2>2. sent[q] = IF finish THEN None ELSE kept
    BY <1>1 DEF SentReturn
  <2> HIDE DEF kept, sent
  <2> QED
    BY <2>1, <2>2
<1> HIDE DEF sent
<1>5. ASSUME NEW r \in QuestionIds PROVE SameAnswers(sent[r], bs[r])
  <2>1. CASE sent[r] = None
    <3>1. bs[r] = sent[r]
      BY <2>1 DEF Unqueue
    <3> QED
      BY <3>1 DEF SameAnswers
  <2>2. CASE sent[r] \in Answer
    <3> DEFINE a == sent[r]
               b == [a EXCEPT !.waits = @ \ {q}, !.broken = @ \/ ~ok]
    <3>1. bs[r] = a \/ bs[r] = b
      BY DEF Unqueue
    <3>2. b \in Answer /\ b.call = a.call /\ b.exp = a.exp /\ b.status = a.status
      <4> HIDE DEF a
      <4>1. a \in Answer
        BY <2>2 DEF a
      <4> QED
        BY <4>1 DEF Answer
    <3>3. SameAnswers(a, a) /\ SameAnswers(a, b)
      <4> HIDE DEF b
      <4>1. a # None /\ b # None
        BY <2>2, <3>2, NoneFacts
      <4> QED
        BY <3>2, <4>1 DEF SameAnswers
    <3> HIDE DEF a, b, bs
    <3>4. SameAnswers(a, bs[r])
      BY <3>1, <3>3
    <3> QED
      BY <3>4 DEF a
  <2> QED
    BY <1>2, <2>1, <2>2
<1> HIDE DEF bs
<1>6. finish => bs[q] = None
  BY <1>4, <1>5 DEF SameAnswers
<1>7. ~ finish => bs[q].call = answers[v][q].call /\ bs[q].exp = exp
  BY <1>4, <1>5 DEF SameAnswers
<1>8. \A r \in QuestionIds : r # q => SameAnswers(answers[v][r], bs[r])
  BY <1>3, <1>5
<1> QED
  BY <1>6, <1>7, <1>8 DEF bs, sent

\* A Return is sent.
LEMMA ReturnLeft ==
    ASSUME NEW v \in Vats, NEW K, Alone(v, K), TypeOK', NEW q \in QuestionIds,
           NEW finish \in BOOLEAN, NEW exp \in ExportIds \cup {None}, NEW ok \in BOOLEAN,
           NEW m, chan' = Transmit(chan, v, m), Executing(v, q),
           answers' = [answers EXCEPT ![v] =
                Unqueue(SentReturn(answers[v], q, finish, exp, ok), q, ok)],
           UNCHANGED questions, Provides(exports[v], exports'[v], exp)
    PROVE  LeftWith(v, K)'
<1> DEFINE a == answers[v][q]
           bs == Unqueue(SentReturn(answers[v], q, finish, exp, ok), q, ok)
<1>1. TypeOK
  BY DEF Alone
<1>2. a # None /\ a.status # "returned"
  BY DEF Executing, Unreturned
<1>3. a \in Answer /\ a.call \in Nat
  <2>1. a \in Answer
    BY <1>1, <1>2 DEF TypeOK
  <2> HIDE DEF a
  <2> QED
    BY <2>1 DEF Answer
<1>4. /\ finish => bs[q] = None
      /\ ~ finish => bs[q].call = a.call /\ bs[q].exp = exp
      /\ \A r \in QuestionIds : r # q => SameAnswers(answers[v][r], bs[r])
  BY <1>1, <1>2, SentReturnAlone
<1>5. answers'[v] = bs
  <2> HIDE DEF bs
  <2>1. answers' = [answers EXCEPT ![v] = bs]
    BY DEF bs
  <2> QED
    BY <1>1, <2>1 DEF TypeOK
<1> HIDE DEF bs
<1>6. \A r \in QuestionIds : r # q => /\ Alike(answers[v][r], bs[r])
                                      /\ StillAnswers(answers[v][r], bs[r])
  BY <1>4, SameAnswersIs
<1>7. StillAnswers(a, bs[q])
  BY <1>2, <1>4 DEF StillAnswers
<1>8. \A r \in QuestionIds : StillAnswers(answers[v][r], bs[r])
  BY <1>6, <1>7
<1>9. bs[q] # None => bs[q].call \in Nat /\ bs[q].exp = exp
  BY <1>3, <1>4
<1>10. /\ exports[v] \in [ExportIds -> Export \cup {None}]
       /\ exports'[v] \in [ExportIds -> Export \cup {None}]
       /\ chan[Peer(v)] \in Seq(Message)
  BY <1>1, PeerType DEF TypeOK
<1>11. \A e \in ExportIds : CountKept(exports[v][e], exports'[v][e], answers[v], bs,
                                      chan[Peer(v)], e)
  <2> DEFINE xs == exports[v]
             xs2 == exports'[v]
             ans == answers[v]
             out == chan[Peer(v)]
  <2>1. /\ xs \in [ExportIds -> Export \cup {None}]
        /\ xs2 \in [ExportIds -> Export \cup {None}] /\ out \in Seq(Message)
        /\ Provides(xs, xs2, exp)
        /\ \A r \in QuestionIds : r # q => Alike(ans[r], bs[r])
    BY <1>6, <1>10
  <2> HIDE DEF xs, xs2, ans, out
  <2>2. \A e \in ExportIds : CountKept(xs[e], xs2[e], ans, bs, out, e)
    BY <1>9, <2>1, CountProvided
  <2> QED
    BY <2>2 DEF xs, xs2, ans, out
<1>12. chan'[Peer(v)] = chan[Peer(v)]
  BY <1>1, SendsAway
<1>13. \A r \in QuestionIds : StillAwaits(questions[v][r], questions'[v][r])
  BY <1>1, NothingDone
<1> QED
  BY <1>5, <1>8, <1>11, <1>12, <1>13, LeftStays

\* ResultsDone::from_results_inner.
LEMMA ReturnsLeft ==
    ASSUME NEW v \in Vats, NEW K, Alone(v, K), TypeOK', Return(v)
    PROVE  LeftWith(v, K)' /\ UNCHANGED <<connected, err>>
<1>1. TypeOK /\ ExportsMatch(v) /\ connected[v]
  BY DEF Alone
<1>2. None \notin ExportIds
  BY NoneFacts DEF ExportIds
<1>3. ASSUME NEW q \in QuestionIds, NEW ok \in BOOLEAN, ReturnCanceled(v, q, ok)
      PROVE  LeftWith(v, K)' /\ UNCHANGED <<connected, err>>
  <2> DEFINE m == ReturnMsg(v, q, "canceled", [kind |-> "none", id |-> 0], FALSE)
  <2>1. /\ Executing(v, q) /\ chan' = Transmit(chan, v, m)
        /\ answers' = [answers EXCEPT ![v] =
                Unqueue(SentReturn(answers[v], q, TRUE, None, ok), q, ok)]
        /\ UNCHANGED <<questions, exports, connected, err>>
    BY <1>3 DEF ReturnCanceled
  <2> HIDE DEF m
  <2>2. Provides(exports[v], exports'[v], None)
    BY <1>2, <2>1 DEF Provides
  <2> QED
    BY <2>1, <2>2, ReturnLeft
<1>4. ASSUME NEW q \in QuestionIds, ReturnException(v, q)
      PROVE  LeftWith(v, K)' /\ UNCHANGED <<connected, err>>
  <2> DEFINE m == ReturnMsg(v, q, "exception", [kind |-> "none", id |-> 0], FALSE)
  <2>1. /\ Executing(v, q) /\ chan' = Transmit(chan, v, m)
        /\ answers' = [answers EXCEPT ![v] =
                Unqueue(SentReturn(answers[v], q, FALSE, None, FALSE), q, FALSE)]
        /\ UNCHANGED <<questions, exports, connected, err>>
    BY <1>4 DEF ReturnException
  <2> HIDE DEF m
  <2>2. Provides(exports[v], exports'[v], None)
    BY <1>2, <2>1 DEF Provides
  <2> QED
    BY <2>1, <2>2, ReturnLeft
<1>5. ASSUME NEW q \in QuestionIds, NEW arg \in Arguments(v), ReturnResults(v, q, arg)
      PROVE  LeftWith(v, K)' /\ UNCHANGED <<connected, err>>
  <2> DEFINE w == WriteDescriptor(v, arg)
             nofinish == arg.kind = "none"
             exp == Exported(w.desc)
             m == ReturnMsg(v, q, "results", w.desc, nofinish)
  <2>1. arg \in Argument /\ RoomToExport(v, arg)
    BY <1>1, <1>5, ApplicationChoices DEF ReturnResults
  <2>2. ~ w.panic /\ w.desc \in Descriptor /\ Provides(exports[v], w.exports, exp)
    BY <1>1, <2>1, WriteProvides
  <2>3. /\ Executing(v, q) /\ chan' = Transmit(chan, v, m)
        /\ answers' = [answers EXCEPT ![v] =
                Unqueue(SentReturn(answers[v], q, nofinish, exp, ~nofinish), q, ~nofinish)]
        /\ exports' = [exports EXCEPT ![v] = w.exports]
        /\ UNCHANGED <<questions, connected, err>>
    BY <1>5, <2>2 DEF ReturnResults, Exported
  <2>4. nofinish \in BOOLEAN /\ (~nofinish) \in BOOLEAN
    OBVIOUS
  <2> HIDE DEF m, w, nofinish
  <2>5. exp \in ExportIds \cup {None}
    BY <2>2 DEF Exported, Descriptor
  <2>6. exports'[v] = w.exports
    BY <1>1, <2>3 DEF TypeOK
  <2> HIDE DEF exp
  <2>7. Provides(exports[v], exports'[v], exp)
    BY <2>2, <2>6
  <2>8. LeftWith(v, K)'
    BY <2>3, <2>4, <2>5, <2>7, ReturnLeft
  <2> QED
    BY <2>3, <2>8
<1>6. \A q \in QuestionIds, ok \in BOOLEAN : ~ ReturnRedirected(v, q, ok)
  BY <1>1 DEF ReturnRedirected, RpcResults
<1> QED
  BY <1>3, <1>4, <1>5, <1>6 DEF Return

\* What v knows of a message that is left for it.
LEMMA LeftArrives ==
    ASSUME NEW v \in Vats, NEW K, Alone(v, K), chan[Peer(v)] # << >>
    PROVE  LET m == Incoming(v)
               out == chan[Peer(v)]
           IN  /\ TypeOK /\ connected[v] /\ ExportsMatch(v)
               /\ m \in Message /\ out \in Seq(Message) /\ Tail(out) \in Seq(Message)
               /\ 1 \in 1 .. Len(out) /\ out[1] = m /\ Shorter(out, Tail(out), m)
               /\ LeftOK(K, questions[v], answers[v], exports[v], out)
               /\ exports[v] \in [ExportIds -> Export \cup {None}]
<1>1. TypeOK /\ connected[v] /\ ExportsMatch(v) /\ LeftWith(v, K)
  BY DEF Alone
<1>2. chan[Peer(v)] \in Seq(Message) /\ exports[v] \in [ExportIds -> Export \cup {None}]
  BY <1>1, PeerType DEF TypeOK
<1>3. Shorter(chan[Peer(v)], Tail(chan[Peer(v)]), Incoming(v))
  BY <1>2, ShorterByTail DEF Incoming
<1>4. /\ 1 \in 1 .. Len(chan[Peer(v)]) /\ chan[Peer(v)][1] = Incoming(v)
      /\ Incoming(v) \in Message /\ Tail(chan[Peer(v)]) \in Seq(Message)
  BY <1>2 DEF Incoming
<1> QED
  BY <1>1, <1>2, <1>3, <1>4 DEF LeftWith

\* The handler takes it, whatever it sends.
LEMMA LeftRemaining ==
    ASSUME TypeOK, NEW v \in Vats, connected[v],
           chan' = Remaining(v) \/ \E r : chan' = Transmit(Remaining(v), v, r)
    PROVE  chan'[Peer(v)] = Tail(chan[Peer(v)])
<1>1. Peer(v) \in Vats /\ Peer(v) # v
  BY PeerType
<1>2. Remaining(v) = [chan EXCEPT ![Peer(v)] = Tail(@)]
  BY DEF Remaining
<1>3. Remaining(v)[Peer(v)] = Tail(chan[Peer(v)])
  BY <1>1, <1>2 DEF TypeOK
<1>4. ASSUME NEW r PROVE Transmit(Remaining(v), v, r)[Peer(v)] = Remaining(v)[Peer(v)]
  <2> DEFINE ch == Remaining(v)
  <2>1. DOMAIN ch = Vats
    BY <1>2 DEF TypeOK
  <2> HIDE DEF ch
  <2>2. Transmit(ch, v, r)[Peer(v)] = ch[Peer(v)]
    BY <1>1, <2>1 DEF Transmit
  <2> QED
    BY <2>2 DEF ch
<1> QED
  BY <1>3, <1>4

\* A message that gives nothing back leaves the exports.
LEMMA TakesNothing ==
    ASSUME NEW xs \in [ExportIds -> Export \cup {None}], NEW m, NEW ans
    PROVE  \A e \in ExportIds : TakesBack(m, xs[e], xs[e], ans, e)
<1> SUFFICES ASSUME NEW e \in ExportIds PROVE TakesBack(m, xs[e], xs[e], ans, e)
  OBVIOUS
<1>1. RefsOf(xs[e]) \in Nat
  BY RefsNumber
<1>2. RefsOf(xs[e]) <= RefsOf(xs[e])
  BY <1>1
<1> QED
  BY <1>1, <1>2 DEF TakesBack

\* A step of v that takes a message; ys are the exports without what the
\* message gives back.
LEMMA LeftTakes ==
    ASSUME NEW v \in Vats, NEW K, Alone(v, K), chan[Peer(v)] # << >>,
           chan'[Peer(v)] = Tail(chan[Peer(v)]), NEW ys,
           \A q \in QuestionIds : \/ questions'[v][q] = questions[v][q]
                                  \/ ReturnTo(Incoming(v), q),
           \A q \in QuestionIds : AnswerTaken(answers[v][q], answers'[v][q], Incoming(v), q),
           \A e \in ExportIds : TakesBack(Incoming(v), exports[v][e], ys[e], answers[v], e),
           \A e \in ExportIds : CountKept(ys[e], exports'[v][e], answers[v], answers'[v],
                                          Tail(chan[Peer(v)]), e)
    PROVE  LeftWith(v, K)'
<1> DEFINE m == Incoming(v)
           out == chan[Peer(v)]
           out2 == Tail(out)
           qs == questions[v]
           qs2 == questions'[v]
           ans == answers[v]
           ans2 == answers'[v]
           xs == exports[v]
           xs2 == exports'[v]
<1>1. /\ m \in Message /\ out \in Seq(Message) /\ out2 \in Seq(Message)
      /\ Shorter(out, out2, m) /\ LeftOK(K, qs, ans, xs, out)
  BY LeftArrives
<1>2. /\ \A q \in QuestionIds : qs2[q] = qs[q] \/ ReturnTo(m, q)
      /\ \A q \in QuestionIds : AnswerTaken(ans[q], ans2[q], m, q)
      /\ \A e \in ExportIds : TakesBack(m, xs[e], ys[e], ans, e)
      /\ \A e \in ExportIds : CountKept(ys[e], xs2[e], ans, ans2, out2, e)
  OBVIOUS
<1> HIDE DEF m, out, out2, qs, qs2, ans, ans2, xs, xs2
<1>3. LeftOK(K, qs2, ans2, xs2, out2)
  BY <1>1, <1>2, LeftTaken
<1> QED
  BY <1>3 DEF LeftWith, out, out2, qs2, ans2, xs2

\* handle_bootstrap.
LEMMA HandleBootstrapLeft ==
    ASSUME NEW v \in Vats, NEW K, Alone(v, K), TypeOK', HandleBootstrap(v)
    PROVE  LeftWith(v, K)' /\ UNCHANGED <<connected, err>>
<1> DEFINE m == Incoming(v)
           out == chan[Peer(v)]
           arg == [kind |-> "local", id |-> BootstrapCap]
           w == WriteDescriptor(v, arg)
           a == [call |-> m.call, finish |-> FALSE, status |-> "returned",
                 exp |-> w.desc.id, ok |-> TRUE, broken |-> FALSE,
                 waits |-> {}, eager |-> FALSE]
<1>1. out # << >> /\ m.t = "bootstrap"
  BY DEF HandleBootstrap, CanHandle
<1>2. /\ TypeOK /\ connected[v] /\ ExportsMatch(v) /\ m \in Message
      /\ 1 \in 1 .. Len(out) /\ out[1] = m /\ Tail(out) \in Seq(Message)
      /\ LeftOK(K, questions[v], answers[v], exports[v], out)
      /\ exports[v] \in [ExportIds -> Export \cup {None}]
  BY <1>1, LeftArrives
<1>3. m.q \in QuestionIds /\ m.call \in Nat
  BY <1>1, <1>2 DEF Message
<1>4. AskFor(m, m.q) /\ \A q : ~ FinishOf(m, q) /\ (AskFor(m, q) => q = m.q)
  BY <1>1 DEF AskFor, FinishOf
<1>5. answers[v][m.q] = None
  <2>1. LeftAsk(answers[v][m.q], out, m.q)
    BY <1>2, <1>3 DEF LeftOK
  <2> HIDE DEF m, out
  <2> QED
    BY <1>2, <1>4, <2>1, LeftAskMeetsNone
<1>6. arg \in Argument /\ arg.kind = "local"
  BY CapsAssumption DEF Argument
<1>7. ~ w.panic
  <2> SUFFICES ASSUME w.panic PROVE FALSE
    OBVIOUS
  <2>1. exportsByCap[v][BootstrapCap] # None
    BY DEF WriteDescriptor
  <2>2. RoomToExport(v, arg)
    BY <2>1 DEF RoomToExport
  <2> HIDE DEF arg
  <2> QED
    BY <1>2, <1>6, <2>2, WriteDescriptorMatches
<1>8. /\ RoomToExport(v, arg)
      /\ answers' = [answers EXCEPT ![v][m.q] = a]
      /\ exports' = [exports EXCEPT ![v] = w.exports]
      /\ \E r : chan' = Transmit(Remaining(v), v, r)
      /\ UNCHANGED <<questions, connected, err>>
  BY <1>2, <1>5, <1>7 DEF HandleBootstrap
<1>9. /\ w.desc \in Descriptor /\ w.desc.kind = "senderHosted"
      /\ Provides(exports[v], w.exports, Exported(w.desc))
  <2> HIDE DEF arg
  <2> QED
    BY <1>2, <1>6, <1>8, WriteProvides
<1> HIDE DEF w, m, out
<1>10. a.call = m.call /\ a.exp = w.desc.id
  OBVIOUS
<1> HIDE DEF a
<1>11. /\ answers'[v][m.q] = a
       /\ \A q \in QuestionIds : q # m.q => answers'[v][q] = answers[v][q]
       /\ exports'[v] = w.exports
       /\ exports'[v] \in [ExportIds -> Export \cup {None}]
  BY <1>2, <1>3, <1>8 DEF TypeOK
<1>12. chan'[Peer(v)] = Tail(out)
  BY <1>2, <1>8, LeftRemaining DEF out
<1>13. \A q \in QuestionIds : AnswerTaken(answers[v][q], answers'[v][q], m, q)
  BY <1>4, <1>10, <1>11 DEF AnswerTaken
<1>14. Provides(exports[v], exports'[v], w.desc.id)
  BY <1>9, <1>11 DEF Exported
<1>15. \A e \in ExportIds : CountKept(exports[v][e], exports'[v][e], answers[v],
                                      answers'[v], Tail(out), e)
  <2> DEFINE xs == exports[v]
             xs2 == exports'[v]
             ans == answers[v]
             ans2 == answers'[v]
             out2 == Tail(out)
             exp == w.desc.id
  <2>1. /\ xs \in [ExportIds -> Export \cup {None}]
        /\ xs2 \in [ExportIds -> Export \cup {None}] /\ out2 \in Seq(Message)
        /\ Provides(xs, xs2, exp) /\ m.q \in QuestionIds
    BY <1>2, <1>3, <1>11, <1>14
  <2>2. \A q \in QuestionIds : q # m.q => Alike(ans[q], ans2[q])
    BY <1>11 DEF Alike
  <2>3. ans2[m.q].call \in Nat /\ ans2[m.q].exp = exp
    BY <1>3, <1>10, <1>11
  <2> HIDE DEF xs, xs2, ans, ans2, out2, exp
  <2>4. \A e \in ExportIds : CountKept(xs[e], xs2[e], ans, ans2, out2, e)
    BY <2>1, <2>2, <2>3, CountProvided
  <2> QED
    BY <2>4 DEF xs, xs2, ans, ans2, out2
<1>16. \A e \in ExportIds : TakesBack(m, exports[v][e], exports[v][e], answers[v], e)
  BY <1>2, TakesNothing
<1>17. LeftWith(v, K)'
  BY <1>1, <1>8, <1>12, <1>13, <1>15, <1>16, LeftTakes DEF m, out
<1> QED
  BY <1>8, <1>17

\* The export a message left names is alive.
LEMMA LeftNamedIsExported ==
    ASSUME NEW K, NEW qs, NEW ans, NEW xs, NEW out \in Seq(Message),
           LeftOK(K, qs, ans, xs, out), NEW i \in 1 .. Len(out), NEW e \in ExportIds,
           Names(out[i], e), RefsOf(xs[e]) \in Nat
    PROVE  xs[e] # None
<1> DEFINE k == IF e \in K THEN 1 ELSE 0
           g == Cardinality(GivenBack(out, e))
           s == Cardinality(FinishedOf(ans, out, e))
<1>1. LeftCount(xs[e], ans, out, K, e) /\ LeftNames(K, out)
  BY DEF LeftOK
<1>2. IsFiniteSet(GivenBack(out, e)) /\ k + g + s <= RefsOf(xs[e])
  BY <1>1 DEF LeftCount
<1>3. k \in Nat /\ g \in Nat /\ s \in Nat
  BY <1>2, FinishedNumber, FS_CardinalityType
<1>4. k # 0 \/ g # 0
  <2>1. CASE e \in K
    BY <2>1
  <2>2. CASE e \notin K
    <3>1. PICK j \in 1 .. Len(out) : Gives(out[j], e) /\ out[j].n # 0
      BY <1>1, <2>2 DEF LeftNames
    <3>2. out[j] \in Message
      BY <3>1
    <3>3. out[j].n \in Nat
      BY <3>1, <3>2 DEF Gives, Message
    <3>4. 1 \in 1 .. out[j].n /\ j \in DOMAIN out
      BY <3>1, <3>3
    <3>5. <<j, 1>> \in GivenBack(out, e)
      BY <3>1, <3>4 DEF GivenBack
    <3> QED
      BY <1>2, <3>5, FS_EmptySet
  <2> QED
    BY <2>1, <2>2
<1> HIDE DEF k, g, s
<1>5. RefsOf(xs[e]) # 0
  BY <1>2, <1>3, <1>4
<1> QED
  BY <1>5 DEF RefsOf

\* handle_message, Call.
LEMMA HandleCallLeft ==
    ASSUME NEW v \in Vats, NEW K, Alone(v, K), HandleCall(v)
    PROVE  LeftWith(v, K)' /\ UNCHANGED <<connected, err>>
<1> DEFINE m == Incoming(v)
           out == chan[Peer(v)]
           pipelined == m.target.kind = "promisedAnswer"
           a == [call |-> m.call, finish |-> FALSE, status |-> "new",
                 exp |-> None, ok |-> FALSE,
                 broken |-> pipelined /\ PipelineBroken(v, m.target.id),
                 waits |-> IF pipelined THEN QueuedOn(v, m.target.id) ELSE {},
                 eager |-> TRUE]
<1>1. out # << >> /\ m.t = "call"
  BY DEF HandleCall, CanHandle
<1>2. /\ TypeOK /\ connected[v] /\ m \in Message /\ out \in Seq(Message)
      /\ 1 \in 1 .. Len(out) /\ out[1] = m /\ Tail(out) \in Seq(Message)
      /\ LeftOK(K, questions[v], answers[v], exports[v], out)
      /\ exports[v] \in [ExportIds -> Export \cup {None}]
  BY <1>1, LeftArrives
<1>3. m.q \in QuestionIds /\ m.call \in Nat /\ m.target \in Target
  BY <1>1, <1>2 DEF Message
<1>4. AskFor(m, m.q) /\ \A q : ~ FinishOf(m, q) /\ (AskFor(m, q) => q = m.q)
  BY <1>1 DEF AskFor, FinishOf
<1>5. answers[v][m.q] = None
  <2>1. LeftAsk(answers[v][m.q], out, m.q)
    BY <1>2, <1>3 DEF LeftOK
  <2> HIDE DEF m, out
  <2> QED
    BY <1>2, <1>4, <2>1, LeftAskMeetsNone
<1>6. ASSUME ~ pipelined PROVE exports[v][m.target.id] # None
  <2>1. m.target.kind = "importedCap" /\ m.target.id \in ExportIds
    BY <1>3, <1>6 DEF Target
  <2>2. Names(m, m.target.id)
    BY <1>1, <2>1 DEF Names
  <2>3. RefsOf(exports[v][m.target.id]) \in Nat
    BY <1>2, <2>1, RefsNumber
  <2> HIDE DEF m, out
  <2> QED
    BY <1>2, <2>1, <2>2, <2>3, LeftNamedIsExported
<1>7. /\ answers' = [answers EXCEPT ![v][m.q] = a]
      /\ chan' = Remaining(v)
      /\ UNCHANGED <<questions, exports, connected, err>>
  BY <1>5, <1>6 DEF HandleCall
<1> HIDE DEF m, out
<1>8. a.call = m.call /\ a.exp = None
  OBVIOUS
<1> HIDE DEF a
<1>9. /\ answers'[v][m.q] = a
      /\ \A q \in QuestionIds : q # m.q => answers'[v][q] = answers[v][q]
  BY <1>2, <1>3, <1>7 DEF TypeOK
<1>10. chan'[Peer(v)] = Tail(out)
  BY <1>2, <1>7, LeftRemaining DEF out
<1>11. \A q \in QuestionIds : AnswerTaken(answers[v][q], answers'[v][q], m, q)
  BY <1>4, <1>8, <1>9 DEF AnswerTaken
<1>12. \A e \in ExportIds : CountKept(exports[v][e], exports'[v][e], answers[v],
                                      answers'[v], Tail(out), e)
  <2> DEFINE xs == exports[v]
             ans == answers[v]
             ans2 == answers'[v]
             out2 == Tail(out)
  <2>1. /\ xs \in [ExportIds -> Export \cup {None}]
        /\ out2 \in Seq(Message) /\ m.q \in QuestionIds /\ exports'[v] = xs
    BY <1>2, <1>3, <1>7
  <2>2. \A q \in QuestionIds : q # m.q => Alike(ans[q], ans2[q])
    BY <1>9 DEF Alike
  <2>3. ans2[m.q].call \in Nat /\ ans2[m.q].exp = None
    BY <1>3, <1>8, <1>9
  <2>4. Provides(xs, xs, None)
    BY NoneFacts DEF Provides, ExportIds
  <2> HIDE DEF xs, ans, ans2, out2
  <2>5. \A e \in ExportIds : CountKept(xs[e], xs[e], ans, ans2, out2, e)
    BY <2>1, <2>2, <2>3, <2>4, CountProvided
  <2> QED
    BY <2>1, <2>5 DEF xs, ans, ans2, out2
<1>13. \A e \in ExportIds : TakesBack(m, exports[v][e], exports[v][e], answers[v], e)
  BY <1>2, TakesNothing
<1>14. LeftWith(v, K)'
  BY <1>1, <1>7, <1>10, <1>11, <1>12, <1>13, LeftTakes DEF m, out
<1> QED
  BY <1>7, <1>14

\* handle_message, Return.
LEMMA HandleReturnLeft ==
    ASSUME NEW v \in Vats, NEW K, Alone(v, K), HandleReturn(v)
    PROVE  LeftWith(v, K)' /\ UNCHANGED <<connected, err>>
<1> DEFINE m == Incoming(v)
           out == chan[Peer(v)]
<1>1. out # << >> /\ m.t = "return"
  BY DEF HandleReturn, CanHandle
<1>2. /\ TypeOK /\ connected[v] /\ m \in Message /\ out \in Seq(Message)
      /\ 1 \in 1 .. Len(out) /\ out[1] = m
      /\ LeftOK(K, questions[v], answers[v], exports[v], out)
      /\ exports[v] \in [ExportIds -> Export \cup {None}]
  BY <1>1, LeftArrives
<1>3. m.q \in QuestionIds
  BY <1>1, <1>2 DEF Message
<1>4. ReturnTo(m, m.q) /\ \A q : ~ FinishOf(m, q) /\ ~ AskFor(m, q)
  BY <1>1 DEF AskFor, FinishOf, ReturnTo
<1>5. questions[v][m.q] # None
  <2>1. LeftReturns(questions[v], out)
    BY <1>2 DEF LeftOK
  <2> HIDE DEF m, out
  <2> QED
    BY <1>2, <1>3, <1>4, <2>1 DEF LeftReturns
<1>6. /\ \E x : questions' = [questions EXCEPT ![v][m.q] = x]
      /\ chan' = Remaining(v) \/ \E r : chan' = Transmit(Remaining(v), v, r)
      /\ UNCHANGED <<answers, exports, connected, err>>
  BY <1>5 DEF HandleReturn
<1> HIDE DEF m, out
<1>7. \A q \in QuestionIds : q # m.q => questions'[v][q] = questions[v][q]
  BY <1>2, <1>3, <1>6 DEF TypeOK
<1>8. chan'[Peer(v)] = Tail(out)
  BY <1>2, <1>6, LeftRemaining DEF out
<1>9. \A q \in QuestionIds : AnswerTaken(answers[v][q], answers'[v][q], m, q)
  BY <1>4, <1>6 DEF AnswerTaken
<1>10. \A q \in QuestionIds : questions'[v][q] = questions[v][q] \/ ReturnTo(m, q)
  BY <1>4, <1>7
<1>11. \A e \in ExportIds : CountKept(exports[v][e], exports'[v][e], answers[v],
                                      answers'[v], Tail(out), e)
  BY <1>2, <1>6, NothingDone
<1>12. \A e \in ExportIds : TakesBack(m, exports[v][e], exports[v][e], answers[v], e)
  BY <1>2, TakesNothing
<1>13. LeftWith(v, K)'
  BY <1>1, <1>8, <1>9, <1>10, <1>11, <1>12, LeftTakes DEF m, out
<1> QED
  BY <1>6, <1>13

\* If as many references are left, they can be released.
LEMMA EnoughLeft ==
    ASSUME TypeOK, NEW v \in Vats, NEW e \in ExportIds, NEW n \in Nat \ {0},
           RefsOf(exports[v][e]) \in Nat, n <= RefsOf(exports[v][e])
    PROVE  MayRelease(v, e, n)
<1> DEFINE r == RefsOf(exports[v][e]) - n
<1>1. r \in Nat /\ RefsOf(exports[v][e]) = n + r
  OBVIOUS
<1> HIDE DEF r
<1> QED
  BY <1>1, EnoughRefs

\* release_export, as a message left asks for it.
LEMMA ReleaseTakes ==
    ASSUME TypeOK, TypeOK', NEW v \in Vats, NEW id \in ExportIds, NEW n \in Nat,
           MayRelease(v, id, n), Release(v, id, n), NEW m, NEW ans,
           (Gives(m, id) /\ n = m.n) \/ (Settles(m, ans, id) /\ n = 1)
    PROVE  \A e \in ExportIds : TakesBack(m, exports[v][e], exports'[v][e], ans, e)
<1> SUFFICES ASSUME NEW e \in ExportIds
             PROVE  TakesBack(m, exports[v][e], exports'[v][e], ans, e)
  OBVIOUS
<1>1. /\ RefsOf(exports[v][id]) = RefsOf(exports'[v][id]) + n
      /\ e # id => exports'[v][e] = exports[v][e]
  BY ReleaseCounts
<1>2. /\ exports[v] \in [ExportIds -> Export \cup {None}]
      /\ exports'[v] \in [ExportIds -> Export \cup {None}]
  BY DEF TypeOK
<1>3. RefsOf(exports[v][e]) \in Nat /\ RefsOf(exports'[v][e]) \in Nat
  BY <1>2, RefsNumber
<1>4. CASE e = id
  BY <1>1, <1>3, <1>4 DEF TakesBack
<1>5. CASE e # id
  <2>1. RefsOf(exports[v][e]) <= RefsOf(exports'[v][e])
    BY <1>1, <1>3, <1>5
  <2> QED
    BY <1>3, <2>1 DEF TakesBack
<1> QED
  BY <1>4, <1>5

\* handle_message, Release.
LEMMA HandleReleaseLeft ==
    ASSUME NEW v \in Vats, NEW K, Alone(v, K), TypeOK', HandleRelease(v)
    PROVE  LeftWith(v, K)' /\ UNCHANGED <<connected, err>>
<1> DEFINE m == Incoming(v)
           out == chan[Peer(v)]
           out2 == Tail(out)
           e == m.id
           x == exports[v][e]
           k == IF e \in K THEN 1 ELSE 0
           g == Cardinality(GivenBack(out, e))
           g2 == Cardinality(GivenBack(out2, e))
           s == Cardinality(FinishedOf(answers[v], out, e))
<1>1. out # << >> /\ m.t = "release"
  BY DEF HandleRelease, CanHandle
<1>2. /\ TypeOK /\ connected[v] /\ m \in Message /\ out \in Seq(Message)
      /\ 1 \in 1 .. Len(out) /\ out[1] = m /\ out2 \in Seq(Message)
      /\ Shorter(out, out2, m)
      /\ LeftOK(K, questions[v], answers[v], exports[v], out)
      /\ exports[v] \in [ExportIds -> Export \cup {None}]
  BY <1>1, LeftArrives
<1>3. e \in ExportIds /\ m.n \in Nat /\ Gives(m, e)
  BY <1>1, <1>2 DEF Message, Gives
<1>4. /\ \A q : ~ FinishOf(m, q) /\ ~ AskFor(m, q)
  BY <1>1 DEF AskFor, FinishOf
<1>5. m.n # 0 /\ LeftCount(x, answers[v], out, K, e)
  <2>1. LeftNames(K, out) /\ LeftCount(x, answers[v], out, K, e)
    BY <1>2, <1>3 DEF LeftOK
  <2> QED
    BY <1>1, <1>2, <2>1 DEF LeftNames
<1>6. RefsOf(x) \in Nat
  BY <1>2, <1>3, RefsNumber
<1> HIDE DEF m, out, out2, e
<1>7. IsFiniteSet(GivenBack(out, e)) /\ k + g + s <= RefsOf(x)
  BY <1>5 DEF LeftCount
<1>8. IsFiniteSet(GivenBack(out2, e)) /\ g = g2 + m.n
  BY <1>2, <1>3, <1>7, GivenTaken
<1>9. g2 \in Nat /\ s \in Nat /\ k \in Nat
  BY <1>2, <1>7, <1>8, FinishedNumber, FS_CardinalityType
<1> HIDE DEF k, g, g2, s
<1>10. m.n <= RefsOf(x)
  <2> DEFINE n == m.n
             y == RefsOf(x)
  <2>1. n \in Nat /\ k + (g2 + n) + s <= y /\ y \in Nat
    BY <1>3, <1>6, <1>7, <1>8
  <2> HIDE DEF n, y
  <2>2. n <= y
    BY <1>9, <2>1
  <2> QED
    BY <2>2 DEF n, y
<1>11. MayRelease(v, e, m.n)
  BY <1>2, <1>3, <1>5, <1>6, <1>10, EnoughLeft
<1>12. /\ Release(v, e, m.n) /\ chan' = Remaining(v)
       /\ UNCHANGED <<answers, questions, connected, err>>
  BY <1>11 DEF HandleRelease, m, e
<1>13. chan'[Peer(v)] = out2
  BY <1>2, <1>12, LeftRemaining DEF out, out2
<1>14. \A q \in QuestionIds : AnswerTaken(answers[v][q], answers'[v][q], m, q)
  BY <1>4, <1>12 DEF AnswerTaken
<1>15. \A f \in ExportIds : TakesBack(m, exports[v][f], exports'[v][f], answers[v], f)
  BY <1>2, <1>3, <1>11, <1>12, ReleaseTakes
<1>16. ASSUME NEW f \in ExportIds
       PROVE  CountKept(exports'[v][f], exports'[v][f], answers[v], answers'[v], out2, f)
  <2>1. exports'[v][f] \in Export \cup {None}
    BY DEF TypeOK
  <2> QED
    BY <1>12, <2>1, CountSame
<1>17. LeftWith(v, K)'
  BY <1>1, <1>12, <1>13, <1>14, <1>15, <1>16, LeftTakes DEF m, out, out2
<1> QED
  BY <1>12, <1>17

\* handle_finish.
LEMMA HandleFinishLeft ==
    ASSUME NEW v \in Vats, NEW K, Alone(v, K), TypeOK', HandleFinish(v)
    PROVE  LeftWith(v, K)' /\ UNCHANGED <<connected, err>>
<1> DEFINE m == Incoming(v)
           out == chan[Peer(v)]
           a == answers[v][m.q]
           b == [a EXCEPT !.finish = TRUE, !.exp = IF m.release THEN None ELSE @]
           after == IF a.status = "returned" THEN None ELSE b
           drop == a # None /\ m.release /\ a.exp # None
<1>1. /\ out # << >> /\ m.t = "finish"
      /\ answers' = IF a = None THEN answers ELSE [answers EXCEPT ![v][m.q] = after]
  BY DEF HandleFinish, CanHandle
<1>2. /\ TypeOK /\ connected[v] /\ m \in Message /\ out \in Seq(Message)
      /\ 1 \in 1 .. Len(out) /\ out[1] = m /\ Tail(out) \in Seq(Message)
      /\ LeftOK(K, questions[v], answers[v], exports[v], out)
      /\ exports[v] \in [ExportIds -> Export \cup {None}]
  BY <1>1, LeftArrives
<1>3. m.q \in QuestionIds /\ m.release \in BOOLEAN
  BY <1>1, <1>2 DEF Message
<1>4. FinishOf(m, m.q) /\ \A q : ~ AskFor(m, q) /\ (FinishOf(m, q) => q = m.q)
  BY <1>1 DEF AskFor, FinishOf
<1>5. a \in Answer \cup {None}
  BY <1>2, <1>3 DEF TypeOK
<1>6. a # None => a.call = m.call
  <2>1. LeftFinish(a, out, m.q)
    BY <1>2, <1>3 DEF LeftOK
  <2> HIDE DEF m, out, a
  <2> QED
    BY <1>2, <1>4, <2>1, LeftFinishMeets
<1>7. ASSUME drop
      PROVE  a.exp \in ExportIds /\ Settles(m, answers[v], a.exp) /\ MayRelease(v, a.exp, 1)
  <2> DEFINE e == a.exp
             x == exports[v][e]
             k == IF e \in K THEN 1 ELSE 0
             g == Cardinality(GivenBack(out, e))
             s == Cardinality(FinishedOf(answers[v], out, e))
  <2>1. e \in ExportIds
    <3> HIDE DEF a
    <3> QED
      BY <1>5, <1>7 DEF Answer
  <2>2. Settles(m, answers[v], e)
    BY <1>1, <1>6, <1>7 DEF Settles
  <2>3. RefsOf(x) \in Nat
    BY <1>2, <2>1, RefsNumber
  <2>4. LeftCount(x, answers[v], out, K, e)
    BY <1>2, <2>1 DEF LeftOK
  <2> HIDE DEF m, out, e
  <2>5. IsFiniteSet(GivenBack(out, e)) /\ k + g + s <= RefsOf(x)
    BY <2>4 DEF LeftCount
  <2>6. k \in Nat /\ g \in Nat /\ s \in Nat
    BY <1>2, <2>5, FinishedNumber, FS_CardinalityType
  <2>7. s # 0
    <3>1. IsFiniteSet(FinishedOf(answers[v], out, e))
      BY <1>2, FinishedNumber, PlacesFinite
    <3>2. 1 \in FinishedOf(answers[v], out, e)
      BY <1>2, <2>2, FinishedNumber
    <3> QED
      BY <3>1, <3>2, FS_EmptySet
  <2> HIDE DEF k, g, s
  <2>8. 1 <= RefsOf(x)
    BY <2>3, <2>5, <2>6, <2>7
  <2>9. MayRelease(v, e, 1)
    BY <1>2, <2>1, <2>3, <2>8, EnoughLeft
  <2> QED
    BY <2>1, <2>2, <2>9 DEF e
<1>8. /\ drop => Release(v, a.exp, 1)
      /\ ~ drop => exports' = exports
      /\ chan' = Remaining(v)
      /\ UNCHANGED <<questions, connected, err>>
  BY <1>7 DEF HandleFinish
<1> HIDE DEF m, out
<1>9. /\ \A q \in QuestionIds : q # m.q => answers'[v][q] = answers[v][q]
      /\ a = None => answers'[v][m.q] = None
      /\ a # None => answers'[v][m.q] = after
  <2>1. CASE a = None
    BY <1>1, <2>1
  <2>2. CASE a # None
    <3>1. answers' = [answers EXCEPT ![v][m.q] = after]
      BY <1>1, <2>2
    <3> HIDE DEF after, a
    <3> QED
      BY <1>2, <1>3, <2>2, <3>1 DEF TypeOK
  <2> QED
    BY <2>1, <2>2
<1>10. ASSUME a # None, a.status # "returned"
       PROVE  /\ answers'[v][m.q] = b /\ b \in Answer /\ b.call = a.call
              /\ b.exp = None \/ b.exp = a.exp
  <2>1. answers'[v][m.q] = b /\ a \in Answer
    BY <1>5, <1>9, <1>10
  <2> HIDE DEF a
  <2>2. b \in Answer /\ b.call = a.call /\ (b.exp = None \/ b.exp = a.exp)
    BY <1>3, <2>1 DEF Answer
  <2> QED
    BY <2>1, <2>2
<1> HIDE DEF b
<1>11. ASSUME a = None \/ a.status = "returned" PROVE answers'[v][m.q] = None
  BY <1>9, <1>11
<1>12. AnswerTaken(a, answers'[v][m.q], m, m.q)
  BY <1>4, <1>10, <1>11 DEF AnswerTaken
<1>13. \A q \in QuestionIds : AnswerTaken(answers[v][q], answers'[v][q], m, q)
  BY <1>4, <1>9, <1>12 DEF AnswerTaken
<1>14. \A e \in ExportIds : TakesBack(m, exports[v][e], exports'[v][e], answers[v], e)
  <2>1. CASE drop
    <3> HIDE DEF a
    <3>1. a.exp \in ExportIds /\ Settles(m, answers[v], a.exp) /\ MayRelease(v, a.exp, 1)
          /\ Release(v, a.exp, 1)
      BY <1>7, <1>8, <2>1
    <3> QED
      BY <1>2, <3>1, ReleaseTakes
  <2>2. CASE ~ drop
    <3>1. exports' = exports
      BY <1>8, <2>2
    <3> QED
      BY <1>2, <3>1, TakesNothing
  <2> QED
    BY <2>1, <2>2
<1>15. ASSUME NEW e \in ExportIds
       PROVE  CountKept(exports'[v][e], exports'[v][e], answers[v], answers'[v], Tail(out), e)
  <2> DEFINE out2 == Tail(out)
             ans == answers[v]
             ans2 == answers'[v]
  <2>1. exports'[v][e] \in Export \cup {None} /\ out2 \in Seq(Message)
    BY <1>2 DEF TypeOK
  <2>2. \A q \in QuestionIds : q # m.q => Alike(ans[q], ans2[q])
    BY <1>9 DEF Alike
  <2>3. ans2[m.q] # None => /\ ans[m.q] # None /\ ans2[m.q].call = ans[m.q].call
                            /\ ans2[m.q].exp = None \/ ans2[m.q].exp = ans[m.q].exp
    BY <1>10, <1>11
  <2>4. e # None
    BY NoneFacts DEF ExportIds
  <2> HIDE DEF out2, ans, ans2
  <2>5. ASSUME NEW i \in 1 .. Len(out2), Settles(out2[i], ans2, e)
        PROVE  Settles(out2[i], ans, e)
    <3>1. out2[i] \in Message
      BY <2>1
    <3>2. out2[i].q \in QuestionIds
      BY <2>5, <3>1 DEF Settles, Message
    <3>3. CASE out2[i].q # m.q
      <4>1. Alike(ans[out2[i].q], ans2[out2[i].q])
        BY <2>2, <3>2, <3>3
      <4> QED
        BY <2>5, <4>1 DEF Settles, Alike
    <3>4. CASE out2[i].q = m.q
      BY <2>3, <2>4, <2>5, <3>4 DEF Settles
    <3> QED
      BY <3>3, <3>4
  <2>6. CountKept(exports'[v][e], exports'[v][e], ans, ans2, out2, e)
    BY <2>1, <2>5, CountSame
  <2> QED
    BY <2>6 DEF out2, ans, ans2
<1>16. chan'[Peer(v)] = Tail(out)
  BY <1>2, <1>8, LeftRemaining DEF out
<1>17. LeftWith(v, K)'
  BY <1>1, <1>8, <1>13, <1>14, <1>15, <1>16, LeftTakes DEF m, out
<1> QED
  BY <1>8, <1>17

\* handle_message, Abort: the peer has not complained of a message.
LEMMA HandleAbortLeft ==
    ASSUME NEW v \in Vats, NEW K, Alone(v, K), HandleAbort(v)
    PROVE  UNCHANGED err /\ ~ connected'[v]
<1>1. chan[Peer(v)] # << >>
  BY DEF HandleAbort, CanHandle
<1>2. /\ TypeOK /\ connected[v] /\ LeftNames(K, chan[Peer(v)])
      /\ 1 \in 1 .. Len(chan[Peer(v)]) /\ chan[Peer(v)][1] = Incoming(v)
  BY <1>1, LeftArrives DEF LeftOK
<1>3. Incoming(v).t # "unimplemented"
  BY <1>2 DEF LeftNames
<1>4. err' = [err EXCEPT ![v] = err[v] \/ FALSE]
  BY <1>3 DEF HandleAbort
<1>5. err \in [Vats -> BOOLEAN] /\ connected \in [Vats -> BOOLEAN]
  BY <1>2 DEF TypeOK
<1>6. UNCHANGED err
  BY <1>4, <1>5
<1>7. connected' = [connected EXCEPT ![v] = FALSE]
  BY <1>2 DEF HandleAbort, Disconnect
<1> QED
  BY <1>5, <1>6, <1>7

-----------------------------------------------------------------------------
(* When one end goes *)

\* While both are connected, what the peer has sent is as it will be left.
LEMMA LeftFromLive ==
    ASSUME LiveInv, BothConnected, NEW v \in Vats
    PROVE  \E K \in SUBSET ExportIds : LeftWith(v, K)
<1> DEFINE u == Peer(v)
           ims == imports[u]
           out == chan[u]
           in == chan[v]
           K == {e \in ExportIds : ims[e] # None}
           xs == exports[v]
           ans == answers[v]
           qs == questions[u]
<1>1. RefsInv /\ IdsInv
  BY DEF LiveInv, RefsInv
<1>2. /\ Books(xs, ims, qs, ans, out, in)
      /\ ims \in [ExportIds -> Nat \cup {None}]
      /\ in \in Seq(Message) /\ out \in Seq(Message)
  BY <1>1, BothBooks
<1>3. u \in Vats
  BY PeerType
<1>4. NamedOK(ims, out)
  BY <1>3 DEF LiveInv, NamesKept
<1>5. LeftReturns(questions[v], out)
  <2>1. \A q \in QuestionIds : SlotOK(questions[v][q], answers[u][q], issued[v], in, out, q)
    BY <1>1, Sides
  <2> HIDE DEF in, out, u
  <2> QED
    BY <2>1, LeftReturnsFrom
<1>6. ASSUME NEW q \in QuestionIds
      PROVE  LeftAsk(ans[q], out, q) /\ LeftFinish(ans[q], out, q)
  <2>1. /\ SlotOK(qs[q], ans[q], issued[u], out, in, q)
        /\ ans[q] \in Answer \cup {None}
    BY <1>1, Sides
  <2> HIDE DEF in, out, u, qs, ans
  <2> QED
    BY <2>1, LeftAskFrom, LeftFinishFrom
<1> HIDE DEF u, ims, out, in, qs, xs, ans
<1>7. LeftNames(K, out)
  BY <1>4, LeftNamesFrom
<1>8. ASSUME NEW e \in ExportIds PROVE LeftCount(xs[e], ans, out, K, e)
  <2>1. Ledger(xs[e], ims[e], qs, ans, out, in, e)
    BY <1>2 DEF Books
  <2>2. ims[e] \in Nat \cup {None} /\ ims[e] # 0
    BY <1>2, <1>4 DEF NamedOK
  <2>3. e \in K <=> ims[e] # None
    OBVIOUS
  <2> HIDE DEF K
  <2> QED
    BY <1>2, <2>1, <2>2, <2>3, LeftCountFrom
<1>9. K \in SUBSET ExportIds
  OBVIOUS
<1> HIDE DEF K
<1>10. LeftOK(K, questions[v], ans, xs, out)
  BY <1>5, <1>6, <1>7, <1>8 DEF LeftOK
<1>11. LeftWith(v, K)
  BY <1>10 DEF LeftWith, ans, xs, out, u
<1> QED
  BY <1>9, <1>11

\* What a step of u leaves alone of its peer, and of what u had sent.
PeerKept(u) ==
    /\ questions'[Peer(u)] = questions[Peer(u)] /\ answers'[Peer(u)] = answers[Peer(u)]
    /\ exports'[Peer(u)] = exports[Peer(u)] /\ chan'[u] = chan[u]

\* disconnect of one end, the other being connected: an Abort at the end of
\* what it has sent.
LEMMA LeftByDisconnect ==
    ASSUME TypeOK, TypeOK', NEW u \in Vats, connected[u],
           Disconnector(u) \/ ConnectionLost(u), NEW K, LeftWith(Peer(u), K)
    PROVE  LeftWith(Peer(u), K)'
<1> DEFINE v == Peer(u)
<1>1. v \in Vats /\ v # u /\ Peer(v) = u
  BY DEF Vats, Peer
<1>2. PICK ch \in {chan, Drained(u)} :
            /\ questions' = [questions EXCEPT ![u] = [q \in QuestionIds |->
                                                Rejected(questions[u][q])]]
            /\ exports' = [exports EXCEPT ![u] = [e \in ExportIds |-> None]]
            /\ chan' = Transmit(ch, u, AbortMsg)
            /\ UNCHANGED answers
  BY DEF Disconnector, ConnectionLost, Disconnect
<1>3. questions'[v] = questions[v] /\ exports'[v] = exports[v] /\ answers'[v] = answers[v]
  BY <1>1, <1>2 DEF TypeOK
<1>4. ch[u] = chan[u] /\ DOMAIN ch = Vats
  BY <1>1 DEF Drained, TypeOK
<1>5. chan'[u] = chan[u] \/ chan'[u] = Append(chan[u], AbortMsg)
  BY <1>2, <1>4 DEF Transmit
<1>6. /\ chan[u] \in Seq(Message) /\ chan'[u] \in Seq(Message)
      /\ AbortMsg \in Message /\ AbortMsg.t = "abort"
  BY DEF TypeOK, AbortMsg, Message
<1>7. LeftOK(K, questions[v], answers[v], exports[v], chan[u])
  BY <1>1 DEF LeftWith
<1>8. LeftOK(K, questions[v], answers[v], exports[v], chan'[u])
  <2>1. CASE chan'[u] = chan[u]
    BY <1>7, <2>1
  <2>2. CASE chan'[u] = Append(chan[u], AbortMsg)
    <3>1. Longer(chan[u], chan'[u], AbortMsg)
      BY <1>6, <2>2, LongerByAppend
    <3> QED
      BY <1>6, <1>7, <3>1, LeftAborted
  <2> QED
    BY <1>5, <2>1, <2>2
<1> QED
  BY <1>1, <1>3, <1>8 DEF LeftWith

\* The steps of one vat.
StepOf(v) ==
    \/ Application(v)
    \/ \E q \in QuestionIds : CancelCall(v, q)
    \/ \E q \in QuestionIds : InitResults(v, q)
    \/ Return(v)
    \/ DowncastMap(v)
    \/ HandleMessage(v)
    \/ Disconnector(v)
    \/ ConnectionLost(v)

\* A vat without the connection sends nothing and leaves its peer alone.
LEMMA GoneIsSilent ==
    ASSUME TypeOK, NEW u \in Vats, ~ connected[u], StepOf(u)
    PROVE  UNCHANGED <<connected, err>> /\ PeerKept(u)
<1> DEFINE v == Peer(u)
<1>1. v \in Vats /\ v # u /\ Peer(v) = u
  BY DEF Vats, Peer
<1>2. /\ Remaining(u) = Drained(u) /\ Drained(u)[u] = chan[u]
      /\ \A ch, m : Transmit(ch, u, m) = ch
  BY <1>1 DEF Remaining, Drained, Transmit, TypeOK
<1>3. ASSUME NEW ch, ch[u] = chan[u], Disconnect(u, ch)
      PROVE  UNCHANGED <<connected, questions, exports>> /\ chan'[u] = chan[u]
  BY <1>3 DEF Disconnect
<1>4. ASSUME Fail(u)
      PROVE  UNCHANGED <<connected, questions, exports, err>> /\ chan'[u] = chan[u]
  <2>1. UNCHANGED <<connected, questions, exports>> /\ chan'[u] = chan[u]
    BY <1>2, <1>3, <1>4 DEF Fail
  <2>2. UNCHANGED err
    BY <1>4 DEF Fail, TypeOK
  <2> QED
    BY <2>1, <2>2
<1>5. /\ \A x : [questions EXCEPT ![u] = x][v] = questions[v]
      /\ \A x : [answers EXCEPT ![u] = x][v] = answers[v]
      /\ \A x : [exports EXCEPT ![u] = x][v] = exports[v]
  BY <1>1 DEF TypeOK
<1>6. CASE Application(u)
  <2>1. CASE Bootstrap(u)
    BY <2>1 DEF Bootstrap, PeerKept
  <2>2. CASE \E target \in Targets(u), arg \in Arguments(u) : BuildRequest(u, target, arg)
    BY <2>2 DEF BuildRequest, PeerKept
  <2>3. CASE SendRequest(u)
    <3>1. /\ UNCHANGED questions \/ Ask(u)
          /\ UNCHANGED chan \/ \E m : chan' = Transmit(chan, u, m)
          /\ UNCHANGED exports \/ \E x : exports' = [exports EXCEPT ![u] = x]
          /\ UNCHANGED <<answers, connected, err>>
      BY <2>3 DEF SendRequest
    <3>2. \E x : questions' = [questions EXCEPT ![u] = x] \/ UNCHANGED questions
      BY <3>1 DEF Ask
    <3> QED
      BY <1>2, <1>5, <3>1, <3>2 DEF PeerKept
  <2>4. CASE \E q \in QuestionIds : DropQuestionRef(u, q)
    <3>1. /\ UNCHANGED chan \/ \E m : chan' = Transmit(chan, u, m)
          /\ \E x : questions' = [questions EXCEPT ![u] = x]
          /\ UNCHANGED <<answers, exports, connected, err>>
      BY <2>4 DEF DropQuestionRef
    <3> QED
      BY <1>2, <1>5, <3>1 DEF PeerKept
  <2>5. CASE \E e \in ExportIds : DropImport(u, e)
    <3>1. /\ \E m : chan' = Transmit(chan, u, m)
          /\ UNCHANGED <<questions, answers, exports, connected, err>>
      BY <2>5 DEF DropImport
    <3> QED
      BY <1>2, <3>1 DEF PeerKept
  <2> QED
    BY <1>6, <2>1, <2>2, <2>3, <2>4, <2>5 DEF Application
<1>7. CASE \E q \in QuestionIds : CancelCall(u, q) \/ InitResults(u, q)
  <2>1. /\ \E x : answers' = [answers EXCEPT ![u] = x]
        /\ UNCHANGED <<chan, questions, exports, connected, err>>
    BY <1>7 DEF CancelCall, InitResults
  <2> QED
    BY <1>5, <2>1 DEF PeerKept
<1>8. CASE Return(u)
  <2>1. /\ UNCHANGED answers \/ \E x : answers' = [answers EXCEPT ![u] = x]
        /\ UNCHANGED exports \/ \E x : exports' = [exports EXCEPT ![u] = x]
        /\ UNCHANGED chan \/ \E m : chan' = Transmit(chan, u, m)
        /\ UNCHANGED <<questions, connected, err>>
    BY <1>8 DEF Return, ReturnCanceled, ReturnResults, ReturnException, ReturnRedirected
  <2> QED
    BY <1>2, <1>5, <2>1 DEF PeerKept
<1>9. CASE HandleMessage(u)
  <2>1. CASE HandleBootstrap(u)
    <3>1. chan' = Remaining(u) /\ UNCHANGED <<connected, questions, answers, exports, err>>
      BY <2>1 DEF HandleBootstrap
    <3> QED
      BY <1>2, <3>1 DEF PeerKept
  <2>2. CASE HandleCall(u)
    <3>1. CASE Fail(u) /\ UNCHANGED answers
      BY <1>4, <3>1 DEF PeerKept
    <3>2. CASE /\ \E x : answers' = [answers EXCEPT ![u] = x]
               /\ chan' = Remaining(u) /\ UNCHANGED <<connected, questions, exports, err>>
      BY <1>2, <1>5, <3>2 DEF PeerKept
    <3> QED
      BY <2>2, <3>1, <3>2 DEF HandleCall
  <2>3. CASE HandleReturn(u)
    <3>1. CASE Fail(u) /\ UNCHANGED answers
      BY <1>4, <3>1 DEF PeerKept
    <3>2. CASE /\ \E x : questions' = [questions EXCEPT ![u] = x]
               /\ chan' = Remaining(u) \/ \E m : chan' = Transmit(Remaining(u), u, m)
               /\ UNCHANGED <<connected, answers, exports, err>>
      BY <1>2, <1>5, <3>2 DEF PeerKept
    <3> QED
      BY <2>3, <3>1, <3>2 DEF HandleReturn
  <2>4. CASE HandleFinish(u)
    <3>0. UNCHANGED answers \/ \E x : answers' = [answers EXCEPT ![u] = x]
      BY <2>4 DEF HandleFinish
    <3>1. CASE Fail(u)
      BY <1>4, <1>5, <3>0, <3>1 DEF PeerKept
    <3>2. CASE /\ UNCHANGED exports \/ \E e : Release(u, e, 1)
               /\ chan' = Remaining(u) /\ UNCHANGED <<connected, questions, err>>
      <4>1. UNCHANGED exports \/ \E x : exports' = [exports EXCEPT ![u] = x]
        BY <3>2 DEF Release
      <4> QED
        BY <1>2, <1>5, <3>0, <3>2, <4>1 DEF PeerKept
    <3> QED
      BY <2>4, <3>1, <3>2 DEF HandleFinish
  <2>5. CASE HandleRelease(u)
    <3>1. CASE Fail(u) /\ UNCHANGED answers
      BY <1>4, <3>1 DEF PeerKept
    <3>2. CASE /\ \E e, n : Release(u, e, n)
               /\ chan' = Remaining(u) /\ UNCHANGED <<connected, questions, answers, err>>
      <4>1. \E x : exports' = [exports EXCEPT ![u] = x]
        BY <3>2 DEF Release
      <4> QED
        BY <1>2, <1>5, <3>2, <4>1 DEF PeerKept
    <3> QED
      BY <2>5, <3>1, <3>2 DEF HandleRelease
  <2>6. CASE HandleAbort(u)
    <3>1. UNCHANGED <<connected, questions, exports>> /\ chan'[u] = chan[u]
      BY <1>2, <1>3, <2>6 DEF HandleAbort
    <3>2. UNCHANGED err /\ UNCHANGED answers
      BY <2>6 DEF HandleAbort, TypeOK
    <3> QED
      BY <3>1, <3>2 DEF PeerKept
  <2> QED
    BY <1>9, <2>1, <2>2, <2>3, <2>4, <2>5, <2>6 DEF HandleMessage
<1>10. CASE Disconnector(u) \/ ConnectionLost(u)
  <2>1. UNCHANGED <<connected, questions, exports>> /\ chan'[u] = chan[u]
    BY <1>2, <1>3, <1>10 DEF Disconnector, ConnectionLost
  <2>2. UNCHANGED <<answers, err>>
    BY <1>10 DEF Disconnector, ConnectionLost
  <2> QED
    BY <2>1, <2>2 DEF PeerKept
<1>11. CASE DowncastMap(u)
  BY <1>11, DowncastMapOnly DEF PeerKept
<1> QED
  BY <1>6, <1>7, <1>8, <1>9, <1>10, <1>11 DEF StepOf

\* A vat whose peer has gone meets no error, and what is left for it stays in
\* order until it goes too.
LEMMA LastOneStep ==
    ASSUME NEW v \in Vats, NEW K, Alone(v, K), TypeOK', StepOf(v)
    PROVE  UNCHANGED err /\ (connected'[v] => LeftWith(v, K)')
<1>1. CASE Application(v)
  BY <1>1, BootstrapLeft, SendRequestLeft, DropQuestionRefLeft, DropImportLeft
     DEF Application
<1>2. CASE \E q \in QuestionIds : CancelCall(v, q) \/ InitResults(v, q)
  BY <1>2, RunningLeft
<1>3. CASE Return(v)
  BY <1>3, ReturnsLeft
<1>4. CASE HandleMessage(v)
  BY <1>4, HandleBootstrapLeft, HandleCallLeft, HandleReturnLeft, HandleFinishLeft,
     HandleReleaseLeft, HandleAbortLeft DEF HandleMessage
<1>5. CASE Disconnector(v) \/ ConnectionLost(v)
  <2>1. connected[v] /\ connected \in [Vats -> BOOLEAN]
    BY DEF Alone, TypeOK
  <2>2. connected' = [connected EXCEPT ![v] = FALSE] /\ UNCHANGED err
    BY <1>5, <2>1 DEF Disconnector, ConnectionLost, Disconnect
  <2> QED
    BY <2>1, <2>2
<1>6. CASE DowncastMap(v)
  <2>1. LeftWith(v, K)
    BY DEF Alone
  <2> QED
    BY <1>6, <2>1, DowncastMapOnly DEF LeftWith
<1> QED
  BY <1>1, <1>2, <1>3, <1>4, <1>5, <1>6 DEF StepOf

\* What keeps errors out: while both are connected, LiveInv; when one has gone,
\* what it has left for the other is in order.
SilentInv ==
    /\ LiveInv /\ NoProtocolError
    /\ \A v \in Vats : connected[v] /\ ~ connected[Peer(v)] =>
            \E K \in SUBSET ExportIds : LeftWith(v, K)

\* Every step keeps SilentInv.
LEMMA NextSilentInv == SilentInv /\ [Next]_vars => SilentInv'
<1> SUFFICES ASSUME SilentInv, [Next]_vars PROVE SilentInv'
  OBVIOUS
<1>1. LiveInv /\ LiveInv'
  BY NextLiveInv DEF SilentInv
<1>2. /\ TypeOK /\ TypeOK' /\ ExportInv /\ \A w \in Vats : connected[w] => loop[w]
  BY <1>1 DEF LiveInv, RefsInv, IdsInv
<1>3. \A w \in Vats : connected'[w] => connected[w]
  BY <1>2, NeverReconnects
<1>4. \A w \in Vats : Peer(w) \in Vats /\ Peer(w) # w /\ Peer(Peer(w)) = w
  BY DEF Vats, Peer
<1>5. CASE BothConnected
  <2>1. UNCHANGED err
    BY <1>1, <1>5, NoErrorStep
  <2>2. ASSUME NEW v \in Vats, connected'[v], ~ connected'[Peer(v)]
        PROVE  \E K \in SUBSET ExportIds : LeftWith(v, K)'
    <3>1. connected[Peer(v)] /\ Peer(v) \in Vats /\ Peer(Peer(v)) = v
      BY <1>4, <1>5 DEF BothConnected
    <3>2. PICK u \in Vats : Disconnector(u) \/ ConnectionLost(u)
      BY <1>1, <1>5, <2>2, <3>1, NoErrorStep
    <3>3. connected[u] /\ connected \in [Vats -> BOOLEAN]
      BY <1>2, <1>5 DEF BothConnected, TypeOK
    <3>4. connected' = [connected EXCEPT ![u] = FALSE]
      BY <3>2, <3>3 DEF Disconnector, ConnectionLost, Disconnect
    <3>5. u = Peer(v)
      BY <2>2, <3>1, <3>3, <3>4
    <3>6. PICK K \in SUBSET ExportIds : LeftWith(v, K)
      BY <1>1, <1>5, LeftFromLive
    <3>7. LeftWith(Peer(u), K)
      BY <3>1, <3>5, <3>6
    <3>8. LeftWith(Peer(u), K)'
      BY <1>2, <3>2, <3>3, <3>7, LeftByDisconnect
    <3> QED
      BY <3>1, <3>5, <3>8
  <2> QED
    BY <1>1, <2>1, <2>2 DEF SilentInv, NoProtocolError
<1>6. CASE ~ BothConnected
  <2>1. CASE UNCHANGED vars
    <3>1. \A v \in Vats : \A K : LeftWith(v, K) => LeftWith(v, K)'
      BY <2>1 DEF vars, LeftWith
    <3>2. UNCHANGED <<connected, err>>
      BY <2>1 DEF vars
    <3> QED
      BY <1>1, <3>1, <3>2 DEF SilentInv, NoProtocolError
  <2>2. ASSUME NEW w \in Vats, StepOf(w) PROVE SilentInv'
    <3>1. CASE ~ connected[w]
      <4>1. UNCHANGED <<connected, err>> /\ PeerKept(w)
        BY <1>2, <2>2, <3>1, GoneIsSilent
      <4>2. ASSUME NEW v \in Vats, connected'[v], ~ connected'[Peer(v)]
            PROVE  \E K \in SUBSET ExportIds : LeftWith(v, K)'
        <5>1. connected[v] /\ ~ connected[Peer(v)]
          BY <4>1, <4>2
        <5>2. w = Peer(v)
          BY <3>1, <5>1 DEF Vats, Peer
        <5>3. PICK K \in SUBSET ExportIds : LeftWith(v, K)
          BY <5>1 DEF SilentInv
        <5>4. LeftWith(v, K)'
          BY <1>4, <4>1, <5>2, <5>3 DEF LeftWith, PeerKept
        <5> QED
          BY <5>4
      <4> QED
        BY <1>1, <4>1, <4>2 DEF SilentInv, NoProtocolError
    <3>2. CASE connected[w]
      <4>1. ~ connected[Peer(w)]
        BY <1>6, <3>2 DEF BothConnected, Vats, Peer
      <4>2. PICK K \in SUBSET ExportIds : LeftWith(w, K)
        BY <3>2, <4>1 DEF SilentInv
      <4>3. Alone(w, K)
        BY <1>2, <3>2, <4>2 DEF Alone, ExportInv, ExportsByCapExact
      <4>4. UNCHANGED err /\ (connected'[w] => LeftWith(w, K)')
        BY <1>2, <2>2, <4>3, LastOneStep
      <4>5. \A v \in Vats : connected'[v] => v = w
        BY <1>3, <4>1 DEF Vats, Peer
      <4>6. \A v \in Vats : connected'[v] => LeftWith(v, K)'
        BY <4>4, <4>5
      <4> QED
        BY <1>1, <4>4, <4>6 DEF SilentInv, NoProtocolError
    <3> QED
      BY <3>1, <3>2
  <2>3. Next => \E w \in Vats : StepOf(w)
    BY DEF Next, StepOf
  <2> QED
    BY <2>1, <2>2, <2>3
<1> QED
  BY <1>5, <1>6

\* For every bound, and with every way to end a connection allowed: no vat ever
\* sends a message that a handler of handle_message rejects, also when the
\* sender has meanwhile lost the connection and its last messages, an Abort
\* at their end, are still being read.
THEOREM NoErrors == Spec => []NoProtocolError
<1>1. Init => SilentInv
  <2> SUFFICES ASSUME Init PROVE SilentInv
    OBVIOUS
  <2>1. LiveInv
    BY InitLiveInv
  <2>2. \A v \in Vats : ~ err[v] /\ (Peer(v) \in Vats => connected[Peer(v)])
    BY DEF Init, InitFrom
  <2> QED
    BY <2>1, <2>2, PeerType DEF SilentInv, NoProtocolError
<1>2. SilentInv /\ [Next]_vars => SilentInv'
  BY NextSilentInv
<1>3. SilentInv => NoProtocolError
  BY DEF SilentInv
<1> QED
  BY <1>1, <1>2, <1>3, PTL DEF Spec

\* Two vats that nobody disconnects, over a stream that does not fail, keep
\* their connection: no error of the protocol itself can end it.
THEOREM StaysConnected ==
    ASSUME Quitters = {}, Lossy = {}
    PROVE  Spec => []BothConnected
<1> DEFINE Fine == LiveInv /\ BothConnected /\ NoProtocolError
<1>1. Init => Fine
  <2>1. Init => BothConnected /\ NoProtocolError
    BY DEF Init, InitFrom, BothConnected, NoProtocolError
  <2> QED
    BY <2>1, InitLiveInv
<1>2. Fine /\ [Next]_vars => Fine'
  <2> SUFFICES ASSUME Fine, [Next]_vars PROVE Fine'
    OBVIOUS
  <2>1. LiveInv'
    BY NextLiveInv
  <2>2. \A v \in Vats : ~ Disconnector(v) /\ ~ ConnectionLost(v)
    BY DEF Disconnector, ConnectionLost
  <2>3. UNCHANGED <<connected, err>>
    BY <2>2, NoErrorStep
  <2>4. BothConnected' /\ NoProtocolError'
    BY <2>3 DEF BothConnected, NoProtocolError
  <2> QED
    BY <2>1, <2>4
<1>3. Fine => BothConnected
  OBVIOUS
<1> QED
  BY <1>1, <1>2, <1>3, PTL DEF Spec

=============================================================================
