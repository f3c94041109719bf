---------------------------- MODULE PromiseProofs ----------------------------
(***************************************************************************)
(* Proofs about PromiseResolution, for every set of promises, every bound  *)
(* and every choice of streams that fail:                                  *)
(*   - TypeCorrect: the state keeps its type;                              *)
(*   - ReferencesConserved: the refcount of an export is the number of     *)
(*     references the importer holds, will receive or is giving back;      *)
(*   - FaultsBounded: the handlers reject two things at most;              *)
(*   - HandlersAccept: only one, when no task redirects an export that is  *)
(*     not its own promise's (NoStrayRedirect).                            *)
(*                                                                         *)
(* The first two follow from Account, whose parts are: Tables, that the    *)
(* exporter's tables fit each other and that every chain of redirects has  *)
(* an end; Clients, that an import is in the table exactly as long as a    *)
(* client of the application keeps it, and that a PromiseClient which has  *)
(* not been resolved points to its import; and the Ledger, which is the    *)
(* balance.  The balance needs the others: a Resolve redirects a client    *)
(* away from an import, and it is because nothing else keeps the import    *)
(* that it is then given back, with every reference counted for it.        *)
(*                                                                         *)
(* FaultsBounded needs Sound: besides Account, that every message names an *)
(* export that is still there (NamedInv, LeftInv), that a promise is       *)
(* announced as new once (FreshInv) and that an embargo is in one place    *)
(* (TokenInv).  HandlersAccept needs Straight, what the messages say of    *)
(* where an export leads: ResolveInv and BackInv, which a stray redirect   *)
(* breaks and nothing else does.                                           *)
(***************************************************************************)
EXTENDS PromiseResolution, TLAPS, WellFoundedInduction, FiniteSetTheorems

-----------------------------------------------------------------------------
(* The importer's clients *)

\* Clients of different kinds, or with different numbers, are different.
LEMMA ClientKinds ==
    /\ \A id : Import(id)[1] = "import" /\ Import(id)[2] = id
    /\ \A c : Promised(c)[1] = "promise" /\ Promised(c)[2] = c
    /\ \A c : Gated(c)[1] = "queue" /\ Gated(c)[2] = c
    /\ Nothing[1] = "none" /\ Local[1] = "local" /\ Broken[1] = "broken"
  BY DEF Import, Promised, Gated, Nothing, Local, Broken

\* The constants.
LEMMA ConstantFacts ==
    /\ 0 \in Ids /\ Ids \subseteq Nat /\ Refs \subseteq Nat \ {0}
    /\ MaxExports \in Nat /\ MaxGives \in Nat
    /\ None \notin Ids /\ None \notin Refs /\ None \notin Caps
    /\ Own \in Caps /\ Peer \in Caps /\ Failed \subseteq Caps /\ Promises \subseteq Caps
    /\ Givable \subseteq Caps
    /\ "A" \in Vats /\ "B" \in Vats
  BY PromiseBounds, NoneAssumption, CapsAssumption, GivableAssumption
     DEF Ids, Refs, Caps, Vats

\* A nonempty set of numbers has a least one.
LEMMA LowestIn ==
    ASSUME NEW S \in SUBSET Nat, S # {}
    PROVE  Lowest(S) \in S
<1> DEFINE R == OpToRel(<, Nat)
<1>1. IsWellFoundedOn(R, Nat)
  BY NatLessThanWellFounded
<1>2. \E x \in S : \A y \in S : ~ (<<y, x>> \in R)
  <2> HIDE DEF R
  <2> QED
    BY <1>1, WFMin
<1>3. PICK x \in S : \A y \in S : ~ (<<y, x>> \in R)
  BY <1>2
<1>4. \A y \in S : ~ (y < x)
  BY <1>3, S \in SUBSET Nat DEF OpToRel
<1>5. \E i \in S : \A j \in S : i <= j
  BY <1>4, S \in SUBSET Nat
<1> QED
  BY <1>5 DEF Lowest

-----------------------------------------------------------------------------
(* Messages *)

LEMMA MessageAFields ==
    ASSUME NEW m \in MessageA
    PROVE  /\ m.type \in {"Abort", "Cap", "Resolve", "Call", "ReceiverLoopback"}
           /\ m.type = "Cap" => m.desc \in Desc /\ m.ref \in Refs
           /\ m.type = "Resolve" => m.id \in Ids /\ m.desc \in Desc \cup {None}
           /\ m.type = "Call" => m.call \in Calls
           /\ m.type = "ReceiverLoopback" => m.embargo \in Refs
  BY DEF MessageA

LEMMA MessageBFields ==
    ASSUME NEW m \in MessageB
    PROVE  /\ m.type \in {"Abort", "Call", "Release", "SenderLoopback"}
           /\ m.type = "Call" => m.id \in Ids /\ m.call \in Calls
           /\ m.type = "Release" => m.id \in Ids /\ m.refs \in Nat \ {0}
           /\ m.type = "SenderLoopback" => m.id \in Ids /\ m.embargo \in Refs
  BY DEF MessageB

LEMMA AMessages ==
    /\ [type |-> "Abort"] \in MessageA
    /\ \A d \in Desc, r \in Refs : [type |-> "Cap", desc |-> d, ref |-> r] \in MessageA
    /\ \A id \in Ids, d \in Desc \cup {None} : [type |-> "Resolve", id |-> id, desc |-> d] \in MessageA
    /\ \A k \in Calls : [type |-> "Call", call |-> k] \in MessageA
    /\ \A e \in Refs : [type |-> "ReceiverLoopback", embargo |-> e] \in MessageA
  BY DEF MessageA

LEMMA BMessages ==
    /\ [type |-> "Abort"] \in MessageB
    /\ \A id \in Ids, k \in Calls : [type |-> "Call", id |-> id, call |-> k] \in MessageB
    /\ \A id \in Ids, n \in Nat \ {0} : [type |-> "Release", id |-> id, refs |-> n] \in MessageB
    /\ \A id \in Ids, e \in Refs : [type |-> "SenderLoopback", embargo |-> e, id |-> id] \in MessageB
  BY DEF MessageB

-----------------------------------------------------------------------------
(* Chains of redirects *)

\* With the redirects f: the sets that contain what their promises lead to,
\* where a capability leads, and which redirect no further.
Closed(f, S) == \A q \in S \cap Promises : f[q] # None => f[q] \in S
From(f, c) == {d \in Caps : \A S \in SUBSET Caps : c \in S /\ Closed(f, S) => d \in S}
Last(f) == {c \in Caps : c \in Promises => f[c] = None}

\* Every chain of redirects has one end, so there is no circle.
Chained(f) == \A c \in Caps : \E d \in Caps : From(f, c) \cap Last(f) = {d}
EndsOf(f) == [c \in Caps |-> CHOOSE d \in Caps : From(f, c) \cap Last(f) = {d}]

ChainInv == Chained(res)
Ends == EndsOf(res)

Redirects == [Promises -> Caps \cup {None}]

\* The chain that starts with c has c in it, what c redirects to, and from
\* there on the same capabilities.
LEMMA ChainSteps ==
    ASSUME NEW f \in Redirects
    PROVE  /\ \A c \in Caps : c \in From(f, c) /\ From(f, c) \subseteq Caps
           /\ \A c \in Caps, q \in Promises :
                q \in From(f, c) /\ f[q] # None => f[q] \in From(f, c)
           /\ \A q \in Promises : f[q] # None => From(f, f[q]) \subseteq From(f, q)
           /\ \A c \in Caps, S \in SUBSET Caps : c \in S /\ Closed(f, S) => From(f, c) \subseteq S
  BY ConstantFacts DEF From, Closed, Redirects

LEMMA EndsFacts ==
    ASSUME NEW f \in Redirects, Chained(f)
    PROVE  /\ EndsOf(f) \in [Caps -> Caps]
           /\ \A c \in Caps : From(f, c) \cap Last(f) = {EndsOf(f)[c]}
           /\ \A c \in Caps : EndsOf(f)[c] \in Promises => f[EndsOf(f)[c]] = None
           /\ \A c \in Caps : (c \notin Promises \/ f[c] = None) => EndsOf(f)[c] = c
           /\ \A q \in Promises : f[q] # None => EndsOf(f)[q] = EndsOf(f)[f[q]]
           /\ \A c \in Caps : EndsOf(f)[EndsOf(f)[c]] = EndsOf(f)[c]
<1>1. \A c \in Caps : EndsOf(f)[c] \in Caps /\ From(f, c) \cap Last(f) = {EndsOf(f)[c]}
  BY DEF EndsOf, Chained
<1>2. \A c \in Caps : EndsOf(f)[c] \in Last(f)
  BY <1>1
<1>3. \A c \in Caps : c \in Last(f) => EndsOf(f)[c] = c
  BY <1>1, ChainSteps
<1>4. \A q \in Promises : f[q] # None => EndsOf(f)[q] = EndsOf(f)[f[q]]
  <2> SUFFICES ASSUME NEW q \in Promises, f[q] # None
               PROVE  EndsOf(f)[q] = EndsOf(f)[f[q]]
    OBVIOUS
  <2>1. q \in Caps /\ f[q] \in Caps
    BY ConstantFacts DEF Redirects
  <2>2. From(f, f[q]) \subseteq From(f, q)
    BY ChainSteps
  <2> QED
    BY <1>1, <2>1, <2>2
<1>5. EndsOf(f) \in [Caps -> Caps]
  BY <1>1 DEF EndsOf
<1>6. \A c \in Caps : (c \notin Promises \/ f[c] = None) => c \in Last(f)
  BY DEF Last
<1>7. \A c \in Caps : EndsOf(f)[c] \in Promises => f[EndsOf(f)[c]] = None
  BY <1>2 DEF Last
<1>8. \A c \in Caps : EndsOf(f)[EndsOf(f)[c]] = EndsOf(f)[c]
  BY <1>1, <1>2, <1>3
<1> HIDE DEF EndsOf
<1> QED
  BY <1>1, <1>3, <1>4, <1>5, <1>6, <1>7, <1>8

\* get_resolved() finds the end.
LEMMA ResolvedIsEnd ==
    ASSUME res \in Redirects, ChainInv, NEW c \in Caps
    PROVE  Resolved(c) = Ends[c]
<1>1. \A d \in Caps : d \in Last(res) <=> Unresolved(d)
  BY DEF Last, Unresolved
<1>2. /\ Ends[c] \in Caps
      /\ c \in Last(res) => Ends[c] = c
      /\ \A d \in Caps : d \in From(res, c) /\ d \in Last(res) <=> d = Ends[c]
  BY EndsFacts DEF ChainInv, Ends, Last
<1>3. ASSUME ~ Unresolved(c), NEW d \in Caps
      PROVE  Unresolved(d) /\ LeadsTo(c, d) <=> d = Ends[c]
  <2>1. c \in Promises /\ res[c] # None /\ None \notin Promises /\ Promises \subseteq Caps
    BY <1>3, ConstantFacts DEF Unresolved
  <2>2. ASSUME Unresolved(d), LeadsTo(c, d)
        PROVE  d = Ends[c]
    <3> DEFINE S == From(res, c) \cap Promises
    <3>1. S \in SUBSET Promises /\ c \in S
      BY <2>1, ChainSteps
    <3>2. \A p \in S : res[p] \in Promises => res[p] \in S
      BY <2>1, ChainSteps
    <3>3. \E p \in S : res[p] = d
      BY <2>2, <3>1, <3>2 DEF LeadsTo
    <3>4. d \in From(res, c)
      BY <3>3, ConstantFacts, ChainSteps
    <3> QED
      BY <1>1, <1>2, <2>2, <3>4
  <2>3. ASSUME d = Ends[c], NEW S \in SUBSET Promises, c \in S,
               \A p \in S : res[p] \in Promises => res[p] \in S
        PROVE  \E p \in S : res[p] = d
    <3> DEFINE T == (S \ {d}) \cup {x \in Caps : \E p \in S : res[p] = x}
    <3>1. T \in SUBSET Caps /\ c \in T
      BY <1>1, <1>2, <1>3, <2>1, <2>3
    <3>2. \A q \in Promises : q \in T => q \in S
      BY <2>3
    <3>3. Closed(res, T)
      BY <2>1, <3>2 DEF Closed, Redirects
    <3>4. d \in T
      BY <1>2, <2>3, <3>1, <3>3 DEF From
    <3> QED
      BY <3>4
  <2> QED
    BY <1>1, <1>2, <2>2, <2>3 DEF LeadsTo
<1>4. CASE Unresolved(c)
  BY <1>1, <1>2, <1>4 DEF Resolved
<1>5. CASE ~ Unresolved(c)
  <2>1. Resolved(c) = CHOOSE d \in Caps : Unresolved(d) /\ LeadsTo(c, d)
    BY <1>5 DEF Resolved
  <2>2. \E d \in Caps : Unresolved(d) /\ LeadsTo(c, d)
    BY <1>2, <1>3, <1>5
  <2>3. Resolved(c) \in Caps /\ Unresolved(Resolved(c)) /\ LeadsTo(c, Resolved(c))
    BY <2>1, <2>2
  <2> QED
    BY <1>3, <1>5, <2>3
<1> QED
  BY <1>4, <1>5

\* A redirect of an unresolved promise p to c moves every chain that ended in
\* p to the end of c's, and keeps the others.
LEMMA EndsMove ==
    ASSUME NEW f \in Redirects, Chained(f), NEW p \in Promises, NEW c \in Caps,
           f[p] = None, EndsOf(f)[c] # p,
           NEW g \in Redirects, g[p] = c, \A q \in Promises : q # p => g[q] = f[q]
    PROVE  /\ Chained(g)
           /\ \A x \in Caps :
                EndsOf(g)[x] = IF EndsOf(f)[x] = p THEN EndsOf(f)[c] ELSE EndsOf(f)[x]
<1>0. /\ g \in Redirects /\ g[p] = c /\ c # None
      /\ \A q \in Promises : q # p => g[q] = f[q]
      /\ Promises \subseteq Caps
  BY ConstantFacts DEF Redirects
<1> DEFINE E(x) == IF EndsOf(f)[x] = p THEN EndsOf(f)[c] ELSE EndsOf(f)[x]
<1>1. Last(g) = Last(f) \ {p}
  BY <1>0 DEF Last
<1>2. \A S \in SUBSET Caps : Closed(g, S) <=> Closed(f, S) /\ (p \in S => c \in S)
  BY <1>0 DEF Closed
<1>3. \A x \in Caps : From(f, x) \subseteq From(g, x)
  BY <1>2 DEF From
<1>4. ASSUME NEW x \in Caps PROVE From(g, x) \cap Last(g) = {E(x)} /\ E(x) \in Caps
  <2>0. /\ EndsOf(f)[x] \in Caps /\ EndsOf(f)[c] \in Caps
        /\ From(f, x) \cap Last(f) = {EndsOf(f)[x]}
        /\ From(f, c) \cap Last(f) = {EndsOf(f)[c]}
        /\ p \in Last(f)
    BY EndsFacts, <1>0 DEF Last
  <2>1. Closed(f, From(f, x)) /\ Closed(f, From(f, c)) /\ x \in From(f, x) /\ c \in From(f, c)
        /\ From(f, x) \in SUBSET Caps /\ From(f, c) \in SUBSET Caps
    BY ChainSteps DEF Closed
  <2>2. CASE EndsOf(f)[x] # p
    <3>1. p \notin From(f, x)
      BY <2>0, <2>2
    <3>2. From(g, x) \subseteq From(f, x)
      BY <1>0, <1>2, <2>1, <3>1, ChainSteps
    <3> QED
      BY <1>1, <1>3, <2>0, <2>2, <3>2
  <2>3. CASE EndsOf(f)[x] = p
    <3> DEFINE S == From(f, x) \cup From(f, c)
    <3>1. S \in SUBSET Caps /\ x \in S /\ c \in S
      BY <2>1
    <3>2. Closed(f, S)
      BY <2>1 DEF Closed
    <3>3. Closed(g, S)
      <4> HIDE DEF S
      <4> QED
        BY <1>2, <3>1, <3>2
    <3>4. From(g, x) \subseteq S
      <4> HIDE DEF S
      <4> QED
        BY <1>0, <3>1, <3>3, ChainSteps
    <3>5. p \in From(g, x)
      BY <1>3, <2>0, <2>3
    <3>6. c \in From(g, x)
      <4>1. \A q \in Promises : q \in From(g, x) /\ g[q] # None => g[q] \in From(g, x)
        BY <1>0, ChainSteps
      <4> QED
        BY <1>0, <3>5, <4>1
    <3>7. From(g, c) \subseteq From(g, x)
      <4>1. From(g, g[p]) \subseteq From(g, p)
        BY <1>0, ChainSteps
      <4>2. Closed(g, From(g, x)) /\ From(g, x) \in SUBSET Caps
        BY <1>0, ChainSteps DEF Closed
      <4> QED
        BY <1>0, <3>6, <4>2, ChainSteps
    <3>8. EndsOf(f)[c] \in From(g, x)
      BY <1>3, <2>0, <3>7
    <3>9. ASSUME NEW y \in From(g, x) \cap Last(g) PROVE y = EndsOf(f)[c]
      <4>1. y \in Last(f) /\ y # p
        BY <1>1
      <4>2. y \notin From(f, x)
        BY <2>0, <2>3, <4>1
      <4>3. y \in From(f, c)
        BY <3>4, <4>2
      <4> QED
        BY <2>0, <4>1, <4>3
    <3>10. EndsOf(f)[c] \in Last(g)
      BY <1>1, <2>0
    <3> QED
      BY <2>0, <2>3, <3>8, <3>9, <3>10
  <2> QED
    BY <2>2, <2>3
<1>5. Chained(g)
  BY <1>4 DEF Chained
<1>6. \A x \in Caps : EndsOf(g)[x] = E(x)
  <2> SUFFICES ASSUME NEW x \in Caps PROVE EndsOf(g)[x] = E(x)
    OBVIOUS
  <2>1. From(g, x) \cap Last(g) = {EndsOf(g)[x]}
    BY <1>0, <1>5, EndsFacts
  <2> QED
    BY <1>4, <2>1
<1> QED
  BY <1>0, <1>5, <1>6
-----------------------------------------------------------------------------
(* Counting places in a channel *)

\* A set of places is finite.
LEMMA PlacesFinite ==
    ASSUME NEW n \in Nat, NEW S \in SUBSET (1 .. n)
    PROVE  IsFiniteSet(S) /\ Cardinality(S) \in Nat
<1>1. S \in SUBSET Nat /\ \A s \in S : s <= n
  OBVIOUS
<1>2. IsFiniteSet(S)
  BY <1>1, FS_BoundedSetOfNaturals
<1> QED
  BY <1>2, FS_CardinalityType

\* One element more, or one less.
LEMMA OneMore ==
    ASSUME NEW S, NEW T, NEW x, IsFiniteSet(S), x \notin S, x \in T,
           \A y : y \in T <=> y \in S \/ y = x
    PROVE  IsFiniteSet(T) /\ Cardinality(T) = Cardinality(S) + 1
<1>1. T = S \cup {x}
  OBVIOUS
<1>2. IsFiniteSet(S \cup {x}) /\ Cardinality(S \cup {x}) = Cardinality(S) + 1
  BY FS_AddElement
<1> QED
  BY <1>1, <1>2

\* The places of a longer channel that a shorter one has too, and its last.
LEMMA PlacesGrow ==
    ASSUME NEW n \in Nat, NEW S \in SUBSET (1 .. n), NEW T \in SUBSET (1 .. n + 1),
           \A i \in 1 .. n : i \in T <=> i \in S
    PROVE  /\ n + 1 \in T => Cardinality(T) = Cardinality(S) + 1
           /\ n + 1 \notin T => T = S
<1>1. n + 1 \notin S /\ \A i \in 1 .. n + 1 : i \in 1 .. n \/ i = n + 1
  OBVIOUS
<1>2. ASSUME n + 1 \in T PROVE Cardinality(T) = Cardinality(S) + 1
  <2>1. \A y : y \in T <=> y \in S \/ y = n + 1
    BY <1>1, <1>2
  <2>2. IsFiniteSet(S)
    BY PlacesFinite
  <2> QED
    BY <1>1, <1>2, <2>1, <2>2, OneMore
<1>3. ASSUME n + 1 \notin T PROVE T = S
  BY <1>1, <1>3
<1> QED
  BY <1>2, <1>3

\* Moving places by one keeps their number.
LEMMA PlacesShift ==
    ASSUME NEW n \in Nat, NEW S \in SUBSET (1 .. n + 1), NEW T \in SUBSET (1 .. n),
           1 \notin S, \A i \in 1 .. n : i \in T <=> i + 1 \in S
    PROVE  Cardinality(S) = Cardinality(T)
<1> DEFINE f == [i \in T |-> i + 1]
<1>1. f \in [T -> S]
  OBVIOUS
<1>2. \A a, b \in T : f[a] = f[b] => a = b
  OBVIOUS
<1>3. \A s \in S : \E t \in T : f[t] = s
  <2> SUFFICES ASSUME NEW s \in S PROVE \E t \in T : f[t] = s
    OBVIOUS
  <2>1. s - 1 \in 1 .. n /\ (s - 1) + 1 = s
    OBVIOUS
  <2>2. s - 1 \in T
    BY <2>1
  <2> QED
    BY <2>1, <2>2
<1>4. ExistsBijection(T, S)
  <2>1. f \in Bijection(T, S)
    BY <1>1, <1>2, <1>3 DEF Bijection, Injection, Surjection, IsInjective
  <2> QED
    BY <2>1 DEF ExistsBijection
<1>5. IsFiniteSet(T)
  BY PlacesFinite
<1> QED
  BY <1>4, <1>5, FS_Bijection

\* The first place is taken away, and the others move up.
LEMMA PlacesShrink ==
    ASSUME NEW n \in Nat, NEW S \in SUBSET (1 .. n + 1), NEW T \in SUBSET (1 .. n),
           \A i \in 1 .. n : i \in T <=> i + 1 \in S
    PROVE  /\ 1 \in S => Cardinality(S) = Cardinality(T) + 1
           /\ 1 \notin S => Cardinality(S) = Cardinality(T)
<1>1. ASSUME 1 \in S PROVE Cardinality(S) = Cardinality(T) + 1
  <2> DEFINE R == S \ {1}
  <2>1. R \in SUBSET (1 .. n + 1) /\ 1 \notin R /\ n + 1 \in Nat
    OBVIOUS
  <2>2. \A i \in 1 .. n : i \in T <=> i + 1 \in R
    OBVIOUS
  <2>3. \A y : y \in S <=> y \in R \/ y = 1
    BY <1>1
  <2> HIDE DEF R
  <2>4. Cardinality(R) = Cardinality(T)
    <3>1. \A U, V : U \in SUBSET (1 .. n + 1) /\ V \in SUBSET (1 .. n) /\ 1 \notin U
                    /\ (\A i \in 1 .. n : i \in V <=> i + 1 \in U)
                    => Cardinality(U) = Cardinality(V)
      BY PlacesShift
    <3> QED
      BY ONLY <2>1, <2>2, <3>1, T \in SUBSET (1 .. n)
  <2>5. IsFiniteSet(R)
    BY <2>1, PlacesFinite
  <2>6. Cardinality(S) = Cardinality(R) + 1
    BY <1>1, <2>1, <2>3, <2>5, OneMore
  <2> QED
    BY <2>4, <2>6
<1>2. ASSUME 1 \notin S PROVE Cardinality(S) = Cardinality(T)
  BY <1>2, PlacesShift
<1> QED
  BY <1>1, <1>2

-----------------------------------------------------------------------------
(* Channels *)

\* after is before with m at its end.
Longer(before, after, m) ==
    /\ Len(before) \in Nat /\ Len(after) = Len(before) + 1
    /\ \A i \in 1 .. Len(before) : after[i] = before[i]
    /\ after[Len(before) + 1] = m

\* after is before without its head m.
Shorter(before, after, m) ==
    /\ Len(after) \in Nat /\ Len(before) = Len(after) + 1
    /\ before[1] = m
    /\ \A i \in 1 .. Len(after) : after[i] = before[i + 1]

\* Sending a message puts it at the end of the channel.
LEMMA LongerByAppend ==
    ASSUME NEW S, NEW s \in Seq(S), NEW m \in S
    PROVE  Longer(s, Append(s, m), m) /\ Append(s, m) \in Seq(S)
  BY DEF Longer

\* Handling a message takes it from the head of the channel.
LEMMA ShorterByTail ==
    ASSUME NEW S, NEW s \in Seq(S), s # << >>
    PROVE  Shorter(s, Tail(s), Head(s)) /\ Tail(s) \in Seq(S) /\ Head(s) \in S
  BY DEF Shorter

-----------------------------------------------------------------------------
(* References on their way *)

\* The descriptor d stands for a reference to export id.
On(d, id) == d # None /\ d.kind # "receiverHosted" /\ d.id = id

\* The messages of s that bring one, and the references that those of t give
\* back.
Coming(s, id) == {i \in DOMAIN s : Carries(s[i], id)}
Gives(m, id) == m.type = "Release" /\ m.id = id
Back(t, id) ==
    UNION {{i} \X (1 .. t[i].refs) : i \in {i \in DOMAIN t : Gives(t[i], id)}}

\* The meter is a number.
LEMMA ComingNumber ==
    ASSUME NEW s \in Seq(MessageA), NEW id
    PROVE  /\ Coming(s, id) \in SUBSET (1 .. Len(s)) /\ Len(s) \in Nat
           /\ Cardinality(Coming(s, id)) \in Nat
           /\ \A i \in 1 .. Len(s) : i \in Coming(s, id) <=> Carries(s[i], id)
<1>1. /\ Coming(s, id) \in SUBSET (1 .. Len(s)) /\ Len(s) \in Nat
      /\ \A i \in 1 .. Len(s) : i \in Coming(s, id) <=> Carries(s[i], id)
  BY DEF Coming
<1> QED
  BY <1>1, PlacesFinite

\* The exporter sends m.
LEMMA ComingSent ==
    ASSUME NEW s \in Seq(MessageA), NEW s2 \in Seq(MessageA), NEW m, NEW id,
           Longer(s, s2, m)
    PROVE  /\ Carries(m, id) =>
                Cardinality(Coming(s2, id)) = Cardinality(Coming(s, id)) + 1
           /\ ~ Carries(m, id) => Coming(s2, id) = Coming(s, id)
<1> DEFINE S == Coming(s, id)
           T == Coming(s2, id)
           n == Len(s)
<1>1. /\ n \in Nat /\ S \in SUBSET (1 .. n)
      /\ \A i \in 1 .. n : i \in S <=> Carries(s[i], id)
  BY ComingNumber
<1>2. /\ T \in SUBSET (1 .. Len(s2))
      /\ \A i \in 1 .. Len(s2) : i \in T <=> Carries(s2[i], id)
  BY ComingNumber
<1>3. /\ Len(s2) = n + 1 /\ s2[n + 1] = m /\ \A i \in 1 .. n : s2[i] = s[i]
  BY DEF Longer
<1> HIDE DEF S, T, n
<1>4. \A i \in 1 .. n : i \in T <=> i \in S
  BY <1>1, <1>2, <1>3
<1>5. n + 1 \in T <=> Carries(m, id)
  BY <1>1, <1>2, <1>3
<1>6. T \in SUBSET (1 .. n + 1)
  BY <1>2, <1>3
<1>7. /\ n + 1 \in T => Cardinality(T) = Cardinality(S) + 1
      /\ n + 1 \notin T => T = S
  BY <1>1, <1>4, <1>6, PlacesGrow
<1> QED
  BY <1>5, <1>7 DEF S, T

\* The importer handles m.
LEMMA ComingTaken ==
    ASSUME NEW s \in Seq(MessageA), NEW s2 \in Seq(MessageA), NEW m, NEW id,
           Shorter(s, s2, m)
    PROVE  /\ Carries(m, id) =>
                Cardinality(Coming(s, id)) = Cardinality(Coming(s2, id)) + 1
           /\ ~ Carries(m, id) =>
                Cardinality(Coming(s, id)) = Cardinality(Coming(s2, id))
<1> DEFINE S == Coming(s, id)
           T == Coming(s2, id)
           n == Len(s2)
<1>1. /\ S \in SUBSET (1 .. Len(s))
      /\ \A i \in 1 .. Len(s) : i \in S <=> Carries(s[i], id)
  BY ComingNumber
<1>2. /\ n \in Nat /\ T \in SUBSET (1 .. n)
      /\ \A i \in 1 .. n : i \in T <=> Carries(s2[i], id)
  BY ComingNumber
<1>3. /\ Len(s) = n + 1 /\ s[1] = m /\ \A i \in 1 .. n : s2[i] = s[i + 1]
  BY DEF Shorter
<1> HIDE DEF S, T, n
<1>4. \A i \in 1 .. n : i \in T <=> i + 1 \in S
  BY <1>1, <1>2, <1>3
<1>5. 1 \in S <=> Carries(m, id)
  BY <1>1, <1>2, <1>3
<1>6. S \in SUBSET (1 .. n + 1)
  BY <1>1, <1>3
<1>7. /\ 1 \in S => Cardinality(S) = Cardinality(T) + 1
      /\ 1 \notin S => Cardinality(S) = Cardinality(T)
  BY <1>2, <1>4, <1>6, PlacesShrink
<1> QED
  BY <1>5, <1>7 DEF S, T

\* Where the references are.
LEMMA BackPlaces ==
    ASSUME NEW t \in Seq(MessageB), NEW id
    PROVE  \A x : x \in Back(t, id) <=>
                \E i \in 1 .. Len(t) : \E k \in 1 .. t[i].refs :
                    Gives(t[i], id) /\ x = <<i, k>>
  BY DEF Back

\* So many references are given by one message.
LEMMA GivenByOne ==
    ASSUME NEW i, NEW n \in Nat
    PROVE  IsFiniteSet({i} \X (1 .. n)) /\ Cardinality({i} \X (1 .. n)) = n
<1>1. IsFiniteSet(1 .. n) /\ Cardinality(1 .. n) = n
  <2>1. /\ IsFiniteSet(1 .. n)
        /\ Cardinality(1 .. n) = IF 1 > n THEN 0 ELSE n - 1 + 1
    BY 1 \in Int, n \in Int, FS_Interval, ZenonT(30)
  <2> QED
    BY <2>1
<1>2. IsFiniteSet({i}) /\ Cardinality({i}) = 1
  BY FS_Singleton
<1>3. IsFiniteSet({i} \X (1 .. n)) /\ Cardinality({i} \X (1 .. n)) = 1 * Cardinality(1 .. n)
  BY <1>1, <1>2, FS_Product
<1> QED
  BY <1>1, <1>3

\* Two disjoint sets add up.
LEMMA DisjointAdd ==
    ASSUME NEW S, NEW T, IsFiniteSet(S), IsFiniteSet(T), S \cap T = {}
    PROVE  /\ IsFiniteSet(S \cup T)
           /\ Cardinality(S \cup T) = Cardinality(S) + Cardinality(T)
<1>1. /\ IsFiniteSet(S \cup T)
      /\ Cardinality(S \cup T) = Cardinality(S) + Cardinality(T) - Cardinality(S \cap T)
  BY FS_Union
<1>2. /\ Cardinality({}) = 0 /\ Cardinality(S) \in Nat /\ Cardinality(T) \in Nat
  BY FS_EmptySet, FS_CardinalityType
<1>3. Cardinality(S \cap T) = 0
  BY <1>2
<1> QED
  BY <1>1, <1>2, <1>3

\* The importer sends m.
LEMMA BackSent ==
    ASSUME NEW t \in Seq(MessageB), NEW t2 \in Seq(MessageB), NEW m \in MessageB,
           NEW id, Longer(t, t2, m), IsFiniteSet(Back(t, id))
    PROVE  /\ IsFiniteSet(Back(t2, id))
           /\ Gives(m, id) =>
                /\ m.refs \in Nat
                /\ Cardinality(Back(t2, id)) = Cardinality(Back(t, id)) + m.refs
           /\ ~ Gives(m, id) => Back(t2, id) = Back(t, id)
<1> DEFINE S == Back(t, id)
           T == Back(t2, id)
           n == Len(t)
<1>1. /\ n \in Nat /\ Len(t2) = n + 1 /\ t2[n + 1] = m
      /\ \A i \in 1 .. n : t2[i] = t[i]
  BY DEF Longer
<1>2. \A x : x \in S <=> \E i \in 1 .. n : \E k \in 1 .. t[i].refs :
                            Gives(t[i], id) /\ x = <<i, k>>
  BY BackPlaces
<1>3. \A x : x \in T <=> \E i \in 1 .. n + 1 : \E k \in 1 .. t2[i].refs :
                            Gives(t2[i], id) /\ x = <<i, k>>
  <2>1. \A x : x \in T <=> \E i \in 1 .. Len(t2) : \E k \in 1 .. t2[i].refs :
                            Gives(t2[i], id) /\ x = <<i, k>>
    BY BackPlaces
  <2> HIDE DEF T
  <2> QED
    BY <1>1, <2>1
<1>4. \A i \in 1 .. n + 1 : i \in 1 .. n \/ i = n + 1
  BY <1>1
<1>5. n + 1 \in 1 .. n + 1 /\ n + 1 \notin 1 .. n /\ \A i \in 1 .. n : i \in 1 .. n + 1
  BY <1>1
<1> HIDE DEF S, T, n
<1>6. ASSUME ~ Gives(m, id) PROVE T = S
  <2>1. ASSUME NEW x \in T PROVE x \in S
    BY <1>1, <1>2, <1>3, <1>4, <1>6, <2>1
  <2>2. ASSUME NEW x \in S PROVE x \in T
    BY <1>1, <1>2, <1>3, <1>5, <2>2
  <2> QED
    BY <2>1, <2>2
<1>7. ASSUME Gives(m, id)
      PROVE  /\ m.refs \in Nat /\ IsFiniteSet(T) /\ Cardinality(T) = Cardinality(S) + m.refs
  <2>1. m.refs \in Nat
    BY <1>7 DEF Gives, MessageB
  <2> DEFINE own == {n + 1} \X (1 .. m.refs)
  <2>2. IsFiniteSet(own) /\ Cardinality(own) = m.refs
    BY <2>1, GivenByOne
  <2>3. S \cap own = {}
    <3> SUFFICES ASSUME NEW x \in S, x \in own PROVE FALSE
      OBVIOUS
    <3>1. PICK i \in 1 .. n : \E k \in 1 .. t[i].refs : x = <<i, k>>
      BY <1>2
    <3> QED
      BY <1>5, <3>1
  <2>4. T = S \cup own
    <3>1. ASSUME NEW x \in T PROVE x \in S \cup own
      <4>1. PICK i \in 1 .. n + 1 : \E k \in 1 .. t2[i].refs : Gives(t2[i], id) /\ x = <<i, k>>
        BY <1>3, <3>1
      <4>2. CASE i \in 1 .. n
        BY <1>1, <1>2, <4>1, <4>2
      <4>3. CASE i = n + 1
        BY <1>1, <4>1, <4>3
      <4> QED
        BY <1>4, <4>2, <4>3
    <3>2. ASSUME NEW x \in S PROVE x \in T
      BY <1>1, <1>2, <1>3, <1>5, <3>2
    <3>3. ASSUME NEW x \in own PROVE x \in T
      <4>1. PICK k \in 1 .. m.refs : x = <<n + 1, k>>
        BY <3>3
      <4> QED
        BY <1>1, <1>3, <1>5, <1>7, <4>1
    <3> QED
      BY <3>1, <3>2, <3>3
  <2> HIDE DEF own
  <2>5. IsFiniteSet(S)
    BY DEF S
  <2> QED
    BY <2>1, <2>2, <2>3, <2>4, <2>5, DisjointAdd
<1>8. IsFiniteSet(T)
  BY <1>6, <1>7 DEF S
<1> QED
  BY <1>6, <1>7, <1>8 DEF S, T

\* The exporter handles m.
LEMMA BackTaken ==
    ASSUME NEW t \in Seq(MessageB), NEW t2 \in Seq(MessageB), NEW m \in MessageB,
           NEW id, Shorter(t, t2, m), IsFiniteSet(Back(t, id))
    PROVE  /\ IsFiniteSet(Back(t2, id))
           /\ Gives(m, id) =>
                /\ m.refs \in Nat
                /\ Cardinality(Back(t, id)) = Cardinality(Back(t2, id)) + m.refs
           /\ ~ Gives(m, id) =>
                Cardinality(Back(t, id)) = Cardinality(Back(t2, id))
<1> DEFINE S == Back(t, id)
           T == Back(t2, id)
           n == Len(t2)
           f == [x \in T |-> <<x[1] + 1, x[2]>>]
           R == {x \in S : x[1] # 1}
<1>1. /\ n \in Nat /\ Len(t) = n + 1 /\ t[1] = m
      /\ \A i \in 1 .. n : t2[i] = t[i + 1]
  BY DEF Shorter
<1>2. \A x : x \in S <=> \E i \in 1 .. n + 1 : \E k \in 1 .. t[i].refs :
                            Gives(t[i], id) /\ x = <<i, k>>
  <2>1. \A x : x \in S <=> \E i \in 1 .. Len(t) : \E k \in 1 .. t[i].refs :
                            Gives(t[i], id) /\ x = <<i, k>>
    BY BackPlaces
  <2> HIDE DEF S
  <2> QED
    BY <1>1, <2>1
<1>3. \A x : x \in T <=> \E i \in 1 .. n : \E k \in 1 .. t2[i].refs :
                            Gives(t2[i], id) /\ x = <<i, k>>
  BY BackPlaces
<1>4. \A i \in 1 .. n : /\ i + 1 \in 1 .. n + 1 /\ i + 1 # 1 /\ i \in Int
  BY <1>1
<1>5. \A i \in 1 .. n + 1 : i = 1 \/ (i - 1 \in 1 .. n /\ (i - 1) + 1 = i)
  BY <1>1
<1>6. 1 \in 1 .. n + 1
  BY <1>1
<1> HIDE DEF S, T, n
<1>7. ExistsBijection(T, R) /\ \E g : g \in Injection(T, R)
  <2>1. ASSUME NEW x \in T
        PROVE  f[x] \in R
    <3>1. PICK i \in 1 .. n : \E k \in 1 .. t2[i].refs : Gives(t2[i], id) /\ x = <<i, k>>
      BY <1>3, <2>1
    <3>2. PICK k \in 1 .. t2[i].refs : Gives(t2[i], id) /\ x = <<i, k>>
      BY <3>1
    <3>3. f[x] = <<i + 1, k>>
      BY <2>1, <3>2
    <3>4. i + 1 \in 1 .. n + 1 /\ i + 1 # 1 /\ t[i + 1] = t2[i]
      BY <1>1, <1>4
    <3>5. <<i + 1, k>> \in S
      BY <1>2, <3>2, <3>4
    <3> QED
      BY <3>3, <3>4, <3>5
  <2>2. ASSUME NEW a \in T, NEW b \in T, f[a] = f[b] PROVE a = b
    <3>1. PICK i \in 1 .. n : \E k \in 1 .. t2[i].refs : a = <<i, k>>
      BY <1>3, <2>2
    <3>2. PICK j \in 1 .. n : \E k \in 1 .. t2[j].refs : b = <<j, k>>
      BY <1>3, <2>2
    <3>3. PICK k \in 1 .. t2[i].refs : a = <<i, k>>
      BY <3>1
    <3>4. PICK l \in 1 .. t2[j].refs : b = <<j, l>>
      BY <3>2
    <3>5. <<i + 1, k>> = <<j + 1, l>>
      BY <2>2, <3>3, <3>4
    <3>6. i = j /\ k = l
      BY <1>4, <3>5
    <3> QED
      BY <3>3, <3>4, <3>6
  <2>3. ASSUME NEW r \in R PROVE \E y \in T : f[y] = r
    <3>1. PICK i \in 1 .. n + 1 : \E k \in 1 .. t[i].refs : Gives(t[i], id) /\ r = <<i, k>>
      BY <1>2, <2>3
    <3>2. PICK k \in 1 .. t[i].refs : Gives(t[i], id) /\ r = <<i, k>>
      BY <3>1
    <3>3. i # 1
      BY <2>3, <3>2
    <3>4. i - 1 \in 1 .. n /\ (i - 1) + 1 = i
      BY <1>5, <3>3
    <3>5. t2[i - 1] = t[i]
      BY <1>1, <3>4
    <3>6. <<i - 1, k>> \in T
      BY <1>3, <3>2, <3>4, <3>5
    <3>7. f[<<i - 1, k>>] = <<(i - 1) + 1, k>>
      BY <3>6
    <3> QED
      BY <3>2, <3>4, <3>6, <3>7
  <2>4. f \in [T -> R]
    BY <2>1
  <2> HIDE DEF f, R
  <2>5. f \in Bijection(T, R)
    BY <2>2, <2>3, <2>4 DEF Bijection, Injection, Surjection, IsInjective
  <2> QED
    BY <2>5 DEF ExistsBijection, Bijection
<1>8. IsFiniteSet(S) /\ R \in SUBSET S
  BY DEF S
<1>9. IsFiniteSet(R)
  BY <1>8, FS_Subset
<1>10. IsFiniteSet(T) /\ Cardinality(T) = Cardinality(R)
  <2> HIDE DEF R
  <2>1. IsFiniteSet(T)
    BY <1>7, <1>9, FS_Injection
  <2> QED
    BY <1>7, <2>1, FS_Bijection
<1>11. ASSUME ~ Gives(m, id) PROVE R = S
  <2> SUFFICES ASSUME NEW x \in S PROVE x[1] # 1
    OBVIOUS
  <2>1. PICK i \in 1 .. n + 1 : \E k \in 1 .. t[i].refs : Gives(t[i], id) /\ x = <<i, k>>
    BY <1>2
  <2> QED
    BY <1>1, <1>11, <2>1
<1>12. ASSUME Gives(m, id)
       PROVE  m.refs \in Nat /\ Cardinality(S) = Cardinality(R) + m.refs
  <2>1. m.refs \in Nat
    BY <1>12 DEF Gives, MessageB
  <2> DEFINE own == {1} \X (1 .. m.refs)
  <2>2. IsFiniteSet(own) /\ Cardinality(own) = m.refs
    BY <2>1, GivenByOne
  <2>3. R \cap own = {}
    OBVIOUS
  <2>4. S = R \cup own
    <3>1. ASSUME NEW x \in S PROVE x \in R \cup own
      <4>1. PICK i \in 1 .. n + 1 : \E k \in 1 .. t[i].refs : Gives(t[i], id) /\ x = <<i, k>>
        BY <1>2, <3>1
      <4>2. CASE i = 1
        BY <1>1, <4>1, <4>2
      <4>3. CASE i # 1
        BY <3>1, <4>1, <4>3
      <4> QED
        BY <4>2, <4>3
    <3>2. ASSUME NEW x \in own PROVE x \in S
      <4>1. PICK k \in 1 .. m.refs : x = <<1, k>>
        BY <3>2
      <4> QED
        BY <1>1, <1>2, <1>6, <1>12, <4>1
    <3> QED
      BY <3>1, <3>2
  <2> HIDE DEF own, R
  <2> QED
    BY <1>9, <2>1, <2>2, <2>3, <2>4, DisjointAdd
<1> HIDE DEF R
<1> QED
  BY <1>10, <1>11, <1>12 DEF S, T

-----------------------------------------------------------------------------
(* The exporter's tables *)

ExportTable == [Ids -> Export \cup {None}]
CapTable == [Caps -> Ids \cup {None}]
RefsOf(x) == IF x = None THEN 0 ELSE x.refs

\* exports_by_cap finds just the canonical entries.
Index(exps, known) ==
    \A c \in Caps, id \in Ids :
        known[c] = id <=> exps[id] # None /\ exps[id].canonical /\ exps[id].cap = c

\* The table is indexed while connected, and empty afterwards.
ExportInv ==
    IF up["B"] THEN Index(exports, byCap) ELSE \A id \in Ids : exports[id] = None

\* No value is none of the entries.
LEMMA NoneFacts ==
    /\ None \notin Nat /\ None \notin Desc /\ None \notin Export
    /\ None \notin ImportEntry /\ None \notin Client
  BY NoneAssumption

\* What write_descriptor does: the capability c leads to is the importer's
\* own, is already exported, or gets a free entry.
Written(c, exps, known, spawned, w) ==
    \/ /\ Ends[c] = Peer
       /\ w = [exports |-> exps, byCap |-> known, tasks |-> spawned,
               desc |-> [kind |-> "receiverHosted", id |-> 0]]
    \/ /\ Ends[c] # Peer
       /\ \E id \in Ids : \E x \in Export :
            /\ exps[id] = x /\ x.cap = Ends[c]
            /\ w = [exports |-> [exps EXCEPT ![id] = [x EXCEPT !.refs = @ + 1]],
                    byCap |-> known, tasks |-> spawned,
                    desc |-> [kind |-> "senderHosted", id |-> id]]
    \/ /\ Ends[c] # Peer
       /\ known[Ends[c]] = None
       /\ \E id \in Ids : \E k \in {"senderHosted", "senderPromise"} : \E ts \in SUBSET Task :
            /\ exps[id] = None
            /\ w = [exports |-> [exps EXCEPT ![id] =
                        [cap |-> Ends[c], refs |-> 1, canonical |-> TRUE]],
                    byCap |-> [known EXCEPT ![Ends[c]] = id], tasks |-> ts,
                    desc |-> [kind |-> k, id |-> id]]

LEMMA DescriptorWritten ==
    ASSUME res \in Redirects, ChainInv, gives \in Nat, NEW c \in Caps,
           NEW exps \in ExportTable, NEW known \in CapTable, Index(exps, known),
           NEW spawned \in SUBSET Task, Room(c, exps, known)
    PROVE  Written(c, exps, known, spawned, WriteDescriptor(c, exps, known, spawned))
<1> DEFINE w == WriteDescriptor(c, exps, known, spawned)
           i == Ends[c]
<1> SUFFICES Written(c, exps, known, spawned, w)
  OBVIOUS
<1>1. Resolved(c) = i /\ i \in Caps
  BY ResolvedIsEnd, EndsFacts DEF ChainInv, Ends
<1>2. CASE i = Peer
  <2>1. w = [exports |-> exps, byCap |-> known, tasks |-> spawned,
             desc |-> [kind |-> "receiverHosted", id |-> 0]]
    BY <1>1, <1>2 DEF WriteDescriptor
  <2> QED
    BY <1>2, <2>1 DEF Written
<1>3. CASE i # Peer /\ known[i] # None
  <2>1. known[i] \in Ids
    BY <1>1, <1>3 DEF CapTable
  <2>2. exps[known[i]] # None /\ exps[known[i]].cap = i
    BY <1>1, <2>1 DEF Index
  <2>3. exps[known[i]] \in Export
    BY <2>1, <2>2 DEF ExportTable
  <2>4. w = [exports |-> [exps EXCEPT ![known[i]].refs = @ + 1],
             byCap |-> known, tasks |-> spawned,
             desc |-> [kind |-> "senderHosted", id |-> known[i]]]
    BY <1>1, <1>3 DEF WriteDescriptor
  <2>5. [exps EXCEPT ![known[i]].refs = @ + 1]
        = [exps EXCEPT ![known[i]] = [exps[known[i]] EXCEPT !.refs = @ + 1]]
    BY <2>1 DEF ExportTable
  <2> HIDE DEF w
  <2> QED
    BY <1>3, <2>1, <2>2, <2>3, <2>4, <2>5 DEF Written
<1>4. CASE i # Peer /\ known[i] = None
  <2> DEFINE fresh == Lowest(FreeIds(exps))
             kind == IF IsPromise(i) THEN "senderPromise" ELSE "senderHosted"
             ts == IF IsPromise(i)
                   THEN spawned \cup {[id |-> fresh, on |-> i, no |-> gives, cancelled |-> FALSE]}
                   ELSE spawned
  <2>1. FreeIds(exps) # {}
    BY <1>1, <1>4 DEF Room
  <2>2. FreeIds(exps) \in SUBSET Nat /\ DOMAIN exps = Ids
    BY ConstantFacts DEF FreeIds, ExportTable
  <2>3. fresh \in Ids /\ exps[fresh] = None
    BY <2>1, <2>2, LowestIn DEF FreeIds
  <2>4. ts \in SUBSET Task
    <3> HIDE DEF i, fresh
    <3>1. IsPromise(i) => [id |-> fresh, on |-> i, no |-> gives, cancelled |-> FALSE] \in Task
      BY <2>3 DEF Task, IsPromise
    <3> QED
      BY <3>1
  <2>5. kind \in {"senderHosted", "senderPromise"}
    OBVIOUS
  <2>6. w = [exports |-> [exps EXCEPT ![fresh] =
                  [cap |-> i, refs |-> 1, canonical |-> TRUE]],
             byCap |-> [known EXCEPT ![i] = fresh], tasks |-> ts,
             desc |-> [kind |-> kind, id |-> fresh]]
    BY <1>1, <1>4 DEF WriteDescriptor
  <2> HIDE DEF w, fresh, kind, ts
  <2> QED
    BY <1>4, <2>3, <2>4, <2>5, <2>6 DEF Written
<1> QED
  BY <1>2, <1>3, <1>4

\* The entry that d names, which leads to e, counts one reference more, and no
\* other changes.
Adds(exps, exps2, d, e) ==
    /\ \A id \in Ids : RefsOf(exps2[id]) = RefsOf(exps[id]) + (IF On(d, id) THEN 1 ELSE 0)
    /\ \A id \in Ids : exps[id] # None => exps2[id] # None /\ exps2[id].cap = exps[id].cap
    /\ \A id \in Ids : On(d, id) => exps2[id] # None /\ exps2[id].cap = e
    /\ \A id \in Ids : exps2[id] # None => exps[id] # None \/ On(d, id)
    /\ d.kind = "receiverHosted" <=> e = Peer
    /\ d.kind = "senderPromise" => exps[d.id] = None

\* The tables stay well formed and indexed.
LEMMA WriteEffect ==
    ASSUME res \in Redirects, ChainInv, gives \in Nat, NEW c \in Caps,
           NEW exps \in ExportTable, NEW known \in CapTable, Index(exps, known),
           NEW spawned \in SUBSET Task, NEW w, Written(c, exps, known, spawned, w)
    PROVE  /\ w.exports \in ExportTable /\ w.byCap \in CapTable
           /\ w.tasks \in SUBSET Task /\ w.desc \in Desc
           /\ Index(w.exports, w.byCap)
           /\ Adds(exps, w.exports, w.desc, Ends[c])
<1>0. /\ Ends[c] \in Caps /\ 0 \in Ids
      /\ \A x \in Export : /\ x.refs \in Nat \ {0} /\ x \in Export /\ x # None
                           /\ [x EXCEPT !.refs = @ + 1] \in Export
                           /\ [x EXCEPT !.refs = @ + 1] # None
                           /\ [x EXCEPT !.refs = @ + 1].refs = x.refs + 1
                           /\ [x EXCEPT !.refs = @ + 1].cap = x.cap
                           /\ [x EXCEPT !.refs = @ + 1].canonical = x.canonical
  <2>1. Ends[c] \in Caps /\ 0 \in Ids
    BY EndsFacts, ConstantFacts DEF ChainInv, Ends
  <2>2. \A x \in Export : [x EXCEPT !.refs = @ + 1] \in Export
    BY DEF Export
  <2>3. \A x \in Export : x # None
    BY NoneFacts
  <2> QED
    BY <2>1, <2>2, <2>3 DEF Export
<1>00. \A id \in Ids, k \in {"receiverHosted", "senderHosted", "senderPromise"} :
         /\ [kind |-> k, id |-> id] \in Desc /\ [kind |-> k, id |-> id] # None
         /\ \A j \in Ids : On([kind |-> k, id |-> id], j) <=> k # "receiverHosted" /\ id = j
  <2>1. \A id \in Ids, k \in {"receiverHosted", "senderHosted", "senderPromise"} :
          [kind |-> k, id |-> id] \in Desc /\ [kind |-> k, id |-> id] # None
    BY NoneFacts DEF Desc
  <2> QED
    BY <2>1 DEF On
<1>1. CASE Ends[c] = Peer /\ w = [exports |-> exps, byCap |-> known, tasks |-> spawned,
                desc |-> [kind |-> "receiverHosted", id |-> 0]]
  <2>1. /\ w.exports = exps /\ w.byCap = known /\ w.tasks = spawned
        /\ w.desc \in Desc /\ w.desc.kind = "receiverHosted"
        /\ \A id \in Ids : ~ On(w.desc, id)
    BY <1>0, <1>00, <1>1
  <2>2. \A j \in Ids : RefsOf(exps[j]) \in Nat
    BY DEF RefsOf, ExportTable, Export
  <2> QED
    BY <1>1, <2>1, <2>2 DEF Adds
<1>2. ASSUME NEW id \in Ids, NEW x \in Export, exps[id] = x, x.cap = Ends[c], Ends[c] # Peer,
             w = [exports |-> [exps EXCEPT ![id] = [x EXCEPT !.refs = @ + 1]],
                    byCap |-> known, tasks |-> spawned,
                    desc |-> [kind |-> "senderHosted", id |-> id]]
      PROVE  /\ w.exports \in ExportTable /\ w.byCap \in CapTable
             /\ w.tasks \in SUBSET Task /\ w.desc \in Desc
             /\ Index(w.exports, w.byCap)
             /\ \A j \in Ids : RefsOf(w.exports[j]) =
                  RefsOf(exps[j]) + (IF On(w.desc, j) THEN 1 ELSE 0)
             /\ \A j \in Ids : exps[j] # None =>
                  w.exports[j] # None /\ w.exports[j].cap = exps[j].cap
             /\ \A j \in Ids : On(w.desc, j) =>
                  w.exports[j] # None /\ w.exports[j].cap = Ends[c]
             /\ \A j \in Ids : w.exports[j] # None => exps[j] # None \/ On(w.desc, j)
             /\ w.desc.kind = "senderHosted"
  <2> DEFINE y == [x EXCEPT !.refs = @ + 1]
  <2>1. /\ y \in Export /\ y # None /\ y.refs = x.refs + 1 /\ y.cap = x.cap
        /\ y.canonical = x.canonical /\ x.refs \in Nat /\ x # None
    BY <1>0
  <2> HIDE DEF y
  <2>2. /\ w.exports = [exps EXCEPT ![id] = y] /\ w.byCap = known /\ w.tasks = spawned
        /\ w.desc = [kind |-> "senderHosted", id |-> id] /\ w.desc \in Desc
        /\ \A j \in Ids : On(w.desc, j) <=> id = j
    BY <1>00, <1>2 DEF y
  <2>3. /\ w.exports \in ExportTable /\ w.exports[id] = y
        /\ \A j \in Ids : j # id => w.exports[j] = exps[j]
    BY <2>1, <2>2 DEF ExportTable
  <2>4. Index(w.exports, w.byCap)
    BY <1>2, <2>1, <2>2, <2>3 DEF Index
  <2>5. \A j \in Ids : RefsOf(exps[j]) \in Nat
    BY DEF RefsOf, ExportTable, Export
  <2>6. \A j \in Ids : RefsOf(w.exports[j]) =
            RefsOf(exps[j]) + (IF On(w.desc, j) THEN 1 ELSE 0)
    BY <1>2, <2>1, <2>2, <2>3, <2>5 DEF RefsOf
  <2> QED
    BY <1>2, <2>1, <2>2, <2>3, <2>4, <2>6
<1>3. ASSUME NEW id \in Ids, NEW k \in {"senderHosted", "senderPromise"},
             NEW ts \in SUBSET Task, Ends[c] # Peer, known[Ends[c]] = None, exps[id] = None,
             w = [exports |-> [exps EXCEPT ![id] =
                        [cap |-> Ends[c], refs |-> 1, canonical |-> TRUE]],
                    byCap |-> [known EXCEPT ![Ends[c]] = id], tasks |-> ts,
                    desc |-> [kind |-> k, id |-> id]]
      PROVE  /\ w.exports \in ExportTable /\ w.byCap \in CapTable
             /\ w.tasks \in SUBSET Task /\ w.desc \in Desc
             /\ Index(w.exports, w.byCap)
             /\ \A j \in Ids : RefsOf(w.exports[j]) =
                  RefsOf(exps[j]) + (IF On(w.desc, j) THEN 1 ELSE 0)
             /\ \A j \in Ids : exps[j] # None =>
                  w.exports[j] # None /\ w.exports[j].cap = exps[j].cap
             /\ \A j \in Ids : On(w.desc, j) =>
                  w.exports[j] # None /\ w.exports[j].cap = Ends[c]
             /\ \A j \in Ids : w.exports[j] # None => exps[j] # None \/ On(w.desc, j)
             /\ w.desc.kind # "receiverHosted" /\ w.desc.id = id
  <2> DEFINE y == [cap |-> Ends[c], refs |-> 1, canonical |-> TRUE]
  <2>1. /\ y \in Export /\ y # None /\ y.refs = 1 /\ y.cap = Ends[c] /\ y.canonical
    <3>1. Ends[c] \in Caps
      BY <1>0
    <3>2. y \in Export
      BY ONLY <3>1 DEF Export
    <3> QED
      BY <3>2, NoneFacts
  <2> HIDE DEF y
  <2>2. /\ w.exports = [exps EXCEPT ![id] = y] /\ w.byCap = [known EXCEPT ![Ends[c]] = id]
        /\ w.tasks = ts /\ w.desc = [kind |-> k, id |-> id] /\ w.desc \in Desc
        /\ \A j \in Ids : On(w.desc, j) <=> id = j
    BY <1>00, <1>3 DEF y
  <2>3. /\ w.exports \in ExportTable /\ w.exports[id] = y
        /\ \A j \in Ids : j # id => w.exports[j] = exps[j]
    BY <2>1, <2>2 DEF ExportTable
  <2>4. /\ w.byCap \in CapTable /\ w.byCap[Ends[c]] = id
        /\ \A d \in Caps : d # Ends[c] => w.byCap[d] = known[d]
    BY <1>0, <2>2 DEF CapTable
  <2>5. Index(w.exports, w.byCap)
    <3> SUFFICES ASSUME NEW d \in Caps, NEW j \in Ids
                 PROVE  w.byCap[d] = j <=> w.exports[j] # None /\ w.exports[j].canonical
                                           /\ w.exports[j].cap = d
      BY DEF Index
    <3>1. known[d] = j <=> exps[j] # None /\ exps[j].canonical /\ exps[j].cap = d
      BY DEF Index
    <3>2. known[Ends[c]] # j
      BY <1>3, ConstantFacts
    <3>3. CASE d = Ends[c]
      <4>1. CASE j = id
        BY <2>1, <2>3, <2>4, <3>3, <4>1
      <4>2. CASE j # id
        BY <2>3, <2>4, <3>1, <3>2, <3>3, <4>2
      <4> QED
        BY <4>1, <4>2
    <3>4. CASE d # Ends[c]
      <4>1. CASE j = id
        BY <1>3, <2>1, <2>3, <2>4, <3>1, <3>4, <4>1
      <4>2. CASE j # id
        BY <2>3, <2>4, <3>1, <3>4, <4>2
      <4> QED
        BY <4>1, <4>2
    <3> QED
      BY <3>3, <3>4
  <2>6. \A j \in Ids : RefsOf(exps[j]) \in Nat
    BY DEF RefsOf, ExportTable, Export
  <2>7. \A j \in Ids : RefsOf(w.exports[j]) =
            RefsOf(exps[j]) + (IF On(w.desc, j) THEN 1 ELSE 0)
    <3>1. RefsOf(exps[id]) = 0 /\ RefsOf(w.exports[id]) = 1
      BY <1>3, <2>1, <2>3 DEF RefsOf
    <3> QED
      BY <2>2, <2>3, <2>6, <3>1
  <2> QED
    BY <1>3, <2>1, <2>2, <2>3, <2>4, <2>5, <2>7
<1> QED
  BY <1>1, <1>2, <1>3 DEF Written, Adds

\* An entry is removed, or given another capability, and the index forgets it.
Unindexed(exps, known, id) ==
    IF exps[id].canonical THEN [known EXCEPT ![exps[id].cap] = None] ELSE known

LEMMA UnindexedFacts ==
    ASSUME NEW exps \in ExportTable, NEW known \in CapTable, Index(exps, known),
           NEW id \in Ids, exps[id] # None
    PROVE  /\ exps[id] \in Export
           /\ Unindexed(exps, known, id) \in CapTable
           /\ \A d \in Caps, j \in Ids : Unindexed(exps, known, id)[d] = j <=>
                /\ j # id
                /\ exps[j] # None /\ exps[j].canonical /\ exps[j].cap = d
<1>1. exps[id] \in Export /\ exps[id].cap \in Caps /\ exps[id].canonical \in BOOLEAN
  BY DEF ExportTable, Export
<1>2. CASE exps[id].canonical
  <2> DEFINE k2 == [known EXCEPT ![exps[id].cap] = None]
  <2>1. Unindexed(exps, known, id) = k2
    BY <1>2 DEF Unindexed
  <2>2. k2 \in CapTable /\ k2[exps[id].cap] = None /\ \A d \in Caps : d # exps[id].cap => k2[d] = known[d]
    BY <1>1 DEF CapTable
  <2> HIDE DEF k2
  <2>3. known[exps[id].cap] = id
    BY <1>1, <1>2 DEF Index
  <2>4. ASSUME NEW d \in Caps, NEW j \in Ids
        PROVE  k2[d] = j <=> j # id /\ exps[j] # None /\ exps[j].canonical /\ exps[j].cap = d
    <3>1. known[d] = j <=> exps[j] # None /\ exps[j].canonical /\ exps[j].cap = d
      BY DEF Index
    <3>2. CASE d = exps[id].cap
      BY <2>2, <2>3, <3>1, <3>2, ConstantFacts
    <3>3. CASE d # exps[id].cap
      BY <2>2, <3>1, <3>3
    <3> QED
      BY <3>2, <3>3
  <2> QED
    BY <1>1, <2>1, <2>2, <2>4
<1>3. CASE ~ exps[id].canonical
  <2>1. Unindexed(exps, known, id) = known
    BY <1>3 DEF Unindexed
  <2>2. ASSUME NEW d \in Caps, NEW j \in Ids
        PROVE  known[d] = j <=> j # id /\ exps[j] # None /\ exps[j].canonical /\ exps[j].cap = d
    BY <1>3 DEF Index
  <2> QED
    BY <1>1, <2>1, <2>2
<1> QED
  BY <1>2, <1>3

LEMMA EntryRemoved ==
    ASSUME NEW exps \in ExportTable, NEW known \in CapTable, Index(exps, known),
           NEW id \in Ids, exps[id] # None
    PROVE  /\ [exps EXCEPT ![id] = None] \in ExportTable
           /\ Index([exps EXCEPT ![id] = None], Unindexed(exps, known, id))
<1> DEFINE e2 == [exps EXCEPT ![id] = None]
<1>1. e2 \in ExportTable /\ e2[id] = None /\ \A j \in Ids : j # id => e2[j] = exps[j]
  BY DEF ExportTable
<1> HIDE DEF e2
<1>2. Index(e2, Unindexed(exps, known, id))
  BY <1>1, UnindexedFacts DEF Index
<1> QED
  BY <1>1, <1>2 DEF e2

LEMMA EntryMoved ==
    ASSUME NEW exps \in ExportTable, NEW known \in CapTable, Index(exps, known),
           NEW id \in Ids, exps[id] # None,
           NEW exps2 \in ExportTable, exps2[id] # None, ~ exps2[id].canonical,
           \A j \in Ids : j # id => exps2[j] = exps[j]
    PROVE  Index(exps2, Unindexed(exps, known, id))
  BY UnindexedFacts DEF Index

LEMMA EntryIndexed ==
    ASSUME NEW exps \in ExportTable, NEW known \in CapTable, Index(exps, known),
           NEW id \in Ids, exps[id] # None, ~ exps[id].canonical,
           NEW c \in Caps, exps[id].cap = c, known[c] = None,
           NEW exps2 \in ExportTable, exps2[id] # None, exps2[id].canonical, exps2[id].cap = c,
           \A j \in Ids : j # id => exps2[j] = exps[j],
           NEW known2 \in CapTable, known2[c] = id, \A d \in Caps : d # c => known2[d] = known[d]
    PROVE  Index(exps2, known2)
<1> SUFFICES ASSUME NEW d \in Caps, NEW j \in Ids
             PROVE  known2[d] = j <=> exps2[j] # None /\ exps2[j].canonical /\ exps2[j].cap = d
  BY DEF Index
<1>1. known[d] = j <=> exps[j] # None /\ exps[j].canonical /\ exps[j].cap = d
  BY DEF Index
<1>2. known[c] # j
  BY ConstantFacts
<1>3. CASE j = id
  BY <1>1, <1>2, <1>3
<1>4. CASE j # id
  BY <1>1, <1>2, <1>4
<1> QED
  BY <1>3, <1>4

-----------------------------------------------------------------------------
(* Types and the exporter's tables, one step after another *)

Tables == TypeOK /\ ChainInv /\ ExportInv

LEMMA TablesFacts ==
    ASSUME TypeOK
    PROVE  /\ res \in Redirects /\ exports \in ExportTable /\ byCap \in CapTable
           /\ tasks \in SUBSET Task /\ gives \in Nat
           /\ toA \in Seq(MessageA) /\ toB \in Seq(MessageB)
  BY DEF TypeOK, Redirects, ExportTable, CapTable

\* Calls forwarded are messages; the task of a lost entry is still a task.
LEMMA SendsType ==
    ASSUME NEW calls \in Seq(Calls)
    PROVE  /\ Sends(calls) \in Seq(MessageA) /\ Len(Sends(calls)) = Len(calls)
           /\ \A i \in 1 .. Len(calls) : Sends(calls)[i].type = "Call" /\ Sends(calls)[i].call = calls[i]
<1>1. \A i \in 1 .. Len(calls) : [type |-> "Call", call |-> calls[i]] \in MessageA
  BY AMessages
<1> QED
  BY <1>1 DEF Sends

\* after is before and then messages that carry the calls.
LongerBy(before, after, calls) ==
    /\ Len(before) \in Nat /\ Len(calls) \in Nat /\ Len(after) = Len(before) + Len(calls)
    /\ \A i \in 1 .. Len(after) : i <= Len(before) => after[i] = before[i]
    /\ \A i \in 1 .. Len(after) : i > Len(before) =>
         /\ i - Len(before) \in 1 .. Len(calls)
         /\ after[i].type = "Call" /\ after[i].call = calls[i - Len(before)]

LEMMA LongerByJoin ==
    ASSUME NEW C, NEW s \in Seq(C), NEW t \in Seq(C), NEW calls, Len(t) = Len(calls),
           \A i \in 1 .. Len(calls) : t[i].type = "Call" /\ t[i].call = calls[i]
    PROVE  LongerBy(s, s \o t, calls)
<1>1. /\ Len(s) \in Nat /\ Len(t) \in Nat
      /\ Len(s \o t) = Len(s) + Len(t)
      /\ \A i \in 1 .. Len(s \o t) : (s \o t)[i] = IF i <= Len(s) THEN s[i] ELSE t[i - Len(s)]
  BY ONLY s \in Seq(C), t \in Seq(C)
<1>2. \A i \in 1 .. Len(s \o t) : i > Len(s) => i - Len(s) \in 1 .. Len(calls)
  BY <1>1
<1> QED
  BY <1>1, <1>2 DEF LongerBy

LEMMA CallsSent ==
    ASSUME NEW s \in Seq(MessageA), NEW calls \in Seq(Calls)
    PROVE  LongerBy(s, s \o Sends(calls), calls)
<1>1. /\ Sends(calls) \in Seq(MessageA) /\ Len(Sends(calls)) = Len(calls)
      /\ \A i \in 1 .. Len(calls) : Sends(calls)[i].type = "Call" /\ Sends(calls)[i].call = calls[i]
  BY SendsType
<1> QED
  BY <1>1, LongerByJoin

LEMMA CancelledType ==
    ASSUME TypeOK, NEW ids
    PROVE  Cancelled(ids) \in SUBSET Task
<1>1. \A t \in Task : [t EXCEPT !.cancelled = TRUE] \in Task
  BY DEF Task
<1> QED
  BY <1>1 DEF Cancelled, TypeOK

LEMMA TablesInit == Init => Tables
<1> SUFFICES ASSUME Init PROVE Tables
  OBVIOUS
<1>1. ChainInv
  <2>1. \A c \in Caps : From(res, c) = {c}
    <3> SUFFICES ASSUME NEW c \in Caps, NEW d \in From(res, c) PROVE d = c
      BY ChainSteps, ConstantFacts DEF Init, Redirects
    <3>1. Closed(res, {c})
      BY DEF Closed, Init
    <3> QED
      BY <3>1 DEF From
  <2>2. Last(res) = Caps
    BY DEF Last, Init
  <2> QED
    BY <2>1, <2>2 DEF ChainInv, Chained
<1>2. ExportInv
  BY ConstantFacts DEF ExportInv, Index, Init
<1>3. TypeOK
  BY ConstantFacts, NoneAssumption DEF Init, TypeOK, Gate, NoGate, Vats, Faults
<1> QED
  BY <1>1, <1>2, <1>3 DEF Tables

\* A step that leaves the exporter's tables alone.
LEMMA TablesStay ==
    ASSUME Tables, TypeOK', res' = res, exports' = exports, byCap' = byCap, up'["B"] = up["B"]
    PROVE  Tables'
<1>1. ChainInv'
  BY DEF ChainInv, Tables
<1>2. ExportInv'
  BY DEF ExportInv, Index, Tables
<1> QED
  BY <1>1, <1>2 DEF Tables

LEMMA DisconnectBTables ==
    ASSUME Tables, NEW what, what \in Faults, NEW inbox, inbox \in Seq(MessageB),
           DisconnectB(what, inbox)
    PROVE  Tables' /\ ~ up'["B"] /\ up'["A"] = up["A"]
<1>1. Cancelled(Ids) \in SUBSET Task
  BY CancelledType DEF Tables
<1>2. Append(toA, [type |-> "Abort"]) \in Seq(MessageA)
  BY AMessages DEF Tables, TypeOK
<1>3. up' \in [Vats -> BOOLEAN] /\ ~ up'["B"] /\ up'["A"] = up["A"] /\ fault' \in [Vats -> Faults]
  BY ConstantFacts DEF Tables, TypeOK, DisconnectB
<1>4. exports' \in [Ids -> Export \cup {None}] /\ \A id \in Ids : exports'[id] = None
  BY DEF DisconnectB
<1>5. TypeOK'
  BY <1>1, <1>2, <1>3, <1>4 DEF Tables, TypeOK, DisconnectB, importerVars
<1>6. ChainInv'
  BY DEF Tables, ChainInv, DisconnectB
<1> QED
  BY <1>3, <1>4, <1>5, <1>6 DEF Tables, ExportInv

\* Calls go where the capability leads.
LEMMA ForwardType ==
    ASSUME TypeOK, ChainInv, NEW c \in Caps, NEW calls \in Seq(Calls),
           NEW q \in [Promises -> Seq(Calls)], Forward(c, calls, q)
    PROVE  /\ queued' \in [Promises -> Seq(Calls)] /\ toA' \in Seq(MessageA)
           /\ initiated' \in Seq(Calls)
           /\ queued' = IF Ends[c] \in Promises THEN [q EXCEPT ![Ends[c]] = @ \o calls] ELSE q
           /\ toA' = IF Ends[c] = Peer /\ up["B"] THEN toA \o Sends(calls) ELSE toA
           /\ initiated' = IF Ends[c] = Own THEN initiated \o calls ELSE initiated
<1>1. Resolved(c) = Ends[c]
  BY ResolvedIsEnd, TablesFacts
<1>2. /\ queued' = IF Ends[c] \in Promises THEN [q EXCEPT ![Ends[c]] = @ \o calls] ELSE q
      /\ toA' = IF Ends[c] = Peer /\ up["B"] THEN toA \o Sends(calls) ELSE toA
      /\ initiated' = IF Ends[c] = Own THEN initiated \o calls ELSE initiated
  BY <1>1 DEF Forward, IsPromise
<1>3. toA' \in Seq(MessageA)
  BY <1>2, SendsType DEF TypeOK
<1>4. queued' \in [Promises -> Seq(Calls)] /\ initiated' \in Seq(Calls)
  BY <1>2 DEF TypeOK
<1> QED
  BY <1>2, <1>3, <1>4

LEMMA ResolvePromiseTables ==
    ASSUME Tables, NEW p \in Promises, NEW c \in Caps, ResolvePromise(p, c)
    PROVE  /\ Tables'
           /\ \A x \in Caps : Ends'[x] = IF Ends[x] = p THEN Ends[c] ELSE Ends[x]
<1>1. res \in Redirects /\ Chained(res) /\ res[p] = None /\ EndsOf(res)[c] # p
      /\ res' = [res EXCEPT ![p] = c]
  BY ResolvedIsEnd, TablesFacts DEF Tables, ChainInv, Ends, ResolvePromise
<1>2. res' \in Redirects /\ res'[p] = c /\ \A q \in Promises : q # p => res'[q] = res[q]
  BY <1>1 DEF Redirects
<1>7. /\ Chained(res')
      /\ \A x \in Caps :
           EndsOf(res')[x] = IF EndsOf(res)[x] = p THEN EndsOf(res)[c] ELSE EndsOf(res)[x]
  <2>1. \A g \in Redirects :
            g[p] = c /\ (\A q \in Promises : q # p => g[q] = res[q])
            => Chained(g) /\ \A x \in Caps :
                 EndsOf(g)[x] = IF EndsOf(res)[x] = p THEN EndsOf(res)[c] ELSE EndsOf(res)[x]
    BY <1>1, EndsMove
  <2> QED
    BY <1>2, <2>1
<1>3. queued[p] \in Seq(Calls) /\ [queued EXCEPT ![p] = <<>>] \in [Promises -> Seq(Calls)]
  BY DEF Tables, TypeOK
<1>4. /\ queued' \in [Promises -> Seq(Calls)] /\ toA' \in Seq(MessageA)
      /\ initiated' \in Seq(Calls)
  BY <1>3, ForwardType DEF Tables, ResolvePromise
<1>5. TypeOK'
  BY <1>2, <1>4 DEF Tables, TypeOK, ResolvePromise, importerVars, Redirects
<1>6. ExportInv'
  BY DEF Tables, ExportInv, Index, ResolvePromise
<1> QED
  BY <1>5, <1>6, <1>7 DEF Tables, ChainInv, Ends

LEMMA GiveTables ==
    ASSUME Tables, NEW c \in Givable, Give(c)
    PROVE  /\ Tables'
           /\ \E d \in Desc : /\ toA' = Append(toA, [type |-> "Cap", desc |-> d, ref |-> gives + 1])
                              /\ Adds(exports, exports', d, Ends[c])
<1> DEFINE w == WriteDescriptor(c, exports, byCap, tasks)
<1>1. /\ res \in Redirects /\ ChainInv /\ gives \in Nat /\ c \in Caps /\ Index(exports, byCap)
      /\ exports \in ExportTable /\ byCap \in CapTable /\ tasks \in SUBSET Task
      /\ Room(c, exports, byCap)
  BY TablesFacts, ConstantFacts DEF Tables, ExportInv, Give
<1>2. Written(c, exports, byCap, tasks, w)
  BY <1>1, DescriptorWritten
<1>3. /\ exports' = w.exports /\ byCap' = w.byCap /\ tasks' = w.tasks
      /\ toA' = Append(toA, [type |-> "Cap", desc |-> w.desc, ref |-> gives + 1])
      /\ gives' = gives + 1 /\ gives < MaxGives
  BY DEF Give
<1> HIDE DEF w
<1>4. /\ w.exports \in ExportTable /\ w.byCap \in CapTable
      /\ w.tasks \in SUBSET Task /\ w.desc \in Desc
      /\ Index(w.exports, w.byCap) /\ Adds(exports, w.exports, w.desc, Ends[c])
  BY <1>1, <1>2, WriteEffect
<1>5. gives' \in Nat /\ gives' <= MaxGives /\ gives + 1 \in Refs
  BY <1>1, <1>3, ConstantFacts DEF Refs
<1>6. toA' \in Seq(MessageA)
  BY <1>3, <1>4, <1>5, AMessages DEF Tables, TypeOK
<1>7. TypeOK'
  BY <1>3, <1>4, <1>5, <1>6 DEF Tables, TypeOK, ExportTable, CapTable, Give, importerVars
<1>8. ChainInv' /\ ExportInv'
  BY <1>3, <1>4 DEF Tables, ChainInv, ExportInv, Give
<1> QED
  BY <1>3, <1>4, <1>7, <1>8 DEF Tables

\* The entry of task t stands for another capability.
LEMMA RedirectedFacts ==
    ASSUME Tables, NEW t \in tasks, res[t.on] # None, exports[t.id] # None
    PROVE  LET c == Resolved(res[t.on]) IN
           /\ c \in Caps /\ Ends[c] = c /\ c = Ends[t.on] /\ Index(exports, byCap)
           /\ t.id \in Ids /\ t.on \in Promises /\ up["B"]
           /\ ~ Redirected(t)[t.id].canonical
           /\ Redirected(t) \in ExportTable /\ Forgotten(t) \in CapTable
           /\ Index(Redirected(t), Forgotten(t))
           /\ \A id \in Ids : /\ RefsOf(Redirected(t)[id]) = RefsOf(exports[id])
                              /\ Redirected(t)[id] # None <=> exports[id] # None
                              /\ exports[id] # None => Redirected(t)[id].cap =
                                    IF id = t.id THEN c ELSE exports[id].cap
<1> DEFINE c == Resolved(res[t.on])
<1>1. t.id \in Ids /\ t.on \in Promises /\ t.on \in Caps /\ res[t.on] \in Caps
  BY ConstantFacts DEF Tables, TypeOK, Task
<1>2. c \in Caps /\ Ends[c] = c /\ c = Ends[t.on]
  BY <1>1, TablesFacts, ResolvedIsEnd, EndsFacts DEF Tables, ChainInv, Ends
<1>3. up["B"] /\ Index(exports, byCap)
  BY <1>1 DEF Tables, ExportInv
<1>4. Redirected(t) = [exports EXCEPT ![t.id].cap = c, ![t.id].canonical = FALSE]
  BY DEF Redirected
<1>5. Forgotten(t) = Unindexed(exports, byCap, t.id)
  BY DEF Forgotten, Unindexed
<1> HIDE DEF c
<1>6. /\ Redirected(t) \in ExportTable /\ Forgotten(t) \in CapTable
      /\ Index(Redirected(t), Forgotten(t))
      /\ Redirected(t)[t.id] # None /\ Redirected(t)[t.id].cap = c
      /\ Redirected(t)[t.id].refs = exports[t.id].refs
      /\ ~ Redirected(t)[t.id].canonical
      /\ \A j \in Ids : j # t.id => Redirected(t)[j] = exports[j]
  <2>1. exports \in ExportTable /\ byCap \in CapTable /\ exports[t.id] \in Export
    BY <1>1, TablesFacts DEF Tables, ExportTable
  <2>2. /\ Redirected(t)[t.id].cap = c /\ Redirected(t)[t.id].refs = exports[t.id].refs
        /\ ~ Redirected(t)[t.id].canonical /\ Redirected(t)[t.id] \in Export
        /\ \A j \in Ids : j # t.id => Redirected(t)[j] = exports[j]
        /\ Redirected(t) \in ExportTable
    <3> DEFINE x == exports[t.id]
               y == [[x EXCEPT !.cap = c] EXCEPT !.canonical = FALSE]
    <3>1. y \in Export /\ y.cap = c /\ y.refs = x.refs /\ ~ y.canonical
      <4> HIDE DEF x
      <4>1. x \in Export
        BY <2>1 DEF x
      <4> QED
        BY <1>2, <4>1 DEF Export
    <3>2. Redirected(t) = [exports EXCEPT ![t.id] = y]
      BY <1>1, <1>4, <2>1 DEF ExportTable
    <3> HIDE DEF y
    <3> QED
      BY <1>1, <2>1, <3>1, <3>2 DEF ExportTable
  <2>3. Redirected(t)[t.id] # None
    BY <2>2, NoneFacts
  <2>4. Forgotten(t) \in CapTable
    BY <1>1, <1>3, <1>5, <2>1, UnindexedFacts
  <2>5. Index(Redirected(t), Forgotten(t))
    BY <1>1, <1>3, <1>5, <2>1, <2>2, <2>3, EntryMoved
  <2> QED
    BY <2>2, <2>3, <2>4, <2>5
<1>7. \A id \in Ids : /\ RefsOf(Redirected(t)[id]) = RefsOf(exports[id])
                      /\ Redirected(t)[id] # None <=> exports[id] # None
                      /\ exports[id] # None => Redirected(t)[id].cap =
                            IF id = t.id THEN c ELSE exports[id].cap
  BY <1>6 DEF RefsOf
<1> QED
  BY <1>1, <1>2, <1>3, <1>4, <1>5, <1>6, <1>7 DEF c

LEMMA ReuseEntryTables ==
    ASSUME Tables, NEW t \in tasks, ReuseEntry(t)
    PROVE  /\ Tables'
           /\ \A id \in Ids : /\ RefsOf(exports'[id]) = RefsOf(exports[id])
                              /\ exports'[id] # None <=> exports[id] # None
                              /\ exports[id] # None => exports'[id].cap =
                                    IF id = t.id THEN Ends[t.on] ELSE exports[id].cap
<1> DEFINE c == Resolved(res[t.on])
<1>1. /\ res[t.on] # None /\ exports[t.id] # None
      /\ IsPromise(c) /\ Forgotten(t)[c] = None
      /\ exports' = [Redirected(t) EXCEPT ![t.id].canonical = TRUE]
      /\ byCap' = [Forgotten(t) EXCEPT ![c] = t.id]
      /\ tasks' = (tasks \ {t}) \cup {[t EXCEPT !.on = c]}
  BY DEF ReuseEntry
<1>2. /\ c \in Caps /\ c = Ends[t.on] /\ t.id \in Ids /\ up["B"]
      /\ Redirected(t) \in ExportTable /\ Forgotten(t) \in CapTable
      /\ Index(Redirected(t), Forgotten(t)) /\ ~ Redirected(t)[t.id].canonical
      /\ Redirected(t)[t.id] # None /\ Redirected(t)[t.id].cap = c
      /\ \A id \in Ids : /\ RefsOf(Redirected(t)[id]) = RefsOf(exports[id])
                         /\ Redirected(t)[id] # None <=> exports[id] # None
                         /\ exports[id] # None => Redirected(t)[id].cap =
                               IF id = t.id THEN c ELSE exports[id].cap
  BY <1>1, RedirectedFacts
<1> HIDE DEF c
<1>3. /\ exports' \in ExportTable /\ byCap' \in CapTable /\ Index(exports', byCap')
      /\ exports'[t.id] # None /\ exports'[t.id].cap = c
      /\ exports'[t.id].refs = Redirected(t)[t.id].refs
      /\ \A j \in Ids : j # t.id => exports'[j] = Redirected(t)[j]
  <2>1. Redirected(t)[t.id] \in Export
    BY <1>2 DEF ExportTable
  <2>2. /\ exports' \in ExportTable /\ exports'[t.id] \in Export /\ exports'[t.id].cap = c
        /\ exports'[t.id].refs = Redirected(t)[t.id].refs /\ exports'[t.id].canonical
        /\ \A j \in Ids : j # t.id => exports'[j] = Redirected(t)[j]
    BY <1>1, <1>2, <2>1 DEF ExportTable, Export
  <2>3. exports'[t.id] # None
    BY <2>2, NoneFacts
  <2>4. byCap' \in CapTable /\ byCap'[c] = t.id /\ \A d \in Caps : d # c => byCap'[d] = Forgotten(t)[d]
    BY <1>1, <1>2 DEF CapTable
  <2>5. Index(exports', byCap')
    <3>1. \A e2 \in ExportTable, k2 \in CapTable :
            /\ e2[t.id] # None /\ e2[t.id].canonical /\ e2[t.id].cap = c
            /\ \A j \in Ids : j # t.id => e2[j] = Redirected(t)[j]
            /\ k2[c] = t.id /\ \A d \in Caps : d # c => k2[d] = Forgotten(t)[d]
            => Index(e2, k2)
      BY <1>1, <1>2, EntryIndexed
    <3> QED
      BY <2>2, <2>3, <2>4, <3>1
  <2> QED
    BY <2>2, <2>3, <2>4, <2>5
<1>4. tasks' \in SUBSET Task
  <2>1. t \in Task /\ c \in Promises
    BY <1>1 DEF Tables, TypeOK, IsPromise
  <2>2. [t EXCEPT !.on = c] \in Task
    BY <2>1 DEF Task
  <2> QED
    BY <1>1, <2>2 DEF Tables, TypeOK
<1>5. TypeOK'
  BY <1>3, <1>4 DEF Tables, TypeOK, ExportTable, CapTable, ReuseEntry, importerVars
<1>6. ChainInv' /\ ExportInv'
  BY <1>2, <1>3 DEF Tables, ChainInv, ExportInv, ReuseEntry
<1> QED
  BY <1>1, <1>2, <1>3, <1>5, <1>6 DEF Tables, RefsOf

LEMMA SendResolveTables ==
    ASSUME Tables, NEW t \in tasks, SendResolve(t)
    PROVE  /\ Tables' /\ t.id \in Ids /\ up["B"] /\ exports[t.id] # None
           /\ \E d \in Desc : /\ toA' = Append(toA, [type |-> "Resolve", id |-> t.id, desc |-> d])
                              /\ Adds(Redirected(t), exports', d, Ends[t.on])
<1> DEFINE c == Resolved(res[t.on])
           w == WriteDescriptor(c, Redirected(t), Forgotten(t), tasks \ {t})
<1>1. /\ res[t.on] # None /\ exports[t.id] # None
      /\ Room(c, exports, Forgotten(t))
      /\ exports' = w.exports /\ byCap' = w.byCap /\ tasks' = w.tasks
      /\ toA' = Append(toA, [type |-> "Resolve", id |-> t.id, desc |-> w.desc])
  BY DEF SendResolve
<1>2. /\ c \in Caps /\ Ends[c] = c /\ c = Ends[t.on] /\ t.id \in Ids /\ up["B"]
      /\ Redirected(t) \in ExportTable /\ Forgotten(t) \in CapTable
      /\ Index(Redirected(t), Forgotten(t))
      /\ \A id \in Ids : Redirected(t)[id] # None <=> exports[id] # None
  BY <1>1, RedirectedFacts
<1>3. res \in Redirects /\ gives \in Nat /\ ChainInv /\ tasks \ {t} \in SUBSET Task
      /\ exports \in ExportTable
  BY TablesFacts DEF Tables
<1>4. Room(c, Redirected(t), Forgotten(t))
  <2>1. FreeIds(exports) = FreeIds(Redirected(t))
    BY <1>2, <1>3 DEF FreeIds, ExportTable
  <2> HIDE DEF c
  <2> QED
    BY <1>1, <2>1 DEF Room
<1> HIDE DEF c
<1>5. Written(c, Redirected(t), Forgotten(t), tasks \ {t}, w)
  BY <1>2, <1>3, <1>4, DescriptorWritten
<1> HIDE DEF w
<1>6. /\ w.exports \in ExportTable /\ w.byCap \in CapTable
      /\ w.tasks \in SUBSET Task /\ w.desc \in Desc
      /\ Index(w.exports, w.byCap) /\ Adds(Redirected(t), w.exports, w.desc, Ends[c])
  BY <1>2, <1>3, <1>5, WriteEffect
<1>7. toA' \in Seq(MessageA)
  BY <1>1, <1>2, <1>6, AMessages DEF Tables, TypeOK
<1>8. TypeOK'
  BY <1>1, <1>6, <1>7 DEF Tables, TypeOK, ExportTable, CapTable, SendResolve, importerVars
<1>9. ChainInv' /\ ExportInv'
  BY <1>1, <1>2, <1>6 DEF Tables, ChainInv, ExportInv, SendResolve
<1> QED
  BY <1>1, <1>2, <1>6, <1>8, <1>9 DEF Tables

\* The message at the head is one, and the rest are messages.
LEMMA HeadB ==
    ASSUME TypeOK, toB # <<>>
    PROVE  Head(toB) \in MessageB /\ Tail(toB) \in Seq(MessageB)
  BY DEF TypeOK

LEMMA HandleCallTables ==
    ASSUME Tables, up["B"], toB # <<>>, HandleCall(Head(toB))
    PROVE  Tables'
<1> DEFINE m == Head(toB)
<1>1. m \in MessageB /\ Tail(toB) \in Seq(MessageB) /\ m.id \in Ids /\ m.call \in Calls
  BY HeadB, MessageBFields DEF Tables, HandleCall
<1>2. CASE exports[m.id] = None
  BY <1>1, <1>2, DisconnectBTables DEF HandleCall, Faults
<1>3. CASE exports[m.id] # None
  <2>1. exports[m.id].cap \in Caps /\ <<m.call>> \in Seq(Calls) /\ queued \in [Promises -> Seq(Calls)]
    BY <1>1, <1>3 DEF Tables, TypeOK, Export
  <2>2. Forward(exports[m.id].cap, <<m.call>>, queued) /\ toB' = Tail(toB)
    BY <1>3 DEF HandleCall
  <2>3. queued' \in [Promises -> Seq(Calls)] /\ toA' \in Seq(MessageA) /\ initiated' \in Seq(Calls)
    BY <2>1, <2>2, ForwardType DEF Tables
  <2>4. TypeOK'
    BY <1>1, <1>3, <2>2, <2>3 DEF Tables, TypeOK, HandleCall, importerVars
  <2> QED
    BY <1>3, <2>4, TablesStay DEF HandleCall
<1> QED
  BY <1>2, <1>3

LEMMA HandleReleaseTables ==
    ASSUME Tables, up["B"], toB # <<>>, NEW m, m = Head(toB), HandleRelease(m)
    PROVE  /\ Tables' /\ m \in MessageB /\ m.id \in Ids /\ m.refs \in Nat \ {0}
           /\ \/ /\ DisconnectB("invalid release", Tail(toB))
                 /\ RefsOf(exports[m.id]) < m.refs
              \/ /\ toB' = Tail(toB) /\ UNCHANGED <<up, fault, toA, res, queued, replies, gives, importerVars, made, initiated>>
                 /\ RefsOf(exports[m.id]) >= m.refs
                 /\ RefsOf(exports'[m.id]) = RefsOf(exports[m.id]) - m.refs
                 /\ exports'[m.id] # None <=> RefsOf(exports[m.id]) > m.refs
                 /\ exports'[m.id] # None => exports'[m.id].cap = exports[m.id].cap
                 /\ \A id \in Ids : id # m.id => exports'[id] = exports[id]
<1>1. m \in MessageB /\ Tail(toB) \in Seq(MessageB) /\ m.id \in Ids /\ m.refs \in Nat \ {0}
      /\ m.type = "Release"
  BY HeadB, MessageBFields DEF Tables, HandleRelease
<1> DEFINE x == exports[m.id]
<1>2. x # None => x \in Export /\ x.refs \in Nat \ {0}
  BY <1>1 DEF Tables, TypeOK, Export
<1>3. exports \in ExportTable /\ byCap \in CapTable /\ Index(exports, byCap)
  BY TablesFacts DEF Tables, ExportInv
<1>5. CASE x = None \/ x.refs < m.refs
  <2>1. DisconnectB("invalid release", Tail(toB))
    BY <1>5 DEF HandleRelease
  <2>2. Tables'
    BY <1>1, <2>1, DisconnectBTables DEF Faults
  <2>3. RefsOf(x) < m.refs
    BY <1>1, <1>5 DEF RefsOf
  <2> QED
    BY <1>1, <2>1, <2>2, <2>3
<1>6. CASE x # None /\ x.refs > m.refs
  <2>1. /\ toB' = Tail(toB) /\ exports' = [exports EXCEPT ![m.id].refs = @ - m.refs]
        /\ UNCHANGED <<byCap, tasks, up, fault, toA, res, queued, replies, gives,
                       importerVars, made, initiated>>
    <3>1. ~ (x = None \/ x.refs < m.refs)
      BY <1>1, <1>2, <1>6
    <3> QED
      BY <1>6, <3>1 DEF HandleRelease
  <2> DEFINE y == [x EXCEPT !.refs = @ - m.refs]
  <2>2. exports' = [exports EXCEPT ![m.id] = y]
    BY <1>1, <1>3, <2>1 DEF ExportTable
  <2>3. y \in Export /\ y.refs = x.refs - m.refs /\ y.cap = x.cap /\ y.canonical = x.canonical
    <3> HIDE DEF x
    <3> QED
      BY <1>1, <1>2, <1>6 DEF Export
  <2>4. y # None
    BY <2>3, NoneFacts
  <2> HIDE DEF y
  <2>5. exports' \in ExportTable /\ exports'[m.id] = y
        /\ \A id \in Ids : id # m.id => exports'[id] = exports[id]
    BY <1>1, <1>3, <2>2, <2>3 DEF ExportTable
  <2>6. TypeOK'
    BY <1>1, <2>1, <2>5 DEF Tables, TypeOK, ExportTable, importerVars
  <2>7. ChainInv'
    BY <2>1 DEF ChainInv, Tables
  <2>8. ExportInv'
    BY <1>3, <1>6, <2>1, <2>3, <2>4, <2>5 DEF ExportInv, Index, Tables
  <2>9. /\ RefsOf(x) = x.refs /\ RefsOf(exports'[m.id]) = x.refs - m.refs
        /\ exports'[m.id] # None /\ exports'[m.id].cap = x.cap
    BY <1>6, <2>3, <2>4, <2>5 DEF RefsOf
  <2>10. Tables'
    BY <2>6, <2>7, <2>8 DEF Tables
  <2>11. UNCHANGED <<up, fault, toA, res, queued, replies, gives, importerVars, made, initiated>>
    BY <2>1
  <2>12. x.refs >= m.refs
    BY <1>1, <1>2, <1>6
  <2> QED
    BY <1>1, <1>6, <2>1, <2>5, <2>9, <2>10, <2>11, <2>12
<1>7. CASE x # None /\ x.refs = m.refs
  <2>1. /\ toB' = Tail(toB) /\ exports' = [exports EXCEPT ![m.id] = None]
        /\ byCap' = Unindexed(exports, byCap, m.id)
        /\ tasks' = Cancelled({m.id})
        /\ UNCHANGED <<up, fault, toA, res, queued, replies, gives,
                       importerVars, made, initiated>>
    <3>1. ~ (x = None \/ x.refs < m.refs) /\ ~ (x.refs > m.refs)
      BY <1>1, <1>2, <1>7
    <3> QED
      BY <1>7, <3>1 DEF HandleRelease, Unindexed
  <2>2. exports' \in ExportTable /\ byCap' \in CapTable /\ Index(exports', byCap')
    <3>1. /\ [exports EXCEPT ![m.id] = None] \in ExportTable
          /\ Index([exports EXCEPT ![m.id] = None], Unindexed(exports, byCap, m.id))
      BY <1>1, <1>3, <1>7, EntryRemoved
    <3>2. Unindexed(exports, byCap, m.id) \in CapTable
      BY <1>1, <1>3, <1>7, UnindexedFacts
    <3> QED
      BY <2>1, <3>1, <3>2
  <2>3. tasks' \in SUBSET Task
    BY <2>1, CancelledType DEF Tables
  <2>4. exports'[m.id] = None /\ \A id \in Ids : id # m.id => exports'[id] = exports[id]
    BY <1>1, <1>3, <2>1 DEF ExportTable
  <2>5. TypeOK'
    BY <1>1, <2>1, <2>2, <2>3 DEF Tables, TypeOK, ExportTable, CapTable, importerVars
  <2>6. ChainInv' /\ ExportInv'
    BY <2>1, <2>2 DEF ChainInv, Tables, ExportInv
  <2>7. RefsOf(x) = x.refs /\ RefsOf(exports'[m.id]) = 0
    BY <1>7, <2>4 DEF RefsOf
  <2>8. Tables'
    BY <2>5, <2>6 DEF Tables
  <2>9. UNCHANGED <<up, fault, toA, res, queued, replies, gives, importerVars, made, initiated>>
    BY <2>1
  <2>10. x.refs >= m.refs /\ x.refs - m.refs = 0 /\ ~ (x.refs > m.refs)
    BY <1>1, <1>2, <1>7
  <2> QED
    BY <1>1, <1>7, <2>1, <2>4, <2>7, <2>8, <2>9, <2>10
<1>8. \/ x = None \/ x.refs < m.refs
      \/ x # None /\ x.refs > m.refs
      \/ x # None /\ x.refs = m.refs
  BY <1>1, <1>2
<1> QED
  BY <1>5, <1>6, <1>7, <1>8

LEMMA HandleSenderLoopbackTables ==
    ASSUME Tables, up["B"], toB # <<>>, HandleSenderLoopback(Head(toB))
    PROVE  Tables'
<1> DEFINE m == Head(toB)
<1>1. m \in MessageB /\ Tail(toB) \in Seq(MessageB) /\ m.embargo \in Refs
  BY HeadB, MessageBFields DEF Tables, HandleSenderLoopback
<1>2. CASE DisconnectB("not a current export", Tail(toB)) \/ DisconnectB("does not point back", Tail(toB))
  <2>1. "not a current export" \in Faults /\ "does not point back" \in Faults
    BY DEF Faults
  <2>2. CASE DisconnectB("not a current export", Tail(toB))
    BY <1>1, <2>1, <2>2, DisconnectBTables
  <2>3. CASE DisconnectB("does not point back", Tail(toB))
    BY <1>1, <2>1, <2>3, DisconnectBTables
  <2> QED
    BY <1>2, <2>2, <2>3
<1>3. CASE /\ toB' = Tail(toB)
           /\ replies' = replies \cup {m.embargo}
           /\ UNCHANGED <<up, toA, fault, res, queued, exports, byCap, tasks, gives,
                          importerVars, made, initiated>>
  <2>1. TypeOK'
    BY <1>1, <1>3 DEF Tables, TypeOK, importerVars
  <2> QED
    BY <1>3, <2>1, TablesStay
<1> QED
  BY <1>2, <1>3 DEF HandleSenderLoopback

\* The tasks that end, and the answer to a Disembargo.
LEMMA TaskEndTables ==
    ASSUME Tables, NEW t \in tasks, DropTask(t) \/ SendException(t) \/ EntryNotFound(t)
    PROVE  /\ Tables' /\ t.id \in Ids
           /\ toA' = toA \/ toA' = Append(toA, [type |-> "Resolve", id |-> t.id, desc |-> None])
           /\ UNCHANGED <<up, toB, fault, res, queued, exports, byCap, replies, gives,
                          importerVars, made, initiated>>
<1>1. t.id \in Ids
  BY DEF Tables, TypeOK, Task
<1>2. /\ tasks' = tasks \ {t}
      /\ toA' = toA \/ toA' = Append(toA, [type |-> "Resolve", id |-> t.id, desc |-> None])
      /\ UNCHANGED <<up, toB, fault, res, queued, exports, byCap, replies, gives,
                     importerVars, made, initiated>>
  BY DEF DropTask, SendException, EntryNotFound
<1>3. toA' \in Seq(MessageA)
  <2>1. [type |-> "Resolve", id |-> t.id, desc |-> None] \in MessageA
    BY <1>1, AMessages
  <2> QED
    BY <1>2, <2>1, TablesFacts DEF Tables
<1>4. TypeOK'
  BY <1>2, <1>3 DEF Tables, TypeOK, importerVars
<1> QED
  BY <1>1, <1>2, <1>4, TablesStay

LEMMA ReplyTables ==
    ASSUME Tables, NEW e, Reply(e)
    PROVE  Tables' /\ e \in Refs
<1>1. e \in Refs
  BY DEF Tables, TypeOK, Reply
<1>2. toA' \in Seq(MessageA)
  BY <1>1, AMessages DEF Tables, TypeOK, Reply
<1>3. TypeOK'
  BY <1>2 DEF Tables, TypeOK, Reply, importerVars
<1> QED
  BY <1>1, <1>3, TablesStay DEF Reply

-----------------------------------------------------------------------------
(* The importer's clients and imports *)

ImportTable == [Ids -> ImportEntry \cup {None}]
HeldTable == [Refs -> {Nothing, Local} \cup Imports \cup {Promised(c) : c \in Refs}]
ClientTable == [Refs -> Client \cup {None}]
OldTable == [Refs -> {Nothing, Local, Broken} \cup Imports \cup {Gated(c) : c \in Refs}]
GateTable == [Refs -> Gate]
EmbargoTable == [Refs -> Refs \cup {None}]

LEMMA ImporterTypes ==
    TypeOK => /\ imports \in ImportTable /\ held \in HeldTable /\ clients \in ClientTable
              /\ old \in OldTable /\ gate \in GateTable /\ embargoes \in EmbargoTable
  BY DEF TypeOK, ImportTable, HeldTable, ClientTable, OldTable, GateTable, EmbargoTable

\* The references of which nothing of the importer's knows yet.
Unused == {r \in Refs :
    /\ held[r] = Nothing /\ clients[r] = None /\ old[r] = Nothing /\ gate[r] = NoGate
    /\ \A e \in Refs : embargoes[e] # r
    /\ \A id \in Ids : imports[id] # None => imports[id].promise # r
    /\ \A s \in Refs : held[s] # Promised(r)}

\* A reference comes in one message, and is not used before.
Brings(m, r) == m.type = "Cap" /\ m.ref = r
RefsInv ==
    /\ \A r \in Refs : r > gives => r \in Unused
    /\ \A i \in 1 .. Len(toA), r \in Refs : Brings(toA[i], r) => r <= gives /\ r \in Unused
    /\ \A i, j \in 1 .. Len(toA), r \in Refs : Brings(toA[i], r) /\ Brings(toA[j], r) => i = j

\* A PromiseClient lives while the application holds it, and waits for an
\* embargo of its own only.
ClientsInv ==
    /\ \A c \in Refs : clients[c] # None <=> \E r \in Refs : held[r] = Promised(c)
    /\ \A c, d \in Refs : clients[c] # None /\ clients[c].cap = Gated(d) => d = c

\* What an import remembers: its own client, and a PromiseClient that still
\* points to it.
PromiseInv == \A id \in Ids : imports[id] # None =>
    /\ imports[id].app \in {Nothing, Import(id)} \cup {Promised(c) : c \in Refs}
    /\ LET c == imports[id].promise
       IN  c # None /\ clients[c] # None =>
            clients[c].cap = Import(id) /\ old[c] = Nothing /\ gate[c] = NoGate

\* Just the imports that have a holder are in the table.
KeptInv ==
    up["A"] => \A id \in Ids : imports[id] # None <=> Kept(id, held, clients, old)

\* An embargo is of one client, which waits for it.
EmbargoInv ==
    /\ \A e, f \in Refs : embargoes[e] # None /\ embargoes[e] = embargoes[f] => e = f
    /\ \A e \in Refs : embargoes[e] # None => gate[embargoes[e]].st = "embargoed"

Clients == RefsInv /\ ClientsInv /\ PromiseInv /\ KeptInv /\ EmbargoInv

\* An entry whose client has no holder.
Gone(id, imps, refs, pcs, olds) == imps[id] # None /\ ~ Kept(id, refs, pcs, olds)
Release(id, n) == [type |-> "Release", id |-> id, refs |-> n]

LEMMA CollectEffect ==
    ASSUME NEW imps \in ImportTable, NEW refs, NEW pcs, NEW olds, NEW ms \in Seq(MessageB),
           Collect(imps, refs, pcs, olds, ms)
    PROVE  /\ imports' \in ImportTable /\ toB' \in Seq(MessageB)
           /\ held' = refs /\ clients' = pcs /\ old' = olds
           /\ \A id \in Ids : imports'[id] =
                IF Gone(id, imps, refs, pcs, olds) THEN None ELSE imps[id]
           /\ \/ toB' = ms /\ (up["A"] => \A id \in Ids : ~ Gone(id, imps, refs, pcs, olds))
              \/ /\ up["A"]
                 /\ \E id \in Ids : /\ Gone(id, imps, refs, pcs, olds)
                                    /\ imps[id].refs \in Nat \ {0}
                                    /\ toB' = Append(ms, Release(id, imps[id].refs))
<1> DEFINE gone == {id \in Ids : imps[id] # None /\ ~Kept(id, refs, pcs, olds)}
           pick == CHOOSE id \in gone : TRUE
<1>1. /\ imports' = [id \in Ids |-> IF id \in gone THEN None ELSE imps[id]]
      /\ toB' = IF gone # {} /\ up["A"] THEN Append(ms, Release(pick, imps[pick].refs)) ELSE ms
      /\ held' = refs /\ clients' = pcs /\ old' = olds
  BY DEF Collect, Release
<1>2. \A id \in Ids : id \in gone <=> Gone(id, imps, refs, pcs, olds)
  BY DEF Gone
<1>3. gone \subseteq Ids /\ (gone # {} => pick \in gone)
  OBVIOUS
<1> HIDE DEF gone, pick
<1>4. imports' \in ImportTable /\ \A id \in Ids : imports'[id] =
                IF Gone(id, imps, refs, pcs, olds) THEN None ELSE imps[id]
  BY <1>1, <1>2 DEF ImportTable
<1>5. CASE gone # {} /\ up["A"]
  <2>1. pick \in Ids /\ Gone(pick, imps, refs, pcs, olds) /\ imps[pick] \in ImportEntry
    BY <1>2, <1>3, <1>5 DEF Gone, ImportTable
  <2>2. imps[pick].refs \in Nat \ {0} /\ toB' = Append(ms, Release(pick, imps[pick].refs))
    BY <1>1, <1>5, <2>1 DEF ImportEntry
  <2>3. toB' \in Seq(MessageB)
    BY <2>1, <2>2, BMessages DEF Release
  <2> QED
    BY <1>1, <1>4, <1>5, <2>1, <2>2, <2>3
<1>6. CASE ~ (gone # {} /\ up["A"])
  BY <1>1, <1>2, <1>4, <1>6
<1> QED
  BY <1>5, <1>6

LEMMA ImportedFacts ==
    ASSUME imports \in ImportTable, NEW id \in Ids
    PROVE  /\ Imported(id) \in ImportTable /\ Imported(id)[id] \in ImportEntry
           /\ Imported(id)[id] # None
           /\ Imported(id)[id].refs = Count(id) + 1 /\ Count(id) \in Nat
           /\ Imported(id)[id].app = IF imports[id] = None THEN Nothing ELSE imports[id].app
           /\ Imported(id)[id].promise = IF imports[id] = None THEN None ELSE imports[id].promise
           /\ \A j \in Ids : j # id => Imported(id)[j] = imports[j]
<1> DEFINE x == IF imports[id] = None THEN FirstImport ELSE [imports[id] EXCEPT !.refs = @ + 1]
<1>1. imports[id] # None => imports[id] \in ImportEntry
  BY DEF ImportTable
<1>2. /\ x \in ImportEntry /\ x.refs = Count(id) + 1 /\ Count(id) \in Nat
      /\ x.app = IF imports[id] = None THEN Nothing ELSE imports[id].app
      /\ x.promise = IF imports[id] = None THEN None ELSE imports[id].promise
  BY <1>1 DEF ImportEntry, Count, FirstImport
<1>3. Imported(id) = [imports EXCEPT ![id] = x]
  <2>1. CASE imports[id] = None
    BY <2>1 DEF Imported
  <2>2. CASE imports[id] # None
    BY <2>2 DEF Imported, ImportTable
  <2> QED
    BY <2>1, <2>2
<1>4. x # None
  BY <1>2, NoneFacts
<1> HIDE DEF x
<1>5. Imported(id) \in ImportTable /\ Imported(id)[id] = x
      /\ \A j \in Ids : j # id => Imported(id)[j] = imports[j]
  BY <1>2, <1>3 DEF ImportTable
<1> QED
  BY <1>2, <1>4, <1>5

\* Import id is given a client, or a promise.
WithApp(imps, id, a) == [imps EXCEPT ![id].app = a]
WithPromise(imps, id, p) == [imps EXCEPT ![id].promise = p]
Apps == {Nothing} \cup Imports \cup {Promised(c) : c \in Refs}

LEMMA EntryUpdated ==
    ASSUME NEW imps \in ImportTable, NEW id \in Ids, imps[id] # None,
           NEW a \in Apps, NEW p \in Refs \cup {None}
    PROVE  /\ WithApp(imps, id, a) \in ImportTable
           /\ WithApp(imps, id, a)[id] # None
           /\ WithApp(imps, id, a)[id].app = a
           /\ WithApp(imps, id, a)[id].refs = imps[id].refs
           /\ WithApp(imps, id, a)[id].promise = imps[id].promise
           /\ \A j \in Ids : j # id => WithApp(imps, id, a)[j] = imps[j]
           /\ WithPromise(imps, id, p) \in ImportTable
           /\ WithPromise(imps, id, p)[id] # None
           /\ WithPromise(imps, id, p)[id].promise = p
           /\ WithPromise(imps, id, p)[id].refs = imps[id].refs
           /\ WithPromise(imps, id, p)[id].app = imps[id].app
           /\ \A j \in Ids : j # id => WithPromise(imps, id, p)[j] = imps[j]
<1> DEFINE x == imps[id]
           y == [x EXCEPT !.app = a]
           z == [x EXCEPT !.promise = p]
<1>1. /\ y \in ImportEntry /\ y.app = a /\ y.refs = x.refs /\ y.promise = x.promise
      /\ z \in ImportEntry /\ z.app = x.app /\ z.refs = x.refs /\ z.promise = p
  <2>1. x \in ImportEntry
    BY DEF ImportTable
  <2> HIDE DEF x
  <2> QED
    BY <2>1 DEF ImportEntry, Apps
<1>2. y # None /\ z # None
  BY <1>1, NoneFacts
<1>3. WithApp(imps, id, a) = [imps EXCEPT ![id] = y]
      /\ WithPromise(imps, id, p) = [imps EXCEPT ![id] = z]
  BY DEF ImportTable, WithApp, WithPromise
<1> HIDE DEF x, y, z
<1>4. /\ [imps EXCEPT ![id] = y] \in ImportTable /\ [imps EXCEPT ![id] = y][id] = y
      /\ \A j \in Ids : j # id => [imps EXCEPT ![id] = y][j] = imps[j]
      /\ [imps EXCEPT ![id] = z] \in ImportTable /\ [imps EXCEPT ![id] = z][id] = z
      /\ \A j \in Ids : j # id => [imps EXCEPT ![id] = z][j] = imps[j]
  BY <1>1 DEF ImportTable
<1> QED
  BY <1>1, <1>2, <1>3, <1>4 DEF x

-----------------------------------------------------------------------------
(* Types and clients, one step after another *)

Basic == Tables /\ Clients

LEMMA HeadA ==
    ASSUME TypeOK, toA # <<>>
    PROVE  Head(toA) \in MessageA /\ Tail(toA) \in Seq(MessageA) /\ Shorter(toA, Tail(toA), Head(toA))
  BY ShorterByTail DEF TypeOK

\* The exporter's tables are not touched by the importer.
LEMMA ExporterStays ==
    ASSUME Tables, TypeOK', UNCHANGED exporterVars, up'["B"] = up["B"]
    PROVE  Tables'
  BY TablesStay DEF exporterVars

\* The importer's clients are not touched by the exporter, which sends a
\* reference only once.
LEMMA ImporterStays ==
    ASSUME Clients, RefsInv', UNCHANGED importerVars, up'["A"] = up["A"]
    PROVE  Clients'
  BY DEF Clients, ClientsInv, PromiseInv, KeptInv, EmbargoInv, importerVars

LEMMA UnusedStays == ASSUME UNCHANGED importerVars PROVE Unused' = Unused
  BY DEF Unused, importerVars

LEMMA RefsSame ==
    ASSUME RefsInv, toA' = toA, gives' = gives, Unused \subseteq Unused'
    PROVE  RefsInv'
  BY DEF RefsInv

LEMMA RefsLonger ==
    ASSUME RefsInv, NEW m, Longer(toA, toA', m), m.type # "Cap", gives' = gives, Unused \subseteq Unused'
    PROVE  RefsInv'
<1>1. \A i \in 1 .. Len(toA'), r \in Refs : Brings(toA'[i], r) => i \in 1 .. Len(toA) /\ toA'[i] = toA[i]
  BY DEF Longer, Brings
<1> QED
  BY <1>1 DEF RefsInv

LEMMA RefsCalls ==
    ASSUME TypeOK, RefsInv, NEW calls \in Seq(Calls), toA' = toA \o Sends(calls), gives' = gives,
           Unused \subseteq Unused'
    PROVE  RefsInv'
<1>1. \A i \in 1 .. Len(toA'), r \in Refs : Brings(toA'[i], r) => i \in 1 .. Len(toA) /\ toA'[i] = toA[i]
  <2>1. /\ Len(toA) \in Nat
        /\ \A i \in 1 .. Len(toA') : i <= Len(toA) => toA'[i] = toA[i]
        /\ \A i \in 1 .. Len(toA') : i > Len(toA) => toA'[i].type = "Call"
    BY CallsSent, TablesFacts DEF LongerBy
  <2> QED
    BY <2>1 DEF Brings
<1> QED
  BY <1>1 DEF RefsInv

LEMMA RefsGiven ==
    ASSUME TypeOK, RefsInv, NEW d, Longer(toA, toA', [type |-> "Cap", desc |-> d, ref |-> gives + 1]),
           gives' = gives + 1, gives + 1 \in Refs, Unused \subseteq Unused'
    PROVE  RefsInv'
<1> DEFINE n == Len(toA)
<1>1. n \in Nat /\ Len(toA') = n + 1 /\ \A i \in 1 .. n : toA'[i] = toA[i]
  BY DEF Longer
<1>2. \A r \in Refs : Brings(toA'[n + 1], r) => r = gives + 1
  BY DEF Longer, Brings
<1>3. gives \in Nat /\ \A r \in Refs : r \in Nat
  BY ConstantFacts DEF TypeOK
<1>4. gives + 1 \in Unused
  BY <1>3 DEF RefsInv
<1>5. \A i \in 1 .. Len(toA') : i \in 1 .. n \/ i = n + 1
  BY <1>1
<1> HIDE DEF n
<1>6. \A r \in Refs : r > gives' => r \in Unused'
  BY <1>3 DEF RefsInv
<1>7. \A i \in 1 .. Len(toA'), r \in Refs : Brings(toA'[i], r) => r <= gives' /\ r \in Unused'
  BY <1>1, <1>2, <1>3, <1>4, <1>5 DEF RefsInv, n
<1>8. \A i, j \in 1 .. Len(toA'), r \in Refs : Brings(toA'[i], r) /\ Brings(toA'[j], r) => i = j
  <2> SUFFICES ASSUME NEW i \in 1 .. Len(toA'), NEW j \in 1 .. Len(toA'), NEW r \in Refs,
                      Brings(toA'[i], r), Brings(toA'[j], r)
               PROVE  i = j
    OBVIOUS
  <2>1. i \in 1 .. n => r <= gives
    BY <1>1 DEF RefsInv, n
  <2>2. j \in 1 .. n => r <= gives
    BY <1>1 DEF RefsInv, n
  <2>3. i = n + 1 => r = gives + 1
    BY <1>2
  <2>4. j = n + 1 => r = gives + 1
    BY <1>2
  <2>5. CASE i \in 1 .. n /\ j \in 1 .. n
    BY <1>1, <2>5 DEF RefsInv, n
  <2>6. CASE i = n + 1 /\ j = n + 1
    BY <2>6
  <2> QED
    BY <1>3, <1>5, <2>1, <2>2, <2>3, <2>4, <2>5, <2>6
<1> QED
  BY <1>6, <1>7, <1>8 DEF RefsInv

LEMMA RefsShorter ==
    ASSUME TypeOK, RefsInv, toA # <<>>, toA' = Tail(toA), gives' = gives,
           \A r \in Unused : Brings(Head(toA), r) \/ r \in Unused'
    PROVE  RefsInv'
<1>1. Shorter(toA, toA', Head(toA))
  BY HeadA
<1>2. /\ Len(toA') \in Nat /\ Len(toA) = Len(toA') + 1 /\ toA[1] = Head(toA)
      /\ \A i \in 1 .. Len(toA') : i + 1 \in 1 .. Len(toA) /\ toA'[i] = toA[i + 1] /\ i + 1 # 1
      /\ 1 \in 1 .. Len(toA)
  BY <1>1 DEF Shorter
<1>3. \A r \in Refs : Brings(Head(toA), r) => r <= gives
  BY <1>2 DEF RefsInv
<1>4. gives \in Nat /\ \A r \in Refs : r \in Nat
  BY ConstantFacts DEF TypeOK
<1>5. \A r \in Refs : r > gives' => r \in Unused'
  BY <1>3, <1>4 DEF RefsInv
<1>6. \A i \in 1 .. Len(toA'), r \in Refs : Brings(toA'[i], r) => r <= gives' /\ r \in Unused'
  BY <1>2 DEF RefsInv
<1>7. \A i, j \in 1 .. Len(toA'), r \in Refs : Brings(toA'[i], r) /\ Brings(toA'[j], r) => i = j
  <2> SUFFICES ASSUME NEW i \in 1 .. Len(toA'), NEW j \in 1 .. Len(toA'), NEW r \in Refs,
                      Brings(toA'[i], r), Brings(toA'[j], r)
               PROVE  i = j
    OBVIOUS
  <2>1. i + 1 = j + 1
    BY <1>2 DEF RefsInv
  <2> QED
    BY <2>1
<1> QED
  BY <1>5, <1>6, <1>7 DEF RefsInv

\* What is on its way when disconnect closes the connection: what was, and
\* the Release of an import that was made for the message being handled.
HandsBack(out, id) ==
    /\ up["A"] /\ toA # <<>> /\ imports[id] = None /\ Carries(Head(toA), id)
    /\ out = Append(toB, Release(id, 1))
Returns(out) == out = toB \/ \E id \in Ids : HandsBack(out, id)

\* This is what handle_resolve does when it finds no promise.
LEMMA ReturnsHandedBack ==
    ASSUME TypeOK, up["A"], toA # <<>>, NEW m, m = Head(toA), m.type = "Resolve"
    PROVE  Returns(HandedBack(m))
<1>1. m \in MessageA /\ (m.desc # None => m.desc \in Desc)
  BY HeadA, MessageAFields
<1>2. CASE m.desc # None /\ m.desc.kind # "receiverHosted" /\ imports[m.desc.id] = None
  <2>1. m.desc.id \in Ids
    BY <1>1, <1>2 DEF Desc
  <2>2. HandsBack(HandedBack(m), m.desc.id)
    BY <1>2 DEF HandsBack, HandedBack, Carries, Release
  <2> QED
    BY <2>1, <2>2 DEF Returns
<1>3. CASE ~ (m.desc # None /\ m.desc.kind # "receiverHosted" /\ imports[m.desc.id] = None)
  BY <1>3 DEF Returns, HandedBack
<1> QED
  BY <1>2, <1>3

\* It is well formed.
LEMMA ReturnsType ==
    ASSUME TypeOK, NEW out, Returns(out)
    PROVE  /\ out \in Seq(MessageB)
           /\ \A id \in Ids : HandsBack(out, id) =>
                Release(id, 1) \in MessageB /\ Longer(toB, out, Release(id, 1))
<1>1. toB \in Seq(MessageB)
  BY TablesFacts
<1>2. ASSUME NEW id \in Ids, HandsBack(out, id)
      PROVE  /\ out \in Seq(MessageB)
             /\ Release(id, 1) \in MessageB /\ Longer(toB, out, Release(id, 1))
  <2> DEFINE m == Release(id, 1)
  <2>1. m \in MessageB /\ out = Append(toB, m)
    BY <1>2, BMessages DEF HandsBack, Release
  <2> HIDE DEF m
  <2>2. Longer(toB, out, m) /\ out \in Seq(MessageB)
    BY <1>1, <2>1, LongerByAppend
  <2> QED
    BY <2>1, <2>2 DEF m
<1> QED
  BY <1>1, <1>2 DEF Returns

\* disconnect keeps the importer's tables in order.
LEMMA DisconnectABasic ==
    ASSUME Basic, NEW what, what \in Faults, NEW inbox, inbox = toA \/ (toA # <<>> /\ inbox = Tail(toA)),
           NEW out, Returns(out), DisconnectA(what, inbox, out)
    PROVE  Basic' /\ ~ up'["A"] /\ up'["B"] = up["B"] /\ UNCHANGED <<held, exporterVars, made, initiated>>
<1> DEFINE hit == {c \in Refs : clients[c] # None /\ \E id \in Ids :
                    imports[id] # None /\ imports[id].promise = c}
<1>1. /\ clients' = [c \in Refs |-> IF c \in hit THEN [clients[c] EXCEPT !.cap = Broken] ELSE clients[c]]
      /\ old' = [c \in Refs |-> IF c \in hit THEN clients[c].cap ELSE old[c]]
      /\ imports' = [id \in Ids |-> IF imports[id] = None THEN None
                                      ELSE WithPromise(imports, id, None)[id]]
      /\ gate' = LiftAll /\ embargoes' = [e \in Refs |-> None]
      /\ UNCHANGED <<held, exporterVars, made, initiated>>
  <2>1. \A id \in Ids : [imports[id] EXCEPT !.promise = None] = WithPromise(imports, id, None)[id]
    BY ImporterTypes DEF WithPromise, Basic, Tables, ImportTable
  <2> QED
    BY <2>1 DEF DisconnectA
<1>2. hit \subseteq Refs /\ \A c \in hit : clients[c] # None
  OBVIOUS
<1> HIDE DEF hit
<1>3. TypeOK
  BY DEF Basic, Tables
<1>4. \A c \in Refs : clients[c] # None => clients[c] \in Client
  BY <1>3 DEF TypeOK
<1>5. \A c \in hit : /\ [clients[c] EXCEPT !.cap = Broken] \in Client
                     /\ [clients[c] EXCEPT !.cap = Broken] # None
                     /\ [clients[c] EXCEPT !.cap = Broken].cap = Broken
                     /\ clients[c].cap \in {Local, Broken} \cup Imports \cup {Gated(d) : d \in Refs}
  <2> SUFFICES ASSUME NEW c \in hit
               PROVE  /\ [clients[c] EXCEPT !.cap = Broken] \in Client
                      /\ [clients[c] EXCEPT !.cap = Broken] # None
                      /\ [clients[c] EXCEPT !.cap = Broken].cap = Broken
                      /\ clients[c].cap \in {Local, Broken} \cup Imports \cup {Gated(d) : d \in Refs}
    OBVIOUS
  <2>1. clients[c] \in Client
    BY <1>2, <1>4
  <2>2. [clients[c] EXCEPT !.cap = Broken] \in Client
    BY <2>1 DEF Client
  <2> QED
    BY <2>1, <2>2, NoneFacts DEF Client
<1>6. clients' \in ClientTable /\ old' \in OldTable
  BY <1>1, <1>2, <1>3, <1>5, ImporterTypes DEF ClientTable, OldTable
<1>7. /\ imports' \in ImportTable
      /\ \A id \in Ids : imports'[id] # None => imports[id] # None /\ imports'[id].promise = None
                                                /\ imports'[id].app = imports[id].app
  <2>1. \A id \in Ids : imports[id] # None =>
          /\ WithPromise(imports, id, None)[id] \in ImportEntry
          /\ WithPromise(imports, id, None)[id].promise = None
          /\ WithPromise(imports, id, None)[id].app = imports[id].app
    <3>1. Nothing \in Apps
      BY DEF Apps
    <3> QED
      BY <1>3, <3>1, EntryUpdated, ImporterTypes DEF ImportTable
  <2> QED
    BY <1>1, <2>1 DEF ImportTable
<1>8. gate' \in GateTable /\ \A c \in Refs : (\A e \in Refs : embargoes[e] # c) => gate'[c] = gate[c]
  <2>1. \A c \in Refs : gate[c] \in Gate /\ [gate[c] EXCEPT !.st = "failed"] \in Gate
    BY <1>3 DEF TypeOK, Gate
  <2> QED
    BY <1>1, <2>1 DEF LiftAll, GateTable
<1>9. toA' \in Seq(MessageA) /\ toB' \in Seq(MessageB) /\ toA' = inbox
  <2>1. toA' = inbox /\ toB' = Append(out, [type |-> "Abort"])
    BY DEF DisconnectA
  <2>2. inbox \in Seq(MessageA)
    BY <1>3, HeadA, TablesFacts
  <2>3. out \in Seq(MessageB) /\ [type |-> "Abort"] \in MessageB
    BY <1>3, BMessages, ReturnsType
  <2> QED
    BY <2>1, <2>2, <2>3
<1>10. up' \in [Vats -> BOOLEAN] /\ ~ up'["A"] /\ up'["B"] = up["B"] /\ fault' \in [Vats -> Faults]
  BY <1>3, ConstantFacts DEF TypeOK, DisconnectA
<1>11. embargoes' \in EmbargoTable
  BY <1>1 DEF EmbargoTable
<1>12. TypeOK'
  BY <1>1, <1>3, <1>6, <1>7, <1>8, <1>9, <1>10, <1>11
     DEF TypeOK, ImportTable, ClientTable, OldTable, GateTable, EmbargoTable, exporterVars
<1>13. Tables'
  BY <1>1, <1>10, <1>12, ExporterStays DEF Basic
<1>14. Unused \subseteq Unused'
  BY <1>1, <1>2, <1>7, <1>8, ConstantFacts DEF Unused
<1>15. RefsInv'
  <2>1. gives' = gives
    BY <1>1 DEF exporterVars
  <2> QED
    BY <1>3, <1>9, <1>14, <2>1, RefsSame, RefsShorter DEF Basic, Clients
<1>16. \A c \in Refs : /\ clients'[c] = None <=> clients[c] = None
                       /\ clients'[c] # None => clients'[c].cap \in {Broken, clients[c].cap}
  BY <1>1, <1>2, <1>5
<1>17. ClientsInv'
  <2>1. \A d : Broken # Gated(d)
    BY ClientKinds
  <2> QED
    BY <1>1, <1>16, <2>1 DEF ClientsInv, Basic, Clients
<1>18. PromiseInv'
  BY <1>7 DEF PromiseInv, Basic, Clients
<1>19. EmbargoInv'
  BY <1>1 DEF EmbargoInv
<1>20. KeptInv'
  BY <1>10 DEF KeptInv
<1> QED
  BY <1>1, <1>10, <1>13, <1>15, <1>17, <1>18, <1>19, <1>20 DEF Basic, Clients

\* Nothing but messages and the log change.
LEMMA HandleCallABasic ==
    ASSUME Basic, up["A"], toA # <<>>, HandleCallA(Head(toA))
    PROVE  /\ Basic' /\ toA' = Tail(toA) /\ Head(toA).type = "Call"
           /\ UNCHANGED <<up, toB, fault, exporterVars, importerVars, made>>
<1>1. /\ TypeOK /\ toA' = Tail(toA) /\ Head(toA).type = "Call"
      /\ UNCHANGED <<up, toB, fault, exporterVars, importerVars, made>>
      /\ initiated' = Append(initiated, Head(toA).call)
  BY DEF Basic, Tables, HandleCallA
<1>2. Tail(toA) \in Seq(MessageA) /\ Head(toA).call \in Calls
  BY <1>1, HeadA, MessageAFields
<1>3. TypeOK'
  BY <1>1, <1>2 DEF TypeOK, exporterVars, importerVars
<1>4. RefsInv'
  <2>1. \A r : ~ Brings(Head(toA), r)
    BY <1>1 DEF Brings
  <2> QED
    BY <1>1, <2>1, RefsShorter, UnusedStays DEF Basic, Clients, exporterVars
<1> QED
  BY <1>1, <1>3, <1>4, ExporterStays, ImporterStays DEF Basic

\* A step that touches the gates only, and none that an unresolved
\* PromiseClient or an unused reference has.
LEMMA GatesMove ==
    ASSUME Basic, gate' \in GateTable, embargoes' \in EmbargoTable, EmbargoInv',
           toB' = toB, toA' = toA \/ (toA # <<>> /\ toA' = Tail(toA) /\ Head(toA).type # "Cap"),
           initiated' \in Seq(Calls), UNCHANGED <<up, fault, exporterVars, held, clients, imports, old, made>>,
           \A c \in Refs : gate[c] = NoGate => gate'[c] = NoGate,
           \A e \in Refs : embargoes'[e] \in {None, embargoes[e]}
    PROVE  Basic'
<1>1. TypeOK
  BY DEF Basic, Tables
<1>2. TypeOK'
  <2>1. toA' \in Seq(MessageA)
    BY <1>1, HeadA, TablesFacts
  <2> QED
    BY <1>1, <2>1 DEF TypeOK, exporterVars, GateTable, EmbargoTable
<1>3. Unused \subseteq Unused'
  BY ConstantFacts DEF Unused
<1>4. RefsInv'
  <2>1. toA # <<>> /\ Head(toA).type # "Cap" => \A r : ~ Brings(Head(toA), r)
    BY DEF Brings
  <2> QED
    BY <1>1, <1>3, <2>1, RefsSame, RefsShorter DEF Basic, Clients, exporterVars
<1>5. ClientsInv' /\ PromiseInv' /\ KeptInv'
  <2>1. ClientsInv'
    BY DEF ClientsInv, Basic, Clients
  <2>2. PromiseInv'
    <3>1. \A id \in Ids : imports[id] # None => imports[id].promise \in Refs \cup {None}
      BY <1>1 DEF TypeOK, ImportEntry
    <3> QED
      BY <3>1 DEF PromiseInv, Basic, Clients
  <2>3. KeptInv'
    BY DEF KeptInv, Basic, Clients
  <2> QED
    BY <2>1, <2>2, <2>3
<1> QED
  BY <1>2, <1>4, <1>5, ExporterStays DEF Basic, Clients

LEMMA HandleReceiverLoopbackBasic ==
    ASSUME Basic, up["A"], toA # <<>>, HandleReceiverLoopback(Head(toA))
    PROVE  /\ Basic' /\ UNCHANGED <<exporterVars, held, made, initiated>>
           /\ \/ ~ up'["A"] /\ up'["B"] = up["B"]
              \/ UNCHANGED <<up, toB, fault, clients, imports, old>> /\ toA' = Tail(toA)
<1> DEFINE m == Head(toA)
           c == embargoes[m.embargo]
<1>1. TypeOK /\ m \in MessageA /\ m.type = "ReceiverLoopback" /\ m.embargo \in Refs
  BY HeadA, MessageAFields DEF Basic, Tables, HandleReceiverLoopback
<1>2. CASE c = None
  <2>1. DisconnectA("invalid embargo", Tail(toA), toB) /\ "invalid embargo" \in Faults
    BY <1>2 DEF HandleReceiverLoopback, Faults
  <2> QED
    BY <2>1, DisconnectABasic DEF Returns
<1>3. CASE c # None
  <2>1. /\ gate' = [gate EXCEPT ![c].st = "released"]
        /\ embargoes' = [embargoes EXCEPT ![m.embargo] = None]
        /\ toA' = Tail(toA)
        /\ UNCHANGED <<up, toB, fault, exporterVars, held, clients, imports, old, made, initiated>>
    BY <1>3 DEF HandleReceiverLoopback
  <2>2. c \in Refs /\ embargoes' \in EmbargoTable
        /\ \A e \in Refs : embargoes'[e] = IF e = m.embargo THEN None ELSE embargoes[e]
    BY <1>1, <1>3, <2>1, ImporterTypes DEF EmbargoTable
  <2>3. gate' \in GateTable /\ \A d \in Refs : d # c => gate'[d] = gate[d]
    BY <1>1, <2>1, <2>2, ImporterTypes DEF GateTable, Gate
  <2>4. gate[c].st = "embargoed" /\ gate[c] # NoGate
    BY <1>1, <1>3 DEF EmbargoInv, Basic, Clients, NoGate
  <2>5. EmbargoInv'
    <3>1. \A e \in Refs : embargoes'[e] # None => embargoes'[e] # c
      BY <1>1, <1>3, <2>2 DEF EmbargoInv, Basic, Clients
    <3> HIDE DEF c
    <3>2. \A e \in Refs : embargoes'[e] # None => embargoes'[e] = embargoes[e] /\ embargoes'[e] \in Refs
      BY <2>2 DEF EmbargoTable
    <3> QED
      BY <2>3, <3>1, <3>2 DEF EmbargoInv, Basic, Clients
  <2>6. initiated' \in Seq(Calls)
    BY <1>1, <2>1 DEF TypeOK
  <2>7. toA' = Tail(toA) /\ Head(toA).type # "Cap"
    BY <1>1, <2>1
  <2> HIDE DEF c, m
  <2> QED
    BY <2>1, <2>2, <2>3, <2>4, <2>5, <2>6, <2>7, GatesMove
<1> QED
  BY <1>2, <1>3

LEMMA DriveGateBasic ==
    ASSUME Basic, NEW c \in Refs, DriveGate(c) \/ Abandon(c)
    PROVE  /\ Basic'
           /\ UNCHANGED <<up, toA, toB, fault, exporterVars, held, clients, imports, old, made>>
<1>1. TypeOK /\ gate \in GateTable /\ gate[c] \in Gate
  BY ImporterTypes DEF Basic, Tables, GateTable
<1>2. /\ gate' \in GateTable /\ initiated' \in Seq(Calls)
      /\ \A d \in Refs : gate'[d].st = gate[d].st \/ (d = c /\ gate[c].st # "embargoed")
      /\ \A d \in Refs : gate[d] = NoGate => gate'[d] = NoGate
      /\ UNCHANGED <<up, toA, toB, fault, exporterVars, held, clients, imports, old, embargoes, made>>
  <2>1. CASE DriveGate(c)
    <3>1. /\ gate[c].calls \in Seq(Calls) /\ gate[c].calls # <<>> /\ gate[c].st \in {"released", "failed"}
          /\ initiated \in Seq(Calls)
          /\ initiated' = IF gate[c].st = "released" THEN initiated \o gate[c].calls ELSE initiated
          /\ gate' = [gate EXCEPT ![c] = [calls |-> <<>>, st |-> IF gate[c].st = "released" THEN "open" ELSE "broken"]]
          /\ UNCHANGED <<up, toA, toB, fault, exporterVars, held, clients, imports, old, embargoes, made>>
      BY <1>1, <2>1 DEF DriveGate, Gate, TypeOK, GateTable
    <3>2. initiated' \in Seq(Calls)
      BY <3>1
    <3>3. [calls |-> <<>>, st |-> IF gate[c].st = "released" THEN "open" ELSE "broken"] \in Gate
      BY DEF Gate
    <3>4. gate' \in GateTable /\ \A d \in Refs : d # c => gate'[d] = gate[d]
      BY <1>1, <3>1, <3>3 DEF GateTable
    <3>5. gate[c] # NoGate
      BY <3>1 DEF NoGate
    <3> QED
      BY <3>1, <3>2, <3>4, <3>5
  <2>2. CASE Abandon(c)
    <3>1. PICK i \in DOMAIN gate[c].calls :
              gate' = [gate EXCEPT ![c].calls = SubSeq(gate[c].calls, 1, i - 1) \o SubSeq(gate[c].calls, i + 1, Len(gate[c].calls))]
      BY <1>1, <2>2 DEF Abandon, GateTable, Gate
    <3> DEFINE s == SubSeq(gate[c].calls, 1, i - 1) \o SubSeq(gate[c].calls, i + 1, Len(gate[c].calls))
    <3>2. gate[c].calls \in Seq(Calls) /\ i \in 1 .. Len(gate[c].calls)
      BY <1>1, <3>1 DEF Gate
    <3>3. s \in Seq(Calls)
      BY <3>2
    <3>4. gate' = [gate EXCEPT ![c] = [gate[c] EXCEPT !.calls = s]]
      BY <1>1, <3>1 DEF GateTable
    <3> HIDE DEF s
    <3>5. [gate[c] EXCEPT !.calls = s] \in Gate /\ [gate[c] EXCEPT !.calls = s].st = gate[c].st
      BY <1>1, <3>3 DEF Gate
    <3>6. gate' \in GateTable /\ \A d \in Refs : (d # c => gate'[d] = gate[d]) /\ gate'[d].st = gate[d].st
      BY <1>1, <3>4, <3>5 DEF GateTable
    <3>7. gate[c] # NoGate
      <4>1. NoGate.calls = <<>>
        BY DEF NoGate
      <4> QED
        BY <3>2, <4>1
    <3>8. initiated' \in Seq(Calls)
      BY <1>1, <2>2 DEF Abandon, TypeOK
    <3> QED
      BY <2>2, <3>6, <3>7, <3>8 DEF Abandon
  <2> QED
    BY <2>1, <2>2
<1>3. EmbargoInv'
  <2>1. \A e \in Refs : embargoes[e] # None => embargoes[e] \in Refs
    BY <1>1 DEF TypeOK
  <2> QED
    BY <1>2, <2>1 DEF EmbargoInv, Basic, Clients
<1>4. embargoes' \in EmbargoTable /\ \A e \in Refs : embargoes'[e] = embargoes[e]
  BY <1>1, <1>2, ImporterTypes
<1> QED
  BY <1>2, <1>3, <1>4, GatesMove

\* Making a PromiseClient whose import it points to, and the imports already
\* there remembering what they did.
Remembers(imps, pcs, olds, gts) == \A id \in Ids : imps[id] # None =>
    /\ imps[id].app \in {Nothing, Import(id)} \cup {Promised(c) : c \in Refs}
    /\ imps[id].promise \in Refs \cup {None}
    /\ \A c \in Refs : imps[id].promise = c /\ pcs[c] # None =>
            pcs[c].cap = Import(id) /\ olds[c] = Nothing /\ gts[c] = NoGate
Held(refs, pcs) ==
    /\ \A c \in Refs : pcs[c] # None <=> \E r \in Refs : refs[r] = Promised(c)
    /\ \A c, d \in Refs : pcs[c] # None /\ pcs[c].cap = Gated(d) => d = c

LEMMA RemembersIff ==
    TypeOK => (PromiseInv <=> Remembers(imports, clients, old, gate))
<1> SUFFICES ASSUME TypeOK PROVE PromiseInv <=> Remembers(imports, clients, old, gate)
  OBVIOUS
<1>1. \A id \in Ids : imports[id] # None => imports[id].promise \in Refs \cup {None}
  BY DEF TypeOK, ImportEntry
<1>2. ASSUME PromiseInv PROVE Remembers(imports, clients, old, gate)
  BY <1>1, <1>2, ConstantFacts DEF PromiseInv, Remembers
<1>3. ASSUME Remembers(imports, clients, old, gate) PROVE PromiseInv
  BY <1>1, <1>3 DEF PromiseInv, Remembers
<1> QED
  BY <1>2, <1>3

LEMMA RemembersNext ==
    ASSUME TypeOK', NEW imps, NEW pcs, NEW olds, Remembers(imps, pcs, olds, gate'),
           clients' = pcs, old' = olds, \A id \in Ids : imports'[id] \in {None, imps[id]}
    PROVE  PromiseInv'
<1>1. \A id \in Ids : imports'[id] # None =>
        /\ imports'[id].app \in {Nothing, Import(id)} \cup {Promised(c) : c \in Refs}
        /\ imports'[id].promise \in Refs \cup {None}
        /\ \A c \in Refs : imports'[id].promise = c /\ clients'[c] # None =>
              clients'[c].cap = Import(id) /\ old'[c] = Nothing /\ gate'[c] = NoGate
  BY DEF Remembers
<1> QED
  BY <1>1 DEF PromiseInv

\* What a step that drops clients leaves: the tables refs, pcs, olds, and of
\* the imports imps those that are kept.
LEMMA CollectBasic ==
    ASSUME Basic, NEW imps \in ImportTable, NEW refs \in HeldTable, NEW pcs \in ClientTable,
           NEW olds \in OldTable, NEW ms \in Seq(MessageB),
           Collect(imps, refs, pcs, olds, ms), gate' \in GateTable, embargoes' \in EmbargoTable,
           EmbargoInv', UNCHANGED <<up, fault, exporterVars, made, initiated>>,
           toA' = toA \/ (toA # <<>> /\ toA' = Tail(toA) /\ Head(toA).type # "Cap"),
           up["A"] => \A id \in Ids : Kept(id, refs, pcs, olds) => imps[id] # None,
           Held(refs, pcs), Remembers(imps, pcs, olds, gate'),
           \A r \in Unused :
                /\ refs[r] = Nothing /\ pcs[r] = None /\ olds[r] = Nothing /\ gate'[r] = NoGate
                /\ \A e \in Refs : embargoes'[e] # r
                /\ \A id \in Ids : imps[id] # None => imps[id].promise # r
                /\ \A s \in Refs : refs[s] # Promised(r)
    PROVE  Basic'
<1>1. /\ imports' \in ImportTable /\ toB' \in Seq(MessageB)
      /\ held' = refs /\ clients' = pcs /\ old' = olds
      /\ \A id \in Ids : imports'[id] =
            IF Gone(id, imps, refs, pcs, olds) THEN None ELSE imps[id]
  BY CollectEffect
<1>2. TypeOK
  BY DEF Basic, Tables
<1>3. toA' \in Seq(MessageA)
  BY <1>2, HeadA, TablesFacts
<1>4. TypeOK'
  BY <1>1, <1>2, <1>3 DEF TypeOK, exporterVars, ImportTable, HeldTable, ClientTable, OldTable,
                          GateTable, EmbargoTable
<1>5. Unused \subseteq Unused'
  BY <1>1 DEF Unused
<1>6. RefsInv'
  <2>1. toA # <<>> /\ Head(toA).type # "Cap" => \A r : ~ Brings(Head(toA), r)
    BY DEF Brings
  <2> QED
    BY <1>2, <1>5, <2>1, RefsSame, RefsShorter DEF Basic, Clients, exporterVars
<1>7. ClientsInv'
  BY <1>1 DEF ClientsInv, Held
<1>8. PromiseInv'
  BY <1>1, <1>4, RemembersNext
<1>9. KeptInv'
  BY <1>1 DEF KeptInv, Gone
<1>10. Tables'
  BY <1>4, ExporterStays DEF Basic
<1> QED
  BY <1>6, <1>7, <1>8, <1>9, <1>10 DEF Basic, Clients

\* Nothing is lost when one client at most is dropped: what its import counted
\* is given back.
LEMMA CollectBalance ==
    ASSUME NEW imps \in ImportTable, NEW refs, NEW pcs, NEW olds, NEW ms \in Seq(MessageB),
           Collect(imps, refs, pcs, olds, ms), up["A"],
           \A id \in Ids : IsFiniteSet(Back(ms, id)),
           \A i, j \in Ids : Gone(i, imps, refs, pcs, olds) /\ Gone(j, imps, refs, pcs, olds) => i = j
    PROVE  \A id \in Ids :
             /\ IsFiniteSet(Back(toB', id))
             /\ RefsOf(imports'[id]) + Cardinality(Back(toB', id)) =
                    RefsOf(imps[id]) + Cardinality(Back(ms, id))
<1>1. /\ toB' \in Seq(MessageB)
      /\ \A id \in Ids : imports'[id] =
            IF Gone(id, imps, refs, pcs, olds) THEN None ELSE imps[id]
      /\ \/ toB' = ms /\ (up["A"] => \A id \in Ids : ~ Gone(id, imps, refs, pcs, olds))
         \/ /\ up["A"]
            /\ \E id \in Ids : /\ Gone(id, imps, refs, pcs, olds)
                               /\ imps[id].refs \in Nat \ {0}
                               /\ toB' = Append(ms, Release(id, imps[id].refs))
  BY CollectEffect
<1>2. CASE toB' = ms /\ \A id \in Ids : ~ Gone(id, imps, refs, pcs, olds)
  BY <1>1, <1>2
<1>3. ASSUME NEW g \in Ids, Gone(g, imps, refs, pcs, olds), imps[g].refs \in Nat \ {0},
             toB' = Append(ms, Release(g, imps[g].refs))
      PROVE  \A id \in Ids :
             /\ IsFiniteSet(Back(toB', id))
             /\ RefsOf(imports'[id]) + Cardinality(Back(toB', id)) =
                    RefsOf(imps[id]) + Cardinality(Back(ms, id))
  <2> DEFINE m == Release(g, imps[g].refs)
  <2>1. m \in MessageB /\ m.type = "Release" /\ m.id = g /\ m.refs = imps[g].refs
    BY <1>3, BMessages DEF Release
  <2>2. Longer(ms, toB', m)
    BY <1>3, <2>1, LongerByAppend
  <2> HIDE DEF m
  <2> SUFFICES ASSUME NEW id \in Ids
               PROVE  /\ IsFiniteSet(Back(toB', id))
                      /\ RefsOf(imports'[id]) + Cardinality(Back(toB', id)) =
                             RefsOf(imps[id]) + Cardinality(Back(ms, id))
    OBVIOUS
  <2>3. /\ IsFiniteSet(Back(toB', id))
        /\ Gives(m, id) => Cardinality(Back(toB', id)) = Cardinality(Back(ms, id)) + m.refs
        /\ ~ Gives(m, id) => Back(toB', id) = Back(ms, id)
    BY <1>1, <2>1, <2>2, BackSent
  <2>4. Cardinality(Back(ms, id)) \in Nat
    BY FS_CardinalityType
  <2>5. CASE id = g
    <3>1. Gives(m, id) /\ imports'[id] = None /\ imps[id] # None
      BY <1>1, <1>3, <2>1, <2>5 DEF Gives, Gone
    <3>2. RefsOf(imports'[id]) = 0 /\ RefsOf(imps[id]) = m.refs /\ m.refs \in Nat
      BY <1>3, <2>1, <2>5, <3>1 DEF RefsOf
    <3> QED
      BY <2>3, <2>4, <3>1, <3>2
  <2>6. CASE id # g
    <3>1. ~ Gives(m, id) /\ imports'[id] = imps[id]
      BY <1>1, <1>3, <2>1, <2>6 DEF Gives
    <3> QED
      BY <2>3, <3>1
  <2> QED
    BY <2>5, <2>6
<1> QED
  BY <1>1, <1>2, <1>3

Finite == \A id \in Ids : IsFiniteSet(Back(toB, id))
\* What the importer owes for each id is what it did before, and n more.
Owes(m) == \A id \in Ids :
    /\ IsFiniteSet(Back(toB', id))
    /\ RefsOf(imports'[id]) + Cardinality(Back(toB', id)) =
          RefsOf(imports[id]) + Cardinality(Back(toB, id)) + IF Carries(m, id) THEN 1 ELSE 0
OwesSame == \A id \in Ids :
    /\ IsFiniteSet(Back(toB', id))
    /\ RefsOf(imports'[id]) + Cardinality(Back(toB', id)) =
          RefsOf(imports[id]) + Cardinality(Back(toB, id))

LEMMA DropOldBasic ==
    ASSUME Basic, NEW c \in Refs, DropOld(c)
    PROVE  /\ Basic' /\ (Finite /\ up["A"] => OwesSame)
           /\ UNCHANGED <<up, toA, fault, exporterVars, embargoes, gate, made, initiated>>
<1> DEFINE olds == [old EXCEPT ![c] = Nothing]
<1>1. /\ TypeOK /\ Collect(imports, held, clients, olds, toB) /\ old[c] # Nothing
      /\ UNCHANGED <<up, toA, fault, exporterVars, embargoes, gate, made, initiated>>
  BY DEF DropOld, Basic, Tables
<1>2. /\ imports \in ImportTable /\ held \in HeldTable /\ clients \in ClientTable
      /\ old \in OldTable /\ gate \in GateTable /\ embargoes \in EmbargoTable /\ toB \in Seq(MessageB)
  BY <1>1, ImporterTypes, TablesFacts
<1>3. olds \in OldTable /\ \A d \in Refs : olds[d] = IF d = c THEN Nothing ELSE old[d]
  BY <1>2 DEF OldTable
<1> HIDE DEF olds
<1>4. Held(held, clients)
  BY DEF Basic, Clients, ClientsInv, Held
<1>5. Remembers(imports, clients, olds, gate)
  BY <1>1, <1>3, RemembersIff DEF Basic, Clients, Remembers
<1>6. up["A"] => \A id \in Ids : Kept(id, held, clients, olds) => imports[id] # None
  <2>1. \A id : Nothing # Import(id)
    BY ClientKinds
  <2> QED
    BY <1>3, <2>1 DEF Basic, Clients, KeptInv, Kept
<1>7. EmbargoInv'
  BY <1>1 DEF EmbargoInv, Basic, Clients
<1>8. \A r \in Unused :
        /\ held[r] = Nothing /\ clients[r] = None /\ olds[r] = Nothing /\ gate[r] = NoGate
        /\ \A e \in Refs : embargoes[e] # r
        /\ \A id \in Ids : imports[id] # None => imports[id].promise # r
        /\ \A s \in Refs : held[s] # Promised(r)
  BY <1>3 DEF Unused
<1>9. Basic'
  BY <1>1, <1>2, <1>3, <1>4, <1>5, <1>6, <1>7, <1>8, CollectBasic
<1>10. ASSUME Finite, up["A"] PROVE OwesSame
  <2>1. \A i \in Ids : Gone(i, imports, held, clients, olds) => old[c] = Import(i)
    BY <1>3, <1>10 DEF Gone, Kept, KeptInv, Basic, Clients
  <2>2. \A i, j \in Ids :
          Gone(i, imports, held, clients, olds) /\ Gone(j, imports, held, clients, olds) => i = j
    BY <2>1, ClientKinds
  <2> QED
    BY <1>1, <1>2, <1>10, <2>2, CollectBalance DEF OwesSame, Finite
<1> QED
  BY <1>1, <1>9, <1>10

LEMMA DropRefBasic ==
    ASSUME Basic, NEW r \in Refs, DropRef(r)
    PROVE  /\ Basic' /\ (Finite /\ up["A"] => OwesSame)
           /\ UNCHANGED <<up, toA, fault, exporterVars, embargoes, gate, made, initiated>>
<1> DEFINE left == [held EXCEPT ![r] = Nothing]
           pcs == Used(clients, left)
<1>1. /\ TypeOK /\ Collect(imports, left, pcs, old, toB)
      /\ UNCHANGED <<up, toA, fault, exporterVars, embargoes, gate, made, initiated>>
  BY DEF DropRef, Basic, Tables
<1>2. /\ imports \in ImportTable /\ held \in HeldTable /\ clients \in ClientTable
      /\ old \in OldTable /\ gate \in GateTable /\ embargoes \in EmbargoTable /\ toB \in Seq(MessageB)
  BY <1>1, ImporterTypes, TablesFacts
<1>3. left \in HeldTable /\ \A s \in Refs : left[s] = IF s = r THEN Nothing ELSE held[s]
  BY <1>2 DEF HeldTable
<1> HIDE DEF left
<1>4. pcs \in ClientTable
      /\ \A c \in Refs : pcs[c] = IF \E s \in Refs : left[s] = Promised(c) THEN clients[c] ELSE None
  BY <1>2 DEF ClientTable, Used
<1> HIDE DEF pcs
<1>5. \A c : Nothing # Promised(c)
  BY ClientKinds
<1>6. Held(left, pcs)
  BY <1>3, <1>4, <1>5 DEF Basic, Clients, ClientsInv, Held
<1>7. Remembers(imports, pcs, old, gate)
  BY <1>1, <1>4, RemembersIff DEF Basic, Clients, Remembers
<1>8. up["A"] => \A id \in Ids : Kept(id, left, pcs, old) => imports[id] # None
  <2>1. \A id : Nothing # Import(id)
    BY ClientKinds
  <2> QED
    BY <1>3, <1>4, <2>1 DEF Basic, Clients, KeptInv, Kept
<1>9. EmbargoInv'
  BY <1>1 DEF EmbargoInv, Basic, Clients
<1>10. \A c \in Unused :
        /\ left[c] = Nothing /\ pcs[c] = None /\ old[c] = Nothing /\ gate[c] = NoGate
        /\ \A e \in Refs : embargoes[e] # c
        /\ \A id \in Ids : imports[id] # None => imports[id].promise # c
        /\ \A s \in Refs : left[s] # Promised(c)
  BY <1>3, <1>4, <1>5 DEF Unused
<1>11. Basic'
  BY <1>1, <1>2, <1>3, <1>4, <1>6, <1>7, <1>8, <1>9, <1>10, CollectBasic
<1>12. ASSUME Finite, up["A"] PROVE OwesSame
  <2>1. ASSUME NEW i \in Ids, Gone(i, imports, left, pcs, old)
        PROVE  held[r] = Import(i) \/ \E c \in Refs : held[r] = Promised(c) /\ clients[c].cap = Import(i)
    <3>1. Kept(i, held, clients, old) /\ ~ Kept(i, left, pcs, old)
      BY <1>12, <2>1 DEF Gone, KeptInv, Basic, Clients
    <3>2. CASE \E s \in Refs : held[s] = Import(i)
      BY <1>3, <3>1, <3>2 DEF Kept
    <3>3. ASSUME NEW c \in Refs, clients[c] # None, clients[c].cap = Import(i)
          PROVE  held[r] = Promised(c)
      <4>1. pcs[c] = None
        BY <1>4, <3>1, <3>3 DEF Kept
      <4>2. \E s \in Refs : held[s] = Promised(c) /\ left[s] # Promised(c)
        BY <1>4, <3>3, <4>1 DEF ClientsInv, Basic, Clients
      <4> QED
        BY <1>3, <4>2
    <3> QED
      BY <3>1, <3>2, <3>3 DEF Kept
  <2>2. \A i, j \in Ids :
          Gone(i, imports, left, pcs, old) /\ Gone(j, imports, left, pcs, old) => i = j
    BY <2>1, ClientKinds
  <2> QED
    BY <1>1, <1>2, <1>12, <2>2, CollectBalance DEF OwesSame, Finite
<1> QED
  BY <1>1, <1>11, <1>12

\* An embargo's number is free when a PromiseClient needs one: each embargo is
\* another client's.
LEMMA EmbargoFree ==
    ASSUME Basic, NEW c \in Refs, gate[c] = NoGate
    PROVE  Lowest({x \in Refs : embargoes[x] = None}) \in {x \in Refs : embargoes[x] = None}
<1>1. embargoes \in [Refs -> Refs \cup {None}]
  BY DEF Basic, Tables, TypeOK
<1>2. {x \in Refs : embargoes[x] = None} # {}
  <2> SUFFICES ASSUME \A x \in Refs : embargoes[x] # None PROVE FALSE
    OBVIOUS
  <2>1. NoGate.st # "embargoed"
    BY DEF NoGate
  <2>2. \A x \in Refs : embargoes[x] \in Refs \ {c}
    BY <1>1, <2>1 DEF EmbargoInv, Basic, Clients
  <2>3. IsFiniteSet(Refs) /\ Cardinality(Refs) = MaxGives /\ MaxGives \in Nat
    <3>1. 1 \in Int /\ MaxGives \in Int /\ MaxGives >= 1
      BY PromiseBounds
    <3> QED
      BY <3>1, FS_Interval DEF Refs
  <2>4. IsFiniteSet(Refs \ {c}) /\ Cardinality(Refs \ {c}) = MaxGives - 1
    BY <2>3, FS_RemoveElement
  <2>5. embargoes \in [Refs -> Refs \ {c}] /\ Cardinality(Refs \ {c}) < Cardinality(Refs)
    BY <1>1, <2>2, <2>3, <2>4
  <2>6. \E x, y \in Refs : x # y /\ embargoes[x] = embargoes[y]
    BY <2>3, <2>4, <2>5, FS_PigeonHole
  <2> QED
    BY <2>2, <2>6, ConstantFacts DEF EmbargoInv, Basic, Clients
<1> QED
  BY <1>2, LowestIn, ConstantFacts

\* handle_resolve: the client a Resolve announces, and the imports once it is
\* received, and once the promise is taken.
With(m) ==
    IF m.desc = None THEN Broken
    ELSE IF m.desc.kind = "receiverHosted" THEN Local ELSE Import(m.desc.id)
Received(m) ==
    IF With(m)[1] = "import" THEN WithApp(Imported(m.desc.id), m.desc.id, With(m)) ELSE imports
Taken(m) == WithPromise(Received(m), m.id, None)

LEMMA WithKinds ==
    ASSUME NEW m \in MessageA, m.type = "Resolve"
    PROVE  /\ With(m) \in {Local, Broken} \cup Imports
           /\ With(m)[1] = "import" => m.desc \in Desc /\ m.desc.id \in Ids /\ With(m) = Import(m.desc.id)
           /\ \A id \in Ids : Carries(m, id) <=> With(m) = Import(id)
<1>1. m.desc \in Desc \cup {None}
  BY MessageAFields
<1>2. CASE m.desc = None
  BY <1>2, ClientKinds DEF With, Carries
<1>3. CASE m.desc \in Desc /\ m.desc # None
  <2>1. m.desc.id \in Ids
    BY <1>3 DEF Desc
  <2>2. CASE m.desc.kind = "receiverHosted"
    BY <1>3, <2>2, ClientKinds DEF With, Carries
  <2>3. CASE m.desc.kind # "receiverHosted"
    <3>1. With(m) = Import(m.desc.id)
      BY <1>3, <2>3 DEF With
    <3>2. \A id \in Ids : Carries(m, id) <=> m.desc.id = id
      BY <1>3, <2>3 DEF Carries
    <3>3. \A id, j : Import(id) = Import(j) => id = j
      BY ClientKinds
    <3> QED
      BY <1>3, <2>1, <3>1, <3>2, <3>3 DEF Imports
  <2> QED
    BY <2>2, <2>3
<1> QED
  BY <1>1, <1>2, <1>3

LEMMA ReceivedFacts ==
    ASSUME TypeOK, NEW m \in MessageA, m.type = "Resolve"
    PROVE  /\ Received(m) \in ImportTable
           /\ \A id \in Ids : Received(m)[id] # None <=> imports[id] # None \/ With(m) = Import(id)
           /\ \A id \in Ids : Received(m)[id] # None => Received(m)[id].promise =
                IF imports[id] = None THEN None ELSE imports[id].promise
           /\ \A id \in Ids : Received(m)[id] # None => Received(m)[id].app = Import(id) \/
                (imports[id] # None /\ Received(m)[id].app = imports[id].app)
           /\ \A id \in Ids : RefsOf(Received(m)[id]) = Count(id) + IF Carries(m, id) THEN 1 ELSE 0
           /\ \A id \in Ids : ~ Carries(m, id) => Received(m)[id] = imports[id]
<1>1. /\ imports \in ImportTable
      /\ \A id \in Ids : imports[id] # None => imports[id].refs \in Nat
  BY ImporterTypes DEF ImportTable, ImportEntry
<1>2. /\ With(m)[1] = "import" => m.desc.id \in Ids /\ With(m) = Import(m.desc.id)
      /\ \A id \in Ids : Carries(m, id) <=> With(m) = Import(id)
      /\ \A id : Import(id)[1] = "import" /\ Import(id)[2] = id
  BY WithKinds, ClientKinds
<1>3. CASE With(m)[1] = "import"
  <2> DEFINE j == m.desc.id
             imps == Imported(j)
             new == WithApp(imps, j, Import(j))
  <2>1. j \in Ids /\ With(m) = Import(j) /\ Received(m) = new
    BY <1>2, <1>3 DEF Received
  <2>2. /\ imps \in ImportTable /\ imps[j] \in ImportEntry
        /\ imps[j] # None
        /\ imps[j].refs = Count(j) + 1 /\ Count(j) \in Nat
        /\ imps[j].promise = IF imports[j] = None THEN None ELSE imports[j].promise
        /\ \A i \in Ids : i # j => imps[i] = imports[i]
    BY <1>1, <2>1, ImportedFacts
  <2>3. Import(j) \in Apps /\ None \in Refs \cup {None}
    BY <2>1 DEF Apps, Imports
  <2>4. /\ new \in ImportTable /\ new[j] # None /\ new[j].app = Import(j)
        /\ new[j].refs = imps[j].refs /\ new[j].promise = imps[j].promise
        /\ \A i \in Ids : i # j => new[i] = imps[i]
    <3> HIDE DEF imps, j
    <3> QED
      BY <2>1, <2>2, <2>3, EntryUpdated
  <2>5. \A id \in Ids : With(m) = Import(id) <=> id = j
    BY <1>2, <2>1
  <2> HIDE DEF new, imps, j
  <2>6. \A id \in Ids : id # j => new[id] = imports[id]
    BY <2>2, <2>4
  <2>7. /\ new[j] # None /\ new[j].app = Import(j) /\ new[j].refs = Count(j) + 1
        /\ new[j].promise = IF imports[j] = None THEN None ELSE imports[j].promise
    BY <2>2, <2>4
  <2>8. \A id \in Ids : Count(id) = RefsOf(imports[id]) /\ Count(id) \in Nat
    BY <1>1 DEF Count, RefsOf
  <2>9. RefsOf(new[j]) = Count(j) + 1
    BY <2>7 DEF RefsOf
  <2>10. \A id \in Ids : RefsOf(new[id]) = Count(id) + IF Carries(m, id) THEN 1 ELSE 0
    BY <1>2, <2>5, <2>6, <2>8, <2>9
  <2>11. \A id \in Ids : new[id] # None <=> imports[id] # None \/ With(m) = Import(id)
    BY <2>5, <2>6, <2>7
  <2>12. \A id \in Ids : new[id] # None =>
           /\ new[id].promise = IF imports[id] = None THEN None ELSE imports[id].promise
           /\ new[id].app = Import(id) \/ (imports[id] # None /\ new[id].app = imports[id].app)
    BY <2>6, <2>7
  <2> QED
    BY <1>2, <2>1, <2>4, <2>5, <2>6, <2>10, <2>11, <2>12
<1>4. CASE With(m)[1] # "import"
  <2>1. Received(m) = imports /\ \A id \in Ids : With(m) # Import(id) /\ ~ Carries(m, id)
    BY <1>2, <1>4 DEF Received
  <2>2. \A id \in Ids : RefsOf(imports[id]) = Count(id) /\ Count(id) + 0 = Count(id)
    BY <1>1 DEF RefsOf, Count
  <2> QED
    BY <1>1, <2>1, <2>2
<1> QED
  BY <1>3, <1>4

LEMMA TakenFacts ==
    ASSUME TypeOK, NEW m \in MessageA, m.type = "Resolve", Received(m)[m.id] # None
    PROVE  /\ Taken(m) \in ImportTable
           /\ \A id \in Ids : Taken(m)[id] # None <=> Received(m)[id] # None
           /\ \A id \in Ids : RefsOf(Taken(m)[id]) = RefsOf(Received(m)[id])
           /\ \A id \in Ids : Taken(m)[id] # None =>
                /\ Taken(m)[id].app = Received(m)[id].app
                /\ Taken(m)[id].promise = IF id = m.id THEN None ELSE Received(m)[id].promise
<1>1. Received(m) \in ImportTable /\ m.id \in Ids
  BY ReceivedFacts, MessageAFields
<1>2. Nothing \in Apps /\ None \in Refs \cup {None}
  BY DEF Apps
<1>3. /\ Taken(m) \in ImportTable /\ Taken(m)[m.id] # None
      /\ Taken(m)[m.id].promise = None
      /\ Taken(m)[m.id].refs = Received(m)[m.id].refs
      /\ Taken(m)[m.id].app = Received(m)[m.id].app
      /\ \A j \in Ids : j # m.id => Taken(m)[j] = Received(m)[j]
  BY <1>1, <1>2, EntryUpdated DEF Taken
<1> QED
  BY <1>3 DEF RefsOf

LEMMA ResolveDropsBasic ==
    ASSUME Basic, up["A"], toA # <<>>, toA' = Tail(toA), NEW m, m = Head(toA), m.type = "Resolve",
           NEW imps \in ImportTable,
           \A id \in Ids : imps[id] # None <=> Received(m)[id] # None,
           \A id \in Ids : RefsOf(imps[id]) = RefsOf(Received(m)[id]),
           \A id \in Ids : imps[id] # None =>
                /\ imps[id].app = Received(m)[id].app
                /\ imps[id].promise \in {None, Received(m)[id].promise},
           Collect(imps, held, clients, old, toB),
           UNCHANGED <<up, fault, embargoes, gate, exporterVars, made, initiated>>
    PROVE  Basic' /\ (Finite => Owes(m))
<1>1. TypeOK /\ m \in MessageA
  BY HeadA DEF Basic, Tables
<1>2. /\ imports \in ImportTable /\ held \in HeldTable /\ clients \in ClientTable
      /\ old \in OldTable /\ gate \in GateTable /\ embargoes \in EmbargoTable /\ toB \in Seq(MessageB)
  BY <1>1, ImporterTypes, TablesFacts
<1>3. /\ \A id \in Ids : imps[id] # None <=> imports[id] # None \/ With(m) = Import(id)
      /\ \A id \in Ids : imps[id] # None => imps[id].promise \in
                {None, IF imports[id] = None THEN None ELSE imports[id].promise}
      /\ \A id \in Ids : imps[id] # None => imps[id].app = Import(id) \/
                (imports[id] # None /\ imps[id].app = imports[id].app)
      /\ \A id \in Ids : RefsOf(imps[id]) = Count(id) + IF Carries(m, id) THEN 1 ELSE 0
  BY <1>1, ReceivedFacts
<1>4. Held(held, clients)
  BY DEF Basic, Clients, ClientsInv, Held
<1>5. Remembers(imps, clients, old, gate)
  <2>1. Remembers(imports, clients, old, gate)
    BY <1>1, RemembersIff DEF Basic, Clients
  <2> SUFFICES ASSUME NEW id \in Ids, imps[id] # None
               PROVE  /\ imps[id].app \in {Nothing, Import(id)} \cup {Promised(c) : c \in Refs}
                      /\ imps[id].promise \in Refs \cup {None}
                      /\ \A c \in Refs : imps[id].promise = c /\ clients[c] # None =>
                            clients[c].cap = Import(id) /\ old[c] = Nothing /\ gate[c] = NoGate
    BY DEF Remembers
  <2>2. imps[id].app \in {Nothing, Import(id)} \cup {Promised(c) : c \in Refs}
    BY <1>3, <2>1 DEF Remembers
  <2>3. imps[id].promise = None \/ (imports[id] # None /\ imps[id].promise = imports[id].promise)
    BY <1>3
  <2>4. /\ imps[id].promise \in Refs \cup {None}
        /\ \A c \in Refs : imps[id].promise = c /\ clients[c] # None =>
              clients[c].cap = Import(id) /\ old[c] = Nothing /\ gate[c] = NoGate
    BY <2>1, <2>3, ConstantFacts DEF Remembers
  <2> QED
    BY <2>2, <2>4
<1>6. \A id \in Ids : Kept(id, held, clients, old) => imports[id] # None
  BY DEF Basic, Clients, KeptInv
<1>7. EmbargoInv'
  BY DEF EmbargoInv, Basic, Clients
<1>8. \A r \in Unused :
        /\ held[r] = Nothing /\ clients[r] = None /\ old[r] = Nothing /\ gate[r] = NoGate
        /\ \A e \in Refs : embargoes[e] # r
        /\ \A id \in Ids : imps[id] # None => imps[id].promise # r
        /\ \A s \in Refs : held[s] # Promised(r)
  <2>1. Unused \subseteq Refs
    BY DEF Unused
  <2> QED
    BY <1>3, <2>1, ConstantFacts DEF Unused
<1>9. \A i, j \in Ids : Gone(i, imps, held, clients, old) /\ Gone(j, imps, held, clients, old) => i = j
  <2>1. \A i \in Ids : Gone(i, imps, held, clients, old) => With(m) = Import(i)
    BY <1>3 DEF Gone, Basic, Clients, KeptInv
  <2> QED
    BY <2>1, ClientKinds
<1>10. Basic'
  <2>1. Head(toA).type # "Cap"
    OBVIOUS
  <2>2. up["A"] => \A id \in Ids : Kept(id, held, clients, old) => imps[id] # None
    BY <1>3, <1>6
  <2> QED
    BY <1>2, <1>4, <1>5, <1>7, <1>8, <2>1, <2>2, CollectBasic
<1>11. ASSUME Finite PROVE Owes(m)
  <2>1. \A id \in Ids :
             /\ IsFiniteSet(Back(toB', id))
             /\ RefsOf(imports'[id]) + Cardinality(Back(toB', id)) =
                    RefsOf(imps[id]) + Cardinality(Back(toB, id))
    BY <1>2, <1>9, <1>11, CollectBalance DEF Finite
  <2>2. \A id \in Ids : Cardinality(Back(toB, id)) \in Nat
    BY <1>11, FS_CardinalityType DEF Finite
  <2>3. \A id \in Ids : Count(id) = RefsOf(imports[id]) /\ Count(id) \in Nat
    BY <1>2, ImportedFacts DEF Count, RefsOf
  <2> QED
    BY <1>3, <2>1, <2>2, <2>3 DEF Owes
<1> QED
  BY <1>10, <1>11

\* PromiseClient::resolve after a Resolve: it keeps what it pointed to until
\* a task drops that, so no import is dropped, and an embargo has a number.
LEMMA ResolveClientBasic ==
    ASSUME Basic, up["A"], toA # <<>>, toA' = Tail(toA), NEW m, m = Head(toA), m.type = "Resolve",
           NEW c, c = Received(m)[m.id].promise, c # None, Received(m)[m.id] # None,
           clients[c] # None,
           ResolveClient(c, With(m), Taken(m)),
           UNCHANGED <<up, fault, exporterVars, made, initiated>>
    PROVE  Basic' /\ (Finite => Owes(m))
<1> DEFINE e == Lowest({x \in Refs : embargoes[x] = None})
           embargo == NeedsEmbargo(c, With(m))
           cap == IF embargo THEN Gated(c) ELSE With(m)
           pcs == [clients EXCEPT ![c].cap = cap]
           olds == [old EXCEPT ![c] = clients[c].cap]
           ms == IF embargo THEN Append(toB, Disembargo(c, e)) ELSE toB
           imps == Taken(m)
<1>1. /\ TypeOK /\ m \in MessageA /\ m.id \in Ids
      /\ embargoes' = IF embargo THEN [embargoes EXCEPT ![e] = c] ELSE embargoes
      /\ gate' = IF embargo THEN [gate EXCEPT ![c].st = "embargoed"] ELSE gate
      /\ Collect(imps, held, pcs, olds, ms)
  BY HeadA, MessageAFields DEF Basic, Tables, ResolveClient
<1>2. /\ imports \in ImportTable /\ held \in HeldTable /\ clients \in ClientTable
      /\ old \in OldTable /\ gate \in GateTable /\ embargoes \in EmbargoTable /\ toB \in Seq(MessageB)
  BY <1>1, ImporterTypes, TablesFacts
<1>3. /\ imports[m.id] # None /\ c = imports[m.id].promise /\ c \in Refs
  <2>1. imports[m.id] # None /\ c = imports[m.id].promise
    BY <1>1, ReceivedFacts
  <2> QED
    BY <1>1, <1>2, <2>1 DEF ImportTable, ImportEntry
<1>4. clients[c].cap = Import(m.id) /\ old[c] = Nothing /\ gate[c] = NoGate /\ clients[c] \in Client
  <2>1. clients[c].cap = Import(m.id) /\ old[c] = Nothing /\ gate[c] = NoGate
    BY <1>1, <1>3 DEF PromiseInv, Basic, Clients
  <2> QED
    BY <1>2, <1>3, <2>1 DEF ClientTable
<1>5. e \in Refs /\ embargoes[e] = None
  BY <1>3, <1>4, EmbargoFree
<1>6. /\ imps \in ImportTable
      /\ \A id \in Ids : imps[id] # None <=> imports[id] # None \/ With(m) = Import(id)
      /\ \A id \in Ids : imps[id] # None => imps[id].promise =
                IF id = m.id \/ imports[id] = None THEN None ELSE imports[id].promise
      /\ \A id \in Ids : imps[id] # None => imps[id].app = Import(id) \/
                (imports[id] # None /\ imps[id].app = imports[id].app)
      /\ \A id \in Ids : RefsOf(imps[id]) = Count(id) + IF Carries(m, id) THEN 1 ELSE 0
  <2>1. /\ \A id \in Ids : Received(m)[id] # None <=> imports[id] # None \/ With(m) = Import(id)
        /\ \A id \in Ids : Received(m)[id] # None => Received(m)[id].promise =
                IF imports[id] = None THEN None ELSE imports[id].promise
        /\ \A id \in Ids : Received(m)[id] # None => Received(m)[id].app = Import(id) \/
                (imports[id] # None /\ Received(m)[id].app = imports[id].app)
        /\ \A id \in Ids : RefsOf(Received(m)[id]) = Count(id) + IF Carries(m, id) THEN 1 ELSE 0
    BY <1>1, ReceivedFacts
  <2>2. /\ imps \in ImportTable
        /\ \A id \in Ids : imps[id] # None <=> Received(m)[id] # None
        /\ \A id \in Ids : RefsOf(imps[id]) = RefsOf(Received(m)[id])
        /\ \A id \in Ids : imps[id] # None =>
                /\ imps[id].app = Received(m)[id].app
                /\ imps[id].promise = IF id = m.id THEN None ELSE Received(m)[id].promise
    BY <1>1, TakenFacts
  <2> HIDE DEF imps
  <2> QED
    BY <2>1, <2>2
<1>7. /\ With(m) \in {Local, Broken} \cup Imports
      /\ \A id \in Ids : Carries(m, id) <=> With(m) = Import(id)
  BY <1>1, WithKinds
<1>8. ms \in Seq(MessageB) /\ (embargo => Longer(toB, ms, Disembargo(c, e)))
      /\ Disembargo(c, e) \in MessageB /\ Disembargo(c, e).type = "SenderLoopback"
  <2>1. Disembargo(c, e) \in MessageB /\ Disembargo(c, e).type = "SenderLoopback"
    <3>1. clients[c].cap[2] = m.id
      BY <1>4, ClientKinds
    <3>2. Disembargo(c, e) = [type |-> "SenderLoopback", embargo |-> e, id |-> m.id]
      BY <3>1 DEF Disembargo
    <3>3. m.id \in Ids /\ e \in Refs
      BY <1>1, <1>5
    <3> HIDE DEF e
    <3>4. [type |-> "SenderLoopback", embargo |-> e, id |-> m.id] \in MessageB
      BY <3>3, BMessages
    <3>5. [type |-> "SenderLoopback", embargo |-> e, id |-> m.id].type = "SenderLoopback"
      OBVIOUS
    <3> QED
      BY <3>2, <3>4, <3>5
  <2> QED
    BY <1>2, <2>1, LongerByAppend
<1>9. /\ pcs \in ClientTable /\ pcs[c] # None /\ pcs[c].cap = cap
      /\ \A d \in Refs : d # c => pcs[d] = clients[d]
  <2>1. cap \in {Local, Broken} \cup Imports \cup {Gated(d) : d \in Refs}
    BY <1>3, <1>7
  <2> HIDE DEF cap
  <2>2. [clients[c] EXCEPT !.cap = cap] \in Client /\ [clients[c] EXCEPT !.cap = cap].cap = cap
    BY <1>4, <2>1 DEF Client
  <2>3. [clients[c] EXCEPT !.cap = cap] # None
    BY <2>2, NoneFacts
  <2> QED
    BY <1>2, <1>3, <2>2, <2>3 DEF ClientTable
<1>10. /\ olds \in OldTable /\ olds[c] = Import(m.id)
       /\ \A d \in Refs : d # c => olds[d] = old[d]
  BY <1>1, <1>2, <1>3, <1>4 DEF OldTable, Imports
<1>11. /\ gate' \in GateTable
       /\ \A d \in Refs : gate'[d] = gate[d] \/ (d = c /\ embargo)
       /\ embargo => gate'[c].st = "embargoed"
  <2>1. \A d \in Refs : gate[d] \in Gate
    BY <1>2 DEF GateTable
  <2>2. [gate[c] EXCEPT !.st = "embargoed"] \in Gate /\ [gate[c] EXCEPT !.st = "embargoed"].st = "embargoed"
    BY <1>3, <2>1 DEF Gate
  <2> HIDE DEF embargo
  <2> QED
    BY <1>1, <1>2, <1>3, <2>1, <2>2 DEF GateTable
<1>12. embargoes' \in EmbargoTable
       /\ \A x \in Refs : embargoes'[x] = IF embargo /\ x = e THEN c ELSE embargoes[x]
  <2> HIDE DEF embargo, e
  <2> QED
    BY <1>1, <1>2, <1>3, <1>5 DEF EmbargoTable
<1> HIDE DEF e, embargo, pcs, olds, ms, imps
<1>13. EmbargoInv'
  <2>1. NoGate.st # "embargoed"
    BY DEF NoGate
  <2>2. \A x \in Refs : embargoes[x] # c
    BY <1>3, <1>4, <2>1, ConstantFacts DEF EmbargoInv, Basic, Clients
  <2>3. \A x \in Refs : embargoes[x] # None => embargoes[x] \in Refs /\ embargoes[x] # c
    BY <1>2, <2>2 DEF EmbargoTable
  <2>4. \A x, y \in Refs : embargoes'[x] # None /\ embargoes'[x] = embargoes'[y] => x = y
    BY <1>12, <2>3 DEF EmbargoInv, Basic, Clients
  <2>5. \A x \in Refs : embargoes'[x] # None => gate'[embargoes'[x]].st = "embargoed"
    BY <1>3, <1>11, <1>12, <2>3 DEF EmbargoInv, Basic, Clients
  <2> QED
    BY <2>4, <2>5 DEF EmbargoInv
<1>14. Held(held, pcs)
  <2>1. \A d : With(m) # Gated(d)
    BY <1>7, ClientKinds DEF Imports
  <2>2. \A d : cap = Gated(d) => d = c
    BY <2>1, ClientKinds DEF embargo
  <2> HIDE DEF cap
  <2> QED
    BY <1>3, <1>9, <2>2 DEF Basic, Clients, ClientsInv, Held
<1>15. Remembers(imps, pcs, olds, gate')
  <2>1. Remembers(imports, clients, old, gate)
    BY <1>1, RemembersIff DEF Basic, Clients
  <2> SUFFICES ASSUME NEW id \in Ids, imps[id] # None
               PROVE  /\ imps[id].app \in {Nothing, Import(id)} \cup {Promised(d) : d \in Refs}
                      /\ imps[id].promise \in Refs \cup {None}
                      /\ \A d \in Refs : imps[id].promise = d /\ pcs[d] # None =>
                            pcs[d].cap = Import(id) /\ olds[d] = Nothing /\ gate'[d] = NoGate
    BY DEF Remembers
  <2>2. imps[id].app \in {Nothing, Import(id)} \cup {Promised(d) : d \in Refs}
    BY <1>6, <2>1 DEF Remembers
  <2>3. imps[id].promise = None \/
           (id # m.id /\ imports[id] # None /\ imps[id].promise = imports[id].promise)
    BY <1>6
  <2>4. imps[id].promise # c
    <3>1. imports[id] # None /\ imports[id].promise = c => clients[c].cap = Import(id)
      BY <1>3, <2>1 DEF Remembers
    <3>2. Import(id) = Import(m.id) => id = m.id
      BY ClientKinds
    <3> QED
      BY <1>4, <2>3, <3>1, <3>2
  <2>5. imps[id].promise \in Refs \cup {None}
    BY <2>1, <2>3 DEF Remembers
  <2>6. ASSUME NEW d \in Refs, imps[id].promise = d, pcs[d] # None
        PROVE  pcs[d].cap = Import(id) /\ olds[d] = Nothing /\ gate'[d] = NoGate
    <3>1. d # c /\ pcs[d] = clients[d] /\ olds[d] = old[d] /\ gate'[d] = gate[d]
      BY <1>9, <1>10, <1>11, <2>4, <2>6
    <3>2. imports[id] # None /\ imports[id].promise = d
      BY <2>3, <2>6, ConstantFacts
    <3> QED
      BY <2>1, <2>6, <3>1, <3>2 DEF Remembers
  <2> QED
    BY <2>2, <2>5, <2>6
<1>16. \A id \in Ids : Kept(id, held, pcs, olds) => imps[id] # None
  <2> SUFFICES ASSUME NEW id \in Ids, Kept(id, held, pcs, olds) PROVE imps[id] # None
    OBVIOUS
  <2>1. cap = Import(id) => With(m) = Import(id)
    BY ClientKinds
  <2>2. Import(m.id) = Import(id) => imports[id] # None
    BY <1>3, ClientKinds
  <2> HIDE DEF cap
  <2>3. Kept(id, held, clients, old) \/ With(m) = Import(id) \/ imports[id] # None
    BY <1>9, <1>10, <2>1, <2>2 DEF Kept
  <2> QED
    BY <1>6, <2>3 DEF Basic, Clients, KeptInv
<1>17. \A id \in Ids : ~ Gone(id, imps, held, pcs, olds)
  <2> SUFFICES ASSUME NEW id \in Ids, imps[id] # None PROVE Kept(id, held, pcs, olds)
    BY DEF Gone
  <2>1. With(m) = Import(id) => ~ embargo
    BY ClientKinds DEF embargo, NeedsEmbargo
  <2>2. CASE With(m) = Import(id)
    BY <1>3, <1>9, <2>1, <2>2 DEF Kept
  <2>3. CASE imports[id] # None
    <3>1. Kept(id, held, clients, old)
      BY <2>3 DEF Basic, Clients, KeptInv
    <3>2. clients[c].cap = olds[c]
      BY <1>4, <1>10
    <3>3. Nothing # Import(id)
      BY ClientKinds
    <3> QED
      BY <1>3, <1>4, <1>9, <1>10, <3>1, <3>2, <3>3 DEF Kept
  <2> QED
    BY <1>6, <2>2, <2>3
<1>18. \A r \in Unused :
        /\ held[r] = Nothing /\ pcs[r] = None /\ olds[r] = Nothing /\ gate'[r] = NoGate
        /\ \A x \in Refs : embargoes'[x] # r
        /\ \A id \in Ids : imps[id] # None => imps[id].promise # r
        /\ \A s \in Refs : held[s] # Promised(r)
  <2> SUFFICES ASSUME NEW r \in Unused
               PROVE  /\ held[r] = Nothing /\ pcs[r] = None /\ olds[r] = Nothing /\ gate'[r] = NoGate
                      /\ \A x \in Refs : embargoes'[x] # r
                      /\ \A id \in Ids : imps[id] # None => imps[id].promise # r
                      /\ \A s \in Refs : held[s] # Promised(r)
    OBVIOUS
  <2>1. r \in Refs /\ r # c
    BY DEF Unused
  <2>2. pcs[r] = None /\ olds[r] = Nothing /\ gate'[r] = NoGate /\ held[r] = Nothing
    BY <1>9, <1>10, <1>11, <2>1 DEF Unused
  <2>3. \A x \in Refs : embargoes'[x] # r
    BY <1>12, <2>1 DEF Unused
  <2>4. \A id \in Ids : imps[id] # None => imps[id].promise # r
    BY <1>6, <2>1, ConstantFacts DEF Unused
  <2> QED
    BY <2>2, <2>3, <2>4 DEF Unused
<1>19. Basic'
  <2>1. Head(toA).type # "Cap"
    OBVIOUS
  <2> QED
    <3>1. Collect(imps, held, pcs, olds, ms)
      BY <1>1
    <3>2. imps \in ImportTable /\ pcs \in ClientTable /\ olds \in OldTable /\ ms \in Seq(MessageB)
          /\ held \in HeldTable /\ gate' \in GateTable /\ embargoes' \in EmbargoTable
      BY <1>2, <1>6, <1>8, <1>9, <1>10, <1>11, <1>12
    <3>3. up["A"] => \A id \in Ids : Kept(id, held, pcs, olds) => imps[id] # None
      BY <1>16
    <3> QED
      BY <1>13, <1>14, <1>15, <1>18, <2>1, <3>1, <3>2, <3>3, CollectBasic
<1>20. ASSUME Finite PROVE Owes(m)
  <2>1. \A id \in Ids : IsFiniteSet(Back(ms, id)) /\ Back(ms, id) = Back(toB, id)
    <3>1. \A id : ~ Gives(Disembargo(c, e), id)
      BY <1>8 DEF Gives
    <3> QED
      <4>1. CASE embargo
        BY <1>2, <1>8, <1>20, <3>1, <4>1, BackSent DEF Finite
      <4>2. CASE ~ embargo
        BY <1>20, <4>2 DEF Finite, ms
      <4> QED
        BY <4>1, <4>2
  <2>2. \A id \in Ids :
             /\ IsFiniteSet(Back(toB', id))
             /\ RefsOf(imports'[id]) + Cardinality(Back(toB', id)) =
                    RefsOf(imps[id]) + Cardinality(Back(ms, id))
    BY <1>1, <1>6, <1>8, <1>17, <2>1, CollectBalance
  <2>3. \A id \in Ids : Cardinality(Back(toB, id)) \in Nat
    BY <1>20, FS_CardinalityType DEF Finite
  <2>4. \A id \in Ids : Count(id) = RefsOf(imports[id]) /\ Count(id) \in Nat
    BY <1>2, ImportedFacts DEF Count, RefsOf
  <2> QED
    BY <1>6, <2>1, <2>2, <2>3, <2>4 DEF Owes
<1> QED
  BY <1>19, <1>20

\* What handling a message of the importer's leaves: its own connection, if it
\* finds no error.
LEMMA HandleResolveBasic ==
    ASSUME Basic, up["A"], toA # <<>>, HandleResolve(Head(toA))
    PROVE  /\ Basic' /\ UNCHANGED <<exporterVars, held, made, initiated>>
           /\ \/ ~ up'["A"] /\ up'["B"] = up["B"]
              \/ UNCHANGED <<up, fault>> /\ toA' = Tail(toA) /\ (Finite => Owes(Head(toA)))
<1> DEFINE m == Head(toA)
           c == Received(m)[m.id].promise
<1>1. TypeOK /\ m \in MessageA /\ m.type = "Resolve" /\ m.id \in Ids
      /\ UNCHANGED <<made, initiated>>
  BY HeadA, MessageAFields DEF Basic, Tables, HandleResolve
<1>2. \/ /\ Received(m)[m.id] = None
         /\ Collect(Received(m), held, clients, old, toB)
         /\ UNCHANGED <<up, fault, embargoes, gate, exporterVars>>
         /\ toA' = Tail(toA)
      \/ /\ Received(m)[m.id] # None /\ c = None
         /\ DisconnectA("not a promise", Tail(toA), HandedBack(m))
      \/ /\ Received(m)[m.id] # None /\ c # None /\ clients[c] = None
         /\ Collect(Taken(m), held, clients, old, toB)
         /\ UNCHANGED <<up, fault, embargoes, gate, exporterVars>>
         /\ toA' = Tail(toA)
      \/ /\ Received(m)[m.id] # None /\ c # None /\ clients[c] # None
         /\ ResolveClient(c, With(m), Taken(m))
         /\ UNCHANGED <<up, fault, exporterVars>>
         /\ toA' = Tail(toA)
  BY DEF HandleResolve, Received, With, Taken, WithApp, WithPromise
<1>3. Received(m) \in ImportTable
  BY <1>1, ReceivedFacts
<1>4. \A imps, ms : Collect(imps, held, clients, old, ms) => held' = held
  BY DEF Collect
<1>5. CASE /\ Received(m)[m.id] = None
           /\ Collect(Received(m), held, clients, old, toB)
           /\ UNCHANGED <<up, fault, embargoes, gate, exporterVars>>
           /\ toA' = Tail(toA)
  BY <1>1, <1>3, <1>4, <1>5, ResolveDropsBasic
<1>6. CASE /\ Received(m)[m.id] # None /\ c = None
           /\ DisconnectA("not a promise", Tail(toA), HandedBack(m))
  <2>1. "not a promise" \in Faults
    BY DEF Faults
  <2> QED
    BY <1>1, <1>6, <2>1, DisconnectABasic, ReturnsHandedBack
<1>7. CASE /\ Received(m)[m.id] # None /\ c # None /\ clients[c] = None
           /\ Collect(Taken(m), held, clients, old, toB)
           /\ UNCHANGED <<up, fault, embargoes, gate, exporterVars>>
           /\ toA' = Tail(toA)
  <2>1. /\ Taken(m) \in ImportTable
        /\ \A id \in Ids : Taken(m)[id] # None <=> Received(m)[id] # None
        /\ \A id \in Ids : RefsOf(Taken(m)[id]) = RefsOf(Received(m)[id])
        /\ \A id \in Ids : Taken(m)[id] # None =>
             /\ Taken(m)[id].app = Received(m)[id].app
             /\ Taken(m)[id].promise \in {None, Received(m)[id].promise}
    BY <1>1, <1>7, TakenFacts
  <2> QED
    BY <1>1, <1>4, <1>7, <2>1, ResolveDropsBasic
<1>8. CASE /\ Received(m)[m.id] # None /\ c # None /\ clients[c] # None
           /\ ResolveClient(c, With(m), Taken(m))
           /\ UNCHANGED <<up, fault, exporterVars>>
           /\ toA' = Tail(toA)
  <2>1. held' = held
    BY <1>8 DEF ResolveClient, Collect
  <2> QED
    BY <1>1, <1>8, <2>1, ResolveClientBasic
<1> QED
  BY <1>2, <1>5, <1>6, <1>7, <1>8

LEMMA LosesBasic ==
    ASSUME Basic, LoseA \/ (toA # <<>> /\ HandleAbortA(Head(toA)))
    PROVE  /\ Basic' /\ UNCHANGED <<exporterVars, held, made, initiated>>
           /\ ~ up'["A"] /\ up'["B"] = up["B"]
<1>1. fault["A"] \in Faults
  BY ConstantFacts DEF Basic, Tables, TypeOK
<1>2. CASE LoseA
  <2>1. DisconnectA(fault["A"], toA, toB)
    BY <1>2 DEF LoseA
  <2> QED
    BY <1>1, <2>1, DisconnectABasic DEF Returns
<1>3. CASE toA # <<>> /\ HandleAbortA(Head(toA))
  <2>1. DisconnectA(fault["A"], Tail(toA), toB)
    BY <1>3 DEF HandleAbortA
  <2> QED
    BY <1>1, <1>3, <2>1, DisconnectABasic DEF Returns
<1> QED
  BY <1>2, <1>3

\* receive_cap of a descriptor for import id: h is what the application is
\* given, and fresh says that it is a new PromiseClient.
LEMMA ImportReceived ==
    ASSUME Basic, up["A"], toA # <<>>, NEW m, m = Head(toA), m.type = "Cap",
           NEW id \in Ids, On(m.desc, id), NEW r, r = m.ref,
           NEW fresh \in BOOLEAN, NEW h,
           fresh => h = Promised(r),
           ~ fresh => h \in {Nothing, Import(id)} \cup {Promised(c) : c \in {c \in Refs : clients[c] # None}},
           held' = [held EXCEPT ![r] = h],
           clients' = IF fresh THEN [clients EXCEPT ![r] = [cap |-> Import(id), called |-> FALSE]] ELSE clients,
           imports' \in ImportTable, imports'[id] # None, \A j \in Ids : j # id => imports'[j] = imports[j],
           RefsOf(imports'[id]) = Count(id) + 1,
           imports'[id].app \in {Import(id), Promised(r)} \/
                (imports[id] # None /\ imports'[id].app = imports[id].app),
           imports'[id].promise = IF fresh THEN r ELSE IF imports[id] = None THEN None ELSE imports[id].promise,
           fresh \/ h = Import(id) \/ imports[id] # None,
           fault' \in [Vats -> Faults], toA' = Tail(toA),
           UNCHANGED <<up, toB, exporterVars, old, embargoes, gate, made, initiated>>
    PROVE  Basic' /\ (Finite => Owes(m))
<1>1. /\ TypeOK /\ m \in MessageA /\ Tail(toA) \in Seq(MessageA) /\ r \in Refs
      /\ Shorter(toA, Tail(toA), m)
  BY HeadA, MessageAFields DEF Basic, Tables
<1>2. /\ imports \in ImportTable /\ held \in HeldTable /\ clients \in ClientTable
      /\ old \in OldTable /\ gate \in GateTable /\ embargoes \in EmbargoTable
  BY <1>1, ImporterTypes
<1>3. r \in Unused
  <2>1. 1 \in 1 .. Len(toA) /\ toA[1] = m
    BY <1>1 DEF Shorter
  <2> QED
    BY <1>1, <2>1 DEF RefsInv, Brings, Basic, Clients
<1>4. /\ h \in {Nothing, Local} \cup Imports \cup {Promised(c) : c \in Refs}
      /\ held' \in HeldTable /\ held'[r] = h /\ \A s \in Refs : s # r => held'[s] = held[s]
  <2>1. h \in {Nothing, Local} \cup Imports \cup {Promised(c) : c \in Refs}
    BY <1>1 DEF Imports
  <2> QED
    BY <1>1, <1>2, <2>1 DEF HeldTable
<1>5. /\ clients' \in ClientTable /\ \A c \in Refs : c # r => clients'[c] = clients[c]
      /\ fresh => clients'[r] # None /\ clients'[r].cap = Import(id)
      /\ ~ fresh => clients'[r] = None
  <2> DEFINE new == [cap |-> Import(id), called |-> FALSE]
  <2>1. new \in Client /\ new.cap = Import(id)
    BY DEF Client, Imports
  <2>2. new # None
    BY <2>1, NoneFacts
  <2>3. clients[r] = None
    BY <1>3 DEF Unused
  <2>4. clients' = IF fresh THEN [clients EXCEPT ![r] = new] ELSE clients
    OBVIOUS
  <2> HIDE DEF new
  <2> QED
    BY <1>1, <1>2, <2>1, <2>2, <2>3, <2>4 DEF ClientTable
<1>6. TypeOK'
  BY <1>1, <1>2, <1>4, <1>5 DEF TypeOK, exporterVars, ImportTable, HeldTable, ClientTable,
     OldTable, GateTable, EmbargoTable
<1>7. Tables'
  BY <1>6, ExporterStays DEF Basic
<1>8. \A c \in Refs : h = Promised(c) /\ c # r => clients[c] # None
  <2>1. \A c : Promised(c) # Nothing /\ Promised(c) # Import(id)
    BY ClientKinds
  <2>2. \A c, d : Promised(c) = Promised(d) => c = d
    BY ClientKinds
  <2> QED
    BY <2>1, <2>2
<1>9. \A s \in Unused : Brings(m, s) \/ s \in Unused'
  <2> SUFFICES ASSUME NEW s \in Unused, s # r PROVE s \in Unused'
    BY DEF Brings
  <2>1. s \in Refs /\ held'[s] = Nothing /\ clients'[s] = None /\ old'[s] = Nothing /\ gate'[s] = NoGate
    BY <1>4, <1>5 DEF Unused
  <2>2. \A e \in Refs : embargoes'[e] # s
    BY DEF Unused
  <2>3. \A j \in Ids : imports'[j] # None => imports'[j].promise # s
    BY <2>1, ConstantFacts DEF Unused
  <2>4. \A x \in Refs : held'[x] # Promised(s)
    <3>1. \A x \in Refs : held[x] # Promised(s)
      BY DEF Unused
    <3>2. h # Promised(s)
      <4>1. clients[s] = None
        BY DEF Unused
      <4> QED
        BY <1>8, <2>1, <4>1
    <3> QED
      BY <1>4, <3>1, <3>2
  <2> QED
    BY <2>1, <2>2, <2>3, <2>4 DEF Unused
<1>10. RefsInv'
  BY <1>1, <1>9, RefsShorter DEF Basic, Clients, exporterVars
<1>11. ClientsInv'
  <2>1. \A c, d : Promised(c) = Promised(d) => c = d
    BY ClientKinds
  <2>2. \A d : Import(id) # Gated(d)
    BY ClientKinds
  <2>3. held[r] = Nothing /\ \A c : Nothing # Promised(c)
    BY <1>3, ClientKinds DEF Unused
  <2>4. \A c, d \in Refs : clients'[c] # None /\ clients'[c].cap = Gated(d) => d = c
    BY <1>5, <2>2 DEF ClientsInv, Basic, Clients
  <2>5. ~ fresh => h # Promised(r)
    BY <1>3, <2>1, ClientKinds DEF Unused
  <2>6. \A c \in Refs : clients'[c] # None <=> \E s \in Refs : held'[s] = Promised(c)
    <3> SUFFICES ASSUME NEW c \in Refs PROVE clients'[c] # None <=> \E s \in Refs : held'[s] = Promised(c)
      OBVIOUS
    <3>1. \A s \in Refs : held[s] # Promised(r)
      BY <1>3 DEF Unused
    <3>2. CASE c = r
      BY <1>1, <1>4, <1>5, <2>5, <3>1, <3>2
    <3>3. CASE c # r
      <4>1. clients[c] # None <=> \E s \in Refs : held[s] = Promised(c)
        BY DEF ClientsInv, Basic, Clients
      <4>2. clients'[c] = clients[c]
        BY <1>5, <3>3
      <4>3. h = Promised(c) => clients[c] # None
        BY <1>8, <3>3
      <4>4. (\E s \in Refs : held'[s] = Promised(c)) <=> (h = Promised(c) \/ \E s \in Refs : held[s] = Promised(c))
        BY <1>1, <1>4, <2>3
      <4> QED
        BY <4>1, <4>2, <4>3, <4>4
    <3> QED
      BY <3>2, <3>3
  <2> QED
    BY <2>4, <2>6 DEF ClientsInv
<1>12. PromiseInv'
  <2>1. Remembers(imports, clients, old, gate)
    BY <1>1, RemembersIff DEF Basic, Clients
  <2>2. old[r] = Nothing /\ gate[r] = NoGate /\ \A j \in Ids : imports[j] # None => imports[j].promise # r
    BY <1>3 DEF Unused
  <2> SUFFICES ASSUME NEW j \in Ids, imports'[j] # None
               PROVE  /\ imports'[j].app \in {Nothing, Import(j)} \cup {Promised(c) : c \in Refs}
                      /\ imports'[j].promise # None /\ clients'[imports'[j].promise] # None =>
                            clients'[imports'[j].promise].cap = Import(j)
                            /\ old'[imports'[j].promise] = Nothing /\ gate'[imports'[j].promise] = NoGate
    BY DEF PromiseInv
  <2>3. imports'[j].app \in {Nothing, Import(j)} \cup {Promised(c) : c \in Refs}
    BY <1>1, <2>1 DEF Remembers
  <2>4. CASE j = id /\ fresh
    BY <1>5, <2>2, <2>3, <2>4
  <2>5. CASE ~ (j = id /\ fresh)
    <3>1. imports'[j].promise = None \/ (imports[j] # None /\ imports'[j].promise = imports[j].promise)
      BY <2>5
    <3>2. ASSUME imports[j] # None, imports'[j].promise = imports[j].promise, imports[j].promise # None
          PROVE  imports[j].promise \in Refs /\ clients'[imports[j].promise] = clients[imports[j].promise]
      BY <1>5, <2>1, <2>2, <3>2 DEF Remembers
    <3> QED
      BY <2>1, <2>3, <3>1, <3>2 DEF Remembers
  <2> QED
    BY <2>4, <2>5
<1>13. EmbargoInv'
  BY DEF EmbargoInv, Basic, Clients
<1>14. KeptInv'
  <2>1. held[r] = Nothing /\ clients[r] = None
    BY <1>3 DEF Unused
  <2>2. /\ \A j \in Ids : h = Import(j) => j = id
        /\ \A j \in Ids : Nothing # Import(j)
        /\ \A j \in Ids : Import(id) = Import(j) => j = id
    BY ClientKinds
  <2>3. \A j \in Ids : imports[j] # None <=> Kept(j, held, clients, old)
    BY DEF KeptInv, Basic, Clients
  <2>4. \A j \in Ids : j # id => (Kept(j, held', clients', old') <=> Kept(j, held, clients, old))
    BY <1>1, <1>4, <1>5, <2>1, <2>2 DEF Kept
  <2>5. Kept(id, held', clients', old')
    <3>1. imports[id] # None => Kept(id, held, clients, old)
      BY <2>3
    <3>2. Kept(id, held, clients, old) => Kept(id, held', clients', old')
      BY <1>1, <1>4, <1>5, <2>1, <2>2 DEF Kept
    <3> QED
      BY <1>1, <1>4, <1>5, <3>1, <3>2 DEF Kept
  <2> QED
    BY <2>3, <2>4, <2>5 DEF KeptInv
<1>15. ASSUME Finite PROVE Owes(m)
  <2>1. \A j \in Ids : Carries(m, j) <=> j = id
    BY DEF On, Carries
  <2>2. \A j \in Ids : Count(j) = RefsOf(imports[j]) /\ Count(j) \in Nat
    BY <1>2, ImportedFacts DEF Count, RefsOf
  <2>3. \A j \in Ids : IsFiniteSet(Back(toB, j)) /\ Cardinality(Back(toB, j)) \in Nat
    BY <1>15, FS_CardinalityType DEF Finite
  <2>4. \A j \in Ids : RefsOf(imports'[j]) = RefsOf(imports[j]) + IF Carries(m, j) THEN 1 ELSE 0
    BY <2>1, <2>2
  <2> QED
    BY <2>2, <2>3, <2>4 DEF Owes
<1> QED
  BY <1>7, <1>10, <1>11, <1>12, <1>13, <1>14, <1>15 DEF Basic, Clients

LEMMA ReceiveCapBasic ==
    ASSUME Basic, up["A"], toA # <<>>, ReceiveCap(Head(toA))
    PROVE  /\ Basic' /\ (Finite => Owes(Head(toA)))
           /\ toA' = Tail(toA) /\ UNCHANGED <<up, toB, exporterVars, old, embargoes, gate, made, initiated>>
<1> DEFINE m == Head(toA)
           id == m.desc.id
           r == m.ref
           imp == Imported(id)
           new == imp[id].app = Nothing
           app == IF new THEN Promised(r) ELSE imp[id].app
           dangling == ~new /\ app[1] = "promise" /\ clients[app[2]] = None
<1>1. /\ TypeOK /\ m \in MessageA /\ m.type = "Cap" /\ m.desc \in Desc /\ id \in Ids /\ r \in Refs
      /\ toA' = Tail(toA) /\ UNCHANGED <<up, toB, exporterVars, old, embargoes, gate, made, initiated>>
  <2>1. /\ TypeOK /\ m \in MessageA /\ m.type = "Cap"
        /\ toA' = Tail(toA) /\ UNCHANGED <<up, toB, exporterVars, old, embargoes, gate, made, initiated>>
    BY HeadA DEF Basic, Tables, ReceiveCap
  <2> QED
    BY <2>1, MessageAFields DEF Desc
<1>2. \/ /\ m.desc.kind = "receiverHosted"
         /\ held' = [held EXCEPT ![r] = Local]
         /\ UNCHANGED <<clients, imports, fault>>
      \/ /\ m.desc.kind = "senderHosted"
         /\ held' = [held EXCEPT ![r] = Import(id)]
         /\ imports' = WithApp(imp, id, Import(id))
         /\ UNCHANGED <<clients, fault>>
      \/ /\ m.desc.kind = "senderPromise" /\ new
         /\ held' = [held EXCEPT ![r] = Promised(r)]
         /\ clients' = [clients EXCEPT ![r] = [cap |-> Import(id), called |-> FALSE]]
         /\ imports' = [imp EXCEPT ![id].app = Promised(r), ![id].promise = r]
         /\ UNCHANGED fault
      \/ /\ m.desc.kind = "senderPromise" /\ ~ new
         /\ held' = [held EXCEPT ![r] = IF dangling THEN Nothing ELSE app]
         /\ clients' = clients
         /\ imports' = imp
         /\ fault' = IF dangling THEN [fault EXCEPT !["A"] = "dangling client ref"] ELSE fault
  BY DEF ReceiveCap, WithApp
<1>3. /\ imports \in ImportTable /\ held \in HeldTable /\ clients \in ClientTable /\ fault \in [Vats -> Faults]
  BY <1>1, ImporterTypes DEF TypeOK
<1>4. /\ imp \in ImportTable /\ imp[id] \in ImportEntry
      /\ imp[id] # None
      /\ imp[id].refs = Count(id) + 1 /\ Count(id) \in Nat
      /\ imp[id].app = IF imports[id] = None THEN Nothing ELSE imports[id].app
      /\ imp[id].promise = IF imports[id] = None THEN None ELSE imports[id].promise
      /\ \A j \in Ids : j # id => imp[j] = imports[j]
  BY <1>1, <1>3, ImportedFacts
<1>5. m.desc # None
  BY <1>1, NoneAssumption
<1>6. CASE /\ m.desc.kind = "receiverHosted"
           /\ held' = [held EXCEPT ![r] = Local]
           /\ UNCHANGED <<clients, imports, fault>>
  <2>1. r \in Unused /\ Shorter(toA, Tail(toA), m) /\ Tail(toA) \in Seq(MessageA)
    <3>1. Shorter(toA, Tail(toA), m) /\ Tail(toA) \in Seq(MessageA)
      BY <1>1, HeadA
    <3>2. 1 \in 1 .. Len(toA) /\ toA[1] = m
      BY <3>1 DEF Shorter
    <3> QED
      BY <1>1, <3>1, <3>2 DEF RefsInv, Brings, Basic, Clients
  <2>2. held[r] = Nothing /\ held' \in HeldTable /\ \A s \in Refs : held'[s] = IF s = r THEN Local ELSE held[s]
    BY <1>1, <1>3, <1>6, <2>1 DEF HeldTable, Unused
  <2>3. /\ \A j \in Ids : Nothing # Import(j) /\ Local # Import(j)
        /\ \A c \in Refs : Nothing # Promised(c) /\ Local # Promised(c)
    BY ClientKinds
  <2>4. TypeOK'
    BY <1>1, <1>6, <2>1, <2>2 DEF TypeOK, exporterVars, HeldTable
  <2>5. Tables'
    BY <1>1, <2>4, ExporterStays DEF Basic
  <2>6. \A s \in Unused : Brings(m, s) \/ s \in Unused'
    BY <1>1, <1>6, <2>2, <2>3 DEF Unused, Brings
  <2>7. RefsInv'
    BY <1>1, <2>6, RefsShorter DEF Basic, Clients, exporterVars
  <2>8. ClientsInv' /\ KeptInv'
    <3>1. ClientsInv'
      BY <1>6, <2>2, <2>3 DEF ClientsInv, Basic, Clients
    <3>2. KeptInv'
      BY <1>1, <1>6, <2>2, <2>3 DEF KeptInv, Kept, Basic, Clients
    <3> QED
      BY <3>1, <3>2
  <2>9. PromiseInv' /\ EmbargoInv'
    BY <1>1, <1>6 DEF PromiseInv, EmbargoInv, Basic, Clients
  <2>10. ASSUME Finite PROVE Owes(m)
    <3>1. \A j \in Ids : ~ Carries(m, j)
      BY <1>6 DEF Carries
    <3>2. \A j \in Ids : RefsOf(imports[j]) \in Nat /\ Cardinality(Back(toB, j)) \in Nat
      BY <1>3, <2>10, FS_CardinalityType, ImportedFacts DEF Finite, Count, RefsOf
    <3> QED
      BY <1>1, <1>6, <2>10, <3>1, <3>2 DEF Owes, Finite
  <2> QED
    BY <1>1, <2>5, <2>7, <2>8, <2>9, <2>10 DEF Basic, Clients
<1>7. CASE /\ m.desc.kind = "senderHosted"
           /\ held' = [held EXCEPT ![r] = Import(id)]
           /\ imports' = WithApp(imp, id, Import(id))
           /\ UNCHANGED <<clients, fault>>
  <2>1. Import(id) \in Apps /\ None \in Refs \cup {None}
    BY <1>1 DEF Apps, Imports
  <2>2. /\ imports' \in ImportTable /\ imports'[id] # None
        /\ imports'[id].app = Import(id)
        /\ imports'[id].refs = imp[id].refs
        /\ imports'[id].promise = imp[id].promise
        /\ \A j \in Ids : j # id => imports'[j] = imp[j]
    <3> HIDE DEF imp, id
    <3> QED
      BY <1>1, <1>4, <1>7, <2>1, EntryUpdated
  <2> DEFINE h == Import(id)
             fresh == FALSE
  <2>3. On(m.desc, id)
    BY <1>5, <1>7 DEF On
  <2>4. RefsOf(imports'[id]) = Count(id) + 1 /\ \A j \in Ids : j # id => imports'[j] = imports[j]
    BY <1>4, <2>2 DEF RefsOf
  <2>5. imports'[id].promise = IF imports[id] = None THEN None ELSE imports[id].promise
    BY <1>4, <2>2
  <2>6. h \in {Nothing, Import(id)} \cup {Promised(c) : c \in {c \in Refs : clients[c] # None}}
    OBVIOUS
  <2> HIDE DEF imp, id, m, r
  <2>7. /\ held' = [held EXCEPT ![r] = h]
        /\ clients' = IF fresh THEN [clients EXCEPT ![r] = [cap |-> Import(id), called |-> FALSE]] ELSE clients
        /\ imports'[id].app \in {Import(id), Promised(r)}
        /\ imports'[id].promise = IF fresh THEN r ELSE IF imports[id] = None THEN None ELSE imports[id].promise
        /\ h = Import(id) /\ fault' \in [Vats -> Faults] /\ ~ fresh
        /\ m = Head(toA) /\ r = m.ref /\ fresh \in BOOLEAN
    BY <1>3, <1>7, <2>2, <2>5 DEF m, r
  <2> HIDE DEF h, fresh
  <2> QED
    BY <1>1, <2>2, <2>3, <2>4, <2>6, <2>7, ImportReceived
<1>8. CASE /\ m.desc.kind = "senderPromise" /\ new
           /\ held' = [held EXCEPT ![r] = Promised(r)]
           /\ clients' = [clients EXCEPT ![r] = [cap |-> Import(id), called |-> FALSE]]
           /\ imports' = [imp EXCEPT ![id].app = Promised(r), ![id].promise = r]
           /\ UNCHANGED fault
  <2> DEFINE one == WithApp(imp, id, Promised(r))
  <2>1. Promised(r) \in Apps /\ r \in Refs \cup {None} /\ Nothing \in Apps /\ None \in Refs \cup {None}
    BY <1>1 DEF Apps
  <2>2. imports' = WithPromise(one, id, r)
    BY <1>8 DEF WithPromise, WithApp
  <2>3. /\ one \in ImportTable /\ one[id] # None
        /\ one[id].app = Promised(r)
        /\ one[id].refs = imp[id].refs
        /\ \A j \in Ids : j # id => one[j] = imp[j]
    <3> HIDE DEF imp, id, r
    <3> QED
      BY <1>1, <1>4, <2>1, EntryUpdated
  <2>4. /\ imports' \in ImportTable /\ imports'[id] # None
        /\ imports'[id].app = Promised(r)
        /\ imports'[id].refs = one[id].refs
        /\ imports'[id].promise = r
        /\ \A j \in Ids : j # id => imports'[j] = one[j]
    <3> HIDE DEF one, id, r
    <3> QED
      BY <1>1, <2>1, <2>2, <2>3, EntryUpdated
  <2> DEFINE h == Promised(r)
             fresh == TRUE
  <2>5. On(m.desc, id)
    BY <1>5, <1>8 DEF On
  <2> HIDE DEF one
  <2>6. RefsOf(imports'[id]) = Count(id) + 1 /\ \A j \in Ids : j # id => imports'[j] = imports[j]
    BY <1>4, <2>3, <2>4 DEF RefsOf
  <2> HIDE DEF imp, id, m, r
  <2>7. /\ held' = [held EXCEPT ![r] = h]
        /\ clients' = IF fresh THEN [clients EXCEPT ![r] = [cap |-> Import(id), called |-> FALSE]] ELSE clients
        /\ imports'[id].app \in {Import(id), Promised(r)}
        /\ imports'[id].promise = IF fresh THEN r ELSE IF imports[id] = None THEN None ELSE imports[id].promise
        /\ h = Promised(r) /\ fault' \in [Vats -> Faults] /\ fresh
        /\ m = Head(toA) /\ r = m.ref /\ fresh \in BOOLEAN
    BY <1>3, <1>8, <2>4 DEF m, r
  <2> HIDE DEF h, fresh
  <2> QED
    BY <1>1, <2>4, <2>5, <2>6, <2>7, ImportReceived
<1>9. CASE /\ m.desc.kind = "senderPromise" /\ ~ new
           /\ held' = [held EXCEPT ![r] = IF dangling THEN Nothing ELSE app]
           /\ clients' = clients
           /\ imports' = imp
           /\ fault' = IF dangling THEN [fault EXCEPT !["A"] = "dangling client ref"] ELSE fault
  <2> DEFINE h == IF dangling THEN Nothing ELSE app
             fresh == FALSE
  <2>1. On(m.desc, id)
    BY <1>5, <1>9 DEF On
  <2>2. imports[id] # None /\ app = imports[id].app /\ app # Nothing
    BY <1>4, <1>9
  <2>3. app \in {Nothing, Import(id)} \cup {Promised(c) : c \in Refs}
    <3> HIDE DEF app
    <3> QED
      BY <1>1, <2>2 DEF PromiseInv, Basic, Clients
  <2>4. h \in {Nothing, Import(id)} \cup {Promised(c) : c \in {c \in Refs : clients[c] # None}}
    <3>1. \A c : Promised(c)[1] = "promise" /\ Promised(c)[2] = c
      BY ClientKinds
    <3>2. ASSUME NEW c \in Refs, app = Promised(c), clients[c] = None PROVE dangling
      BY <1>9, <3>1, <3>2
    <3> HIDE DEF app, dangling
    <3> QED
      BY <2>3, <3>2
  <2>5. fault' \in [Vats -> Faults]
    <3>1. "dangling client ref" \in Faults
      BY DEF Faults
    <3> HIDE DEF dangling
    <3> QED
      BY <1>3, <1>9, <3>1
  <2>6. RefsOf(imp[id]) = Count(id) + 1
    BY <1>4 DEF RefsOf
  <2> HIDE DEF dangling, app, new, imp
  <2>7. /\ imports' \in ImportTable /\ imports'[id] # None
        /\ RefsOf(imports'[id]) = Count(id) + 1 /\ \A j \in Ids : j # id => imports'[j] = imports[j]
        /\ imports'[id].app = imports[id].app
        /\ imports'[id].promise = IF imports[id] = None THEN None ELSE imports[id].promise
    BY <1>4, <1>9, <2>2, <2>6
  <2> HIDE DEF id, m, r
  <2>8. /\ held' = [held EXCEPT ![r] = h]
        /\ clients' = IF fresh THEN [clients EXCEPT ![r] = [cap |-> Import(id), called |-> FALSE]] ELSE clients
        /\ imports'[id].promise = IF fresh THEN r ELSE IF imports[id] = None THEN None ELSE imports[id].promise
        /\ m = Head(toA) /\ r = m.ref /\ fresh \in BOOLEAN /\ ~ fresh
    BY <1>9, <2>7 DEF m, r
  <2> HIDE DEF h, fresh
  <2> QED
    BY <1>1, <2>1, <2>2, <2>4, <2>5, <2>7, <2>8, ImportReceived
<1> QED
  BY <1>1, <1>2, <1>6, <1>7, <1>8, <1>9

\* The client a call through reference r finds behind its PromiseClient.
Cap(r) == IF held[r][1] = "promise" THEN clients[held[r][2]].cap ELSE held[r]

LEMMA CapFound ==
    ASSUME Basic, NEW r \in Refs, held[r] # Nothing
    PROVE  \/ /\ held[r][1] # "promise" /\ held[r] \in {Local} \cup Imports /\ Cap(r) = held[r]
           \/ \E c \in Refs : /\ held[r] = Promised(c) /\ held[r][1] = "promise" /\ held[r][2] = c
                              /\ clients[c] \in Client /\ clients[c] # None
                              /\ Cap(r) = clients[c].cap
                              /\ Cap(r) \in {Local, Broken, Gated(c)} \cup Imports
<1>1. TypeOK /\ held[r] \in {Local} \cup Imports \cup {Promised(c) : c \in Refs}
  BY DEF Basic, Tables, TypeOK
<1>2. CASE held[r] \in {Local} \cup Imports
  BY <1>2, ClientKinds DEF Imports, Cap
<1>3. ASSUME NEW c \in Refs, held[r] = Promised(c)
      PROVE  /\ held[r] = Promised(c) /\ held[r][1] = "promise" /\ held[r][2] = c
             /\ clients[c] \in Client /\ clients[c] # None
             /\ Cap(r) = clients[c].cap
             /\ Cap(r) \in {Local, Broken, Gated(c)} \cup Imports
  <2>1. held[r][1] = "promise" /\ held[r][2] = c
    BY <1>3, ClientKinds
  <2>2. clients[c] # None
    BY <1>3 DEF ClientsInv, Basic, Clients
  <2>3. clients[c] \in Client
    BY <1>1, <2>2 DEF TypeOK
  <2>4. clients[c].cap \in {Local, Broken} \cup Imports \cup {Gated(d) : d \in Refs}
    BY <2>3 DEF Client
  <2>5. \A d \in Refs : clients[c].cap = Gated(d) => d = c
    BY <2>2 DEF ClientsInv, Basic, Clients
  <2>6. Cap(r) = clients[c].cap
    BY <2>1 DEF Cap
  <2> QED
    BY <1>3, <2>1, <2>2, <2>3, <2>4, <2>5, <2>6
<1> QED
  BY <1>1, <1>2, <1>3

LEMMA CallBasic ==
    ASSUME Basic, NEW r \in Refs, Call(r)
    PROVE  /\ Basic' /\ (Finite => OwesSame)
           /\ UNCHANGED <<up, toA, fault, exporterVars, held, imports, old, embargoes>>
<1> DEFINE call == <<r, made + 1>>
           cap == Cap(r)
           c == held[r][2]
           pc == held[r][1] = "promise"
           sent == [type |-> "Call", id |-> cap[2], call |-> call]
<1>1. /\ TypeOK /\ held[r] # Nothing /\ made \in Nat /\ call \in Calls /\ made' = made + 1
      /\ UNCHANGED <<up, toA, fault, exporterVars, held, imports, old, embargoes>>
  <2>1. /\ TypeOK /\ held[r] # Nothing /\ made' = made + 1
        /\ UNCHANGED <<up, toA, fault, exporterVars, held, imports, old, embargoes>>
    BY DEF Basic, Tables, Call
  <2>2. made \in Nat
    BY <2>1 DEF TypeOK
  <2> QED
    BY <2>1, <2>2 DEF Calls
<1>2. /\ clients' = IF pc THEN [clients EXCEPT ![c].called = TRUE] ELSE clients
      /\ toB' = IF cap[1] = "import" /\ up["A"] THEN Append(toB, sent) ELSE toB
      /\ initiated' = IF cap = Local \/ (cap[1] = "queue" /\ gate[cap[2]].st = "open")
                      THEN Append(initiated, call) ELSE initiated
      /\ gate' = IF cap[1] = "queue" /\ gate[cap[2]].st \notin {"open", "broken"}
                 THEN [gate EXCEPT ![cap[2]].calls = Append(@, call)] ELSE gate
  BY DEF Call, Cap
<1>3. /\ pc => c \in Refs /\ held[r] = Promised(c) /\ clients[c] \in Client /\ clients[c] # None
               /\ cap = clients[c].cap
      /\ cap[1] = "import" => cap[2] \in Ids
      /\ cap[1] = "queue" => pc /\ cap[2] = c /\ cap = Gated(c)
  <2>1. CASE held[r][1] # "promise" /\ held[r] \in {Local} \cup Imports /\ Cap(r) = held[r]
    BY <2>1, ClientKinds DEF Imports
  <2>2. ASSUME NEW d \in Refs, held[r] = Promised(d), held[r][1] = "promise", held[r][2] = d,
               clients[d] \in Client, clients[d] # None, Cap(r) = clients[d].cap,
               Cap(r) \in {Local, Broken, Gated(d)} \cup Imports
        PROVE  /\ pc /\ c = d
               /\ cap[1] = "import" => cap[2] \in Ids
               /\ cap[1] = "queue" => cap[2] = d /\ cap = Gated(d)
    BY <2>2, ClientKinds DEF Imports
  <2> HIDE DEF pc, c, cap
  <2> QED
    BY <1>1, <2>1, <2>2, CapFound DEF pc, c, cap
<1>4. /\ imports \in ImportTable /\ held \in HeldTable /\ clients \in ClientTable
      /\ old \in OldTable /\ gate \in GateTable /\ embargoes \in EmbargoTable /\ toB \in Seq(MessageB)
      /\ initiated \in Seq(Calls)
  BY <1>1, ImporterTypes, TablesFacts DEF TypeOK
<1> HIDE DEF cap, c, pc, call
<1>5. initiated' \in Seq(Calls)
  BY <1>1, <1>2, <1>4
<1>6. cap[1] = "import" => sent \in MessageB /\ sent.type = "Call"
  BY <1>1, <1>3, BMessages
<1>7. toB' \in Seq(MessageB)
  <2> HIDE DEF sent
  <2> QED
    BY <1>2, <1>4, <1>6
<1>8. clients' \in ClientTable /\ \A d \in Refs : (clients'[d] = None <=> clients[d] = None)
          /\ (clients[d] # None => clients'[d].cap = clients[d].cap)
  <2>1. pc => [clients[c] EXCEPT !.called = TRUE] \in Client
              /\ [clients[c] EXCEPT !.called = TRUE].cap = clients[c].cap
    BY <1>3 DEF Client
  <2>2. pc => [clients[c] EXCEPT !.called = TRUE] # None
    BY <2>1, NoneFacts
  <2>3. pc => clients' = [clients EXCEPT ![c] = [clients[c] EXCEPT !.called = TRUE]]
    BY <1>2, <1>3, <1>4 DEF ClientTable
  <2>4. CASE pc
    BY <1>3, <1>4, <2>1, <2>2, <2>3, <2>4 DEF ClientTable
  <2> QED
    BY <1>2, <1>4, <2>4
<1>9. gate' \in GateTable /\ \A d \in Refs : gate'[d].st = gate[d].st
          /\ (gate'[d] = gate[d] \/ (pc /\ d = c /\ cap = Gated(c)))
  <2>1. CASE cap[1] = "queue" /\ gate[cap[2]].st \notin {"open", "broken"}
    <3>1. c \in Refs /\ pc /\ cap[2] = c /\ cap = Gated(c)
      BY <1>3, <2>1
    <3>2. gate[c] \in Gate
      BY <1>4, <3>1 DEF GateTable
    <3> DEFINE new == [gate[c] EXCEPT !.calls = Append(gate[c].calls, call)]
    <3>3. Append(gate[c].calls, call) \in Seq(Calls)
      BY <1>1, <3>2 DEF Gate
    <3>4. new \in Gate /\ new.st = gate[c].st
      BY <3>2, <3>3 DEF Gate
    <3>5. gate' = [gate EXCEPT ![c] = new]
      BY <1>2, <1>4, <2>1, <3>1 DEF GateTable
    <3> HIDE DEF new
    <3> QED
      BY <1>4, <3>1, <3>4, <3>5 DEF GateTable
  <2>2. CASE ~ (cap[1] = "queue" /\ gate[cap[2]].st \notin {"open", "broken"})
    BY <1>2, <1>4, <2>2
  <2> QED
    BY <2>1, <2>2
<1>10. TypeOK'
  BY <1>1, <1>4, <1>5, <1>7, <1>8, <1>9 DEF TypeOK, exporterVars, ClientTable, GateTable
<1>11. Tables'
  BY <1>1, <1>10, ExporterStays DEF Basic
<1>12. Unused \subseteq Unused'
  <2>1. \A d \in Refs : d \in Unused => ~ (pc /\ d = c)
    BY <1>3 DEF Unused
  <2> QED
    BY <1>1, <1>8, <1>9, <2>1 DEF Unused
<1>13. RefsInv'
  BY <1>1, <1>12, RefsSame DEF Basic, Clients, exporterVars
<1>14. ClientsInv'
  BY <1>1, <1>8 DEF ClientsInv, Basic, Clients
<1>15. PromiseInv'
  <2>1. \A id \in Ids : imports[id] # None => imports[id].promise \in Refs \cup {None}
    BY <1>1 DEF TypeOK, ImportEntry
  <2>2. \A id : Import(id) # Gated(c)
    BY ClientKinds
  <2>3. \A d \in Refs, id \in Ids : clients[d] # None /\ clients[d].cap = Import(id) => gate'[d] = gate[d]
    BY <1>3, <1>9, <2>2
  <2> QED
    BY <1>1, <1>8, <2>1, <2>3 DEF PromiseInv, Basic, Clients
<1>16. KeptInv'
  BY <1>1, <1>8 DEF KeptInv, Kept, Basic, Clients
<1>17. EmbargoInv'
  <2>1. \A e \in Refs : embargoes[e] # None => embargoes[e] \in Refs
    BY <1>4 DEF EmbargoTable
  <2> QED
    BY <1>1, <1>9, <2>1 DEF EmbargoInv, Basic, Clients
<1>18. ASSUME Finite PROVE OwesSame
  <2>1. CASE cap[1] = "import" /\ up["A"]
    <3>1. Longer(toB, toB', sent) /\ sent \in MessageB /\ \A id : ~ Gives(sent, id)
      <4> HIDE DEF sent
      <4> QED
        BY <1>2, <1>4, <1>6, <2>1, LongerByAppend DEF Gives
    <3> HIDE DEF sent
    <3> QED
      BY <1>1, <1>4, <1>7, <1>18, <3>1, BackSent DEF Finite, OwesSame
  <2>2. CASE ~ (cap[1] = "import" /\ up["A"])
    BY <1>1, <1>2, <1>18, <2>2 DEF Finite, OwesSame
  <2> QED
    BY <2>1, <2>2
<1> QED
  BY <1>1, <1>11, <1>13, <1>14, <1>15, <1>16, <1>17, <1>18 DEF Basic, Clients

-----------------------------------------------------------------------------
(* The account: what the exporter counts is what the importer holds, is about *)
(* to receive or is giving back *)

Ledger ==
    up["A"] /\ up["B"] => \A id \in Ids :
        /\ IsFiniteSet(Back(toB, id))
        /\ RefsOf(exports[id]) = RefsOf(imports[id])
              + Cardinality(Coming(toA, id)) + Cardinality(Back(toB, id))

Account == Basic /\ Ledger

LEMMA AccountNumbers ==
    ASSUME TypeOK, NEW id \in Ids
    PROVE  /\ RefsOf(exports[id]) \in Nat /\ RefsOf(imports[id]) \in Nat
           /\ Cardinality(Coming(toA, id)) \in Nat
           /\ IsFiniteSet(Back(toB, id)) => Cardinality(Back(toB, id)) \in Nat
<1>1. RefsOf(exports[id]) \in Nat /\ RefsOf(imports[id]) \in Nat
  BY DEF TypeOK, RefsOf, Export, ImportEntry
<1>2. Cardinality(Coming(toA, id)) \in Nat
  BY ComingNumber, TablesFacts
<1> QED
  BY <1>1, <1>2, FS_CardinalityType

\* A message sent to the importer that brings nothing.
LEMMA ComingSame ==
    ASSUME TypeOK, TypeOK', NEW m, toA' = toA \/ Longer(toA, toA', m),
           NEW id, ~ Carries(m, id)
    PROVE  Coming(toA', id) = Coming(toA, id)
  BY ComingSent, TablesFacts DEF TypeOK

LEMMA ComingCalls ==
    ASSUME TypeOK, TypeOK', NEW calls, LongerBy(toA, toA', calls), NEW id
    PROVE  Coming(toA', id) = Coming(toA, id)
<1>1. /\ Coming(toA, id) \in SUBSET (1 .. Len(toA)) /\ Len(toA) \in Nat
      /\ \A i \in 1 .. Len(toA) : i \in Coming(toA, id) <=> Carries(toA[i], id)
  BY ComingNumber, TablesFacts
<1>2. /\ Coming(toA', id) \in SUBSET (1 .. Len(toA')) /\ Len(toA') \in Nat
      /\ \A i \in 1 .. Len(toA') : i \in Coming(toA', id) <=> Carries(toA'[i], id)
  <2>1. toA' \in Seq(MessageA)
    BY DEF TypeOK
  <2> QED
    BY <2>1, ComingNumber
<1>3. \A i \in 1 .. Len(toA') : i > Len(toA) => ~ Carries(toA'[i], id)
  BY DEF LongerBy, Carries
<1>4. Len(toA) <= Len(toA') /\ \A i \in 1 .. Len(toA) : toA'[i] = toA[i]
  BY <1>1, <1>2 DEF LongerBy
<1>5. ASSUME NEW i \in Coming(toA, id) PROVE i \in Coming(toA', id)
  BY <1>1, <1>2, <1>4
<1>6. ASSUME NEW i \in Coming(toA', id) PROVE i \in Coming(toA, id)
  <2>1. i \in 1 .. Len(toA') /\ i <= Len(toA)
    BY <1>1, <1>2, <1>3
  <2> QED
    BY <1>1, <1>2, <1>4, <2>1
<1> QED
  BY <1>5, <1>6

\* A message of the importer's that gives nothing back is handled.
LEMMA BackSame ==
    ASSUME TypeOK, toB # <<>>, toB' = toB \/ (toB' = Tail(toB) /\ Head(toB).type # "Release"),
           NEW id, IsFiniteSet(Back(toB, id))
    PROVE  IsFiniteSet(Back(toB', id)) /\ Cardinality(Back(toB', id)) = Cardinality(Back(toB, id))
<1>1. CASE toB' = toB
  BY <1>1
<1>2. CASE toB' = Tail(toB) /\ Head(toB).type # "Release"
  <2>1. /\ toB \in Seq(MessageB) /\ toB' \in Seq(MessageB) /\ Head(toB) \in MessageB
        /\ Shorter(toB, toB', Head(toB)) /\ ~ Gives(Head(toB), id)
    BY <1>2, ShorterByTail, TablesFacts DEF Gives
  <2> QED
    BY <2>1, BackTaken
<1> QED
  BY <1>1, <1>2

\* The exporter's steps that send no reference and take none back.
LEMMA ExporterQuiet ==
    ASSUME Account, Tables', UNCHANGED importerVars, up'["A"] = up["A"], gives' = gives,
           NEW m, NEW calls \in Seq(Calls),
           \/ toA' = toA
           \/ toA' = Append(toA, m) /\ m \in MessageA /\ m.type # "Cap" /\ \A id \in Ids : ~ Carries(m, id)
           \/ toA' = toA \o Sends(calls),
           \/ ~ up'["B"]
           \/ /\ up'["B"] = up["B"] /\ \A id \in Ids : RefsOf(exports'[id]) = RefsOf(exports[id])
              /\ toB' = toB \/ (toB # <<>> /\ toB' = Tail(toB) /\ Head(toB).type # "Release")
    PROVE  Account'
<1>1. TypeOK /\ TypeOK' /\ toA \in Seq(MessageA) /\ Unused' = Unused
  BY UnusedStays, TablesFacts DEF Account, Basic, Tables
<1>2. \/ toA' = toA
      \/ Longer(toA, toA', m) /\ m.type # "Cap" /\ \A id \in Ids : ~ Carries(m, id)
      \/ toA' = toA \o Sends(calls) /\ LongerBy(toA, toA', calls)
  BY <1>1, LongerByAppend, CallsSent
<1>3. RefsInv'
  BY <1>1, <1>2, RefsSame, RefsLonger, RefsCalls DEF Account, Basic, Clients
<1>4. Basic'
  BY <1>3, ImporterStays DEF Account, Basic
<1>5. Ledger'
  <2> SUFFICES ASSUME up'["A"], up'["B"], NEW id \in Ids
               PROVE  /\ IsFiniteSet(Back(toB', id))
                      /\ RefsOf(exports'[id]) = RefsOf(imports'[id])
                            + Cardinality(Coming(toA', id)) + Cardinality(Back(toB', id))
    BY DEF Ledger
  <2>1. /\ IsFiniteSet(Back(toB, id))
        /\ RefsOf(exports[id]) = RefsOf(imports[id])
              + Cardinality(Coming(toA, id)) + Cardinality(Back(toB, id))
        /\ RefsOf(exports'[id]) = RefsOf(exports[id])
    BY DEF Account, Ledger
  <2>2. Coming(toA', id) = Coming(toA, id)
    BY <1>1, <1>2, ComingSame, ComingCalls
  <2>3. IsFiniteSet(Back(toB', id)) /\ Cardinality(Back(toB', id)) = Cardinality(Back(toB, id))
    BY <1>1, <2>1, BackSame
  <2>4. imports' = imports
    BY DEF importerVars
  <2> QED
    BY <2>1, <2>2, <2>3, <2>4
<1> QED
  BY <1>4, <1>5 DEF Account

LEMMA ExporterAccount ==
    ASSUME Account
    PROVE  /\ \A t \in tasks : DropTask(t) \/ SendException(t) \/ EntryNotFound(t) => Account'
           /\ \A t \in tasks : ReuseEntry(t) => Account'
           /\ \A e : Reply(e) => Account'
           /\ \A p \in Promises, c \in Caps : ResolvePromise(p, c) => Account'
<1> DEFINE none == <<>>
<1>1. Tables /\ TypeOK /\ none \in Seq(Calls)
  BY DEF Account, Basic, Tables
<1>2. ASSUME NEW t \in tasks, DropTask(t) \/ SendException(t) \/ EntryNotFound(t) PROVE Account'
  <2> DEFINE m == [type |-> "Resolve", id |-> t.id, desc |-> None]
  <2>1. /\ Tables' /\ t.id \in Ids
        /\ toA' = toA \/ toA' = Append(toA, m)
        /\ UNCHANGED <<up, toB, fault, res, queued, exports, byCap, replies, gives,
                       importerVars, made, initiated>>
    BY <1>1, <1>2, TaskEndTables
  <2>2. m \in MessageA /\ m.type # "Cap" /\ \A id \in Ids : ~ Carries(m, id)
    BY <2>1, AMessages DEF Carries
  <2> HIDE DEF m, none
  <2> QED
    BY <1>1, <2>1, <2>2, ExporterQuiet
<1>3. ASSUME NEW t \in tasks, ReuseEntry(t) PROVE Account'
  <2>1. Tables' /\ \A id \in Ids : RefsOf(exports'[id]) = RefsOf(exports[id])
    BY <1>1, <1>3, ReuseEntryTables
  <2>2. UNCHANGED <<up, toA, toB, gives, importerVars>>
    BY <1>3 DEF ReuseEntry
  <2> HIDE DEF none
  <2> QED
    BY <1>1, <2>1, <2>2, ExporterQuiet
<1>4. ASSUME NEW e, Reply(e) PROVE Account'
  <2> DEFINE m == [type |-> "ReceiverLoopback", embargo |-> e]
  <2>1. Tables' /\ e \in Refs
    BY <1>1, <1>4, ReplyTables
  <2>2. /\ toA' = toA \/ toA' = Append(toA, m)
        /\ UNCHANGED <<up, toB, exports, gives, importerVars>>
    BY <1>4 DEF Reply
  <2>3. m \in MessageA /\ m.type # "Cap" /\ \A id \in Ids : ~ Carries(m, id)
    BY <2>1, AMessages DEF Carries
  <2> HIDE DEF m, none
  <2> QED
    BY <1>1, <2>1, <2>2, <2>3, ExporterQuiet
<1>5. ASSUME NEW p \in Promises, NEW c \in Caps, ResolvePromise(p, c) PROVE Account'
  <2>1. Tables' /\ UNCHANGED <<up, toB, exports, gives, importerVars>>
    BY <1>1, <1>5, ResolvePromiseTables DEF ResolvePromise
  <2>2. queued[p] \in Seq(Calls) /\ (toA' = toA \/ toA' = toA \o Sends(queued[p]))
    BY <1>1, <1>5 DEF ResolvePromise, Forward, TypeOK
  <2> QED
    BY <2>1, <2>2, ExporterQuiet
<1> QED
  BY <1>2, <1>3, <1>4, <1>5

LEMMA HandleBAccount ==
    ASSUME Account, HandleB \/ LoseB
    PROVE  Account'
<1>1. Tables /\ TypeOK /\ <<>> \in Seq(Calls)
  BY DEF Account, Basic, Tables
<1>2. ASSUME NEW what, NEW inbox, inbox = toB \/ (toB # <<>> /\ inbox = Tail(toB)),
             what \in Faults, DisconnectB(what, inbox)
      PROVE  Account'
  <2> DEFINE m == [type |-> "Abort"]
  <2>1. inbox \in Seq(MessageB)
    BY <1>1, <1>2, HeadB, TablesFacts
  <2>2. Tables'
    BY <1>1, <1>2, <2>1, DisconnectBTables
  <2>3. /\ toA' = Append(toA, m) /\ UNCHANGED <<importerVars, gives>>
        /\ up'["A"] = up["A"] /\ ~ up'["B"]
    BY <1>1, <1>2, ConstantFacts DEF DisconnectB, TypeOK
  <2>4. m \in MessageA /\ m.type # "Cap" /\ \A id \in Ids : ~ Carries(m, id)
    BY AMessages DEF Carries
  <2> HIDE DEF m
  <2> QED
    BY <1>1, <2>2, <2>3, <2>4, ExporterQuiet
<1>3. fault["B"] \in Faults
  BY <1>1, ConstantFacts DEF TypeOK
<1>4. CASE LoseB
  BY <1>2, <1>3, <1>4 DEF LoseB
<1> DEFINE m == Head(toB)
<1>5. CASE up["B"] /\ toB # <<>> /\ HandleAbortB(m)
  BY <1>2, <1>3, <1>5 DEF HandleAbortB
<1>6. CASE up["B"] /\ toB # <<>> /\ HandleCall(m)
  <2>1. Tables'
    BY <1>1, <1>6, HandleCallTables
  <2>2. CASE exports[m.id] = None
    <3>1. DisconnectB("not a current export", Tail(toB)) /\ "not a current export" \in Faults
      BY <1>6, <2>2 DEF HandleCall, Faults
    <3> QED
      BY <1>2, <1>6, <3>1
  <2>3. CASE exports[m.id] # None
    <3>1. /\ toB' = Tail(toB) /\ m.type # "Release" /\ UNCHANGED <<up, exports, gives, importerVars>>
          /\ toA' = toA \/ toA' = toA \o Sends(<<m.call>>)
      BY <1>6, <2>3 DEF HandleCall, Forward
    <3>2. <<m.call>> \in Seq(Calls)
      <4>1. m.call \in Calls
        BY <1>1, <1>6, HeadB, MessageBFields DEF HandleCall
      <4> QED
        BY <4>1
    <3> QED
      BY <1>6, <2>1, <3>1, <3>2, ExporterQuiet
  <2> QED
    BY <2>2, <2>3
<1>7. CASE up["B"] /\ toB # <<>> /\ HandleSenderLoopback(m)
  <2>1. Tables'
    BY <1>1, <1>7, HandleSenderLoopbackTables
  <2>2. CASE \E what \in {"not a current export", "does not point back"} : DisconnectB(what, Tail(toB))
    <3>1. \A what \in {"not a current export", "does not point back"} : what \in Faults
      BY DEF Faults
    <3> QED
      BY <1>2, <1>7, <2>2, <3>1
  <2>3. CASE ~ \E what \in {"not a current export", "does not point back"} : DisconnectB(what, Tail(toB))
    <3>1. /\ toB' = Tail(toB) /\ m.type # "Release" /\ UNCHANGED <<up, toA, exports, gives, importerVars>>
      BY <1>7, <2>3 DEF HandleSenderLoopback
    <3> QED
      BY <1>1, <1>7, <2>1, <3>1, ExporterQuiet
  <2> QED
    BY <2>2, <2>3
<1>8. CASE up["B"] /\ toB # <<>> /\ HandleRelease(m)
  <2>1. /\ Tables' /\ m \in MessageB /\ m.id \in Ids /\ m.refs \in Nat \ {0}
        /\ \/ DisconnectB("invalid release", Tail(toB))
           \/ /\ toB' = Tail(toB) /\ UNCHANGED <<up, toA, gives, importerVars>>
              /\ RefsOf(exports'[m.id]) = RefsOf(exports[m.id]) - m.refs
              /\ \A id \in Ids : id # m.id => exports'[id] = exports[id]
    <3> HIDE DEF m
    <3>1. m = Head(toB)
      BY DEF m
    <3> QED
      BY <1>1, <1>8, <3>1, HandleReleaseTables
  <2>2. CASE DisconnectB("invalid release", Tail(toB))
    <3>1. "invalid release" \in Faults
      BY DEF Faults
    <3> QED
      BY <1>2, <1>8, <2>2, <3>1
  <2>3. CASE /\ toB' = Tail(toB) /\ UNCHANGED <<up, toA, gives, importerVars>>
             /\ RefsOf(exports'[m.id]) = RefsOf(exports[m.id]) - m.refs
             /\ \A id \in Ids : id # m.id => exports'[id] = exports[id]
    <3>1. m.type = "Release" /\ Shorter(toB, Tail(toB), m) /\ toB \in Seq(MessageB) /\ Tail(toB) \in Seq(MessageB)
      BY <1>1, <1>8, ShorterByTail, TablesFacts DEF HandleRelease
    <3>2. RefsInv'
      <4>1. Unused' = Unused
        BY <2>3, UnusedStays
      <4> QED
        BY <2>3, <4>1, RefsSame DEF Account, Basic, Clients
    <3>3. Basic'
      BY <2>1, <2>3, <3>2, ImporterStays DEF Account, Basic
    <3>4. Ledger'
      <4> SUFFICES ASSUME up'["A"], up'["B"], NEW id \in Ids
                   PROVE  /\ IsFiniteSet(Back(toB', id))
                          /\ RefsOf(exports'[id]) = RefsOf(imports'[id])
                                + Cardinality(Coming(toA', id)) + Cardinality(Back(toB', id))
        BY DEF Ledger
      <4>1. /\ IsFiniteSet(Back(toB, id))
            /\ RefsOf(exports[id]) = RefsOf(imports[id])
                  + Cardinality(Coming(toA, id)) + Cardinality(Back(toB, id))
        BY <2>3 DEF Account, Ledger
      <4>2. /\ RefsOf(exports[id]) \in Nat /\ RefsOf(imports[id]) \in Nat
            /\ Cardinality(Coming(toA, id)) \in Nat /\ Cardinality(Back(toB, id)) \in Nat
        BY <1>1, <4>1, AccountNumbers
      <4>3. /\ IsFiniteSet(Back(toB', id))
            /\ Gives(m, id) => m.refs \in Nat /\ Cardinality(Back(toB, id)) = Cardinality(Back(toB', id)) + m.refs
            /\ ~ Gives(m, id) => Cardinality(Back(toB, id)) = Cardinality(Back(toB', id))
        <5>1. Shorter(toB, toB', m) /\ toB \in Seq(MessageB) /\ toB' \in Seq(MessageB) /\ m \in MessageB
          BY <2>1, <2>3, <3>1
        <5> HIDE DEF m
        <5> QED
          BY <4>1, <5>1, BackTaken
      <4>4. Cardinality(Back(toB', id)) \in Nat
        BY <4>3, FS_CardinalityType
      <4>5. imports' = imports /\ toA' = toA
        BY <2>3 DEF importerVars
      <4> HIDE DEF m
      <4>6. CASE id = m.id
        BY <2>3, <3>1, <4>1, <4>2, <4>3, <4>4, <4>5, <4>6 DEF Gives
      <4>7. CASE id # m.id
        BY <2>3, <3>1, <4>1, <4>2, <4>3, <4>4, <4>5, <4>7 DEF Gives
      <4> QED
        BY <4>6, <4>7
    <3> QED
      BY <3>3, <3>4 DEF Account
  <2> QED
    BY <2>1, <2>2, <2>3
<1> QED
  BY <1>4, <1>5, <1>6, <1>7, <1>8 DEF HandleB

\* The exporter's steps that send a reference.
LEMMA GiveAccount ==
    ASSUME Account, NEW c \in Givable, Give(c)
    PROVE  Account'
<1>1. Tables /\ TypeOK /\ up["B"] /\ gives < MaxGives /\ gives' = gives + 1
      /\ UNCHANGED <<up, toB, importerVars>>
  BY DEF Account, Basic, Tables, Give
<1>2. Tables'
  BY <1>1, GiveTables
<1>3. PICK d \in Desc : /\ toA' = Append(toA, [type |-> "Cap", desc |-> d, ref |-> gives + 1])
                        /\ Adds(exports, exports', d, Ends[c])
  BY <1>1, GiveTables
<1> DEFINE m == [type |-> "Cap", desc |-> d, ref |-> gives + 1]
<1>4. gives + 1 \in Refs
  BY <1>1, ConstantFacts DEF Refs, TypeOK
<1>5. m \in MessageA /\ Longer(toA, toA', m) /\ toA \in Seq(MessageA) /\ toA' \in Seq(MessageA)
  <2>1. m \in MessageA /\ toA \in Seq(MessageA)
    BY <1>1, <1>4, AMessages, TablesFacts
  <2>2. toA' = Append(toA, m)
    BY <1>3
  <2> HIDE DEF m
  <2> QED
    BY <2>1, <2>2, LongerByAppend
<1>6. \A id : Carries(m, id) <=> On(d, id)
  BY DEF Carries, On
<1>7. RefsInv'
  <2>1. Unused' = Unused
    BY <1>1, UnusedStays
  <2> QED
    BY <1>1, <1>4, <1>5, <2>1, RefsGiven DEF Account, Basic, Clients
<1>8. Basic'
  BY <1>1, <1>2, <1>7, ImporterStays DEF Account, Basic
<1> HIDE DEF m
<1>9. Ledger'
  <2> SUFFICES ASSUME up'["A"], up'["B"], NEW id \in Ids
               PROVE  /\ IsFiniteSet(Back(toB', id))
                      /\ RefsOf(exports'[id]) = RefsOf(imports'[id])
                            + Cardinality(Coming(toA', id)) + Cardinality(Back(toB', id))
    BY DEF Ledger
  <2>1. /\ IsFiniteSet(Back(toB, id))
        /\ RefsOf(exports[id]) = RefsOf(imports[id])
              + Cardinality(Coming(toA, id)) + Cardinality(Back(toB, id))
        /\ imports' = imports /\ toB' = toB
    BY <1>1 DEF Account, Ledger, importerVars
  <2>2. /\ RefsOf(exports[id]) \in Nat /\ RefsOf(imports[id]) \in Nat
        /\ Cardinality(Coming(toA, id)) \in Nat /\ Cardinality(Back(toB, id)) \in Nat
    BY <1>1, <2>1, AccountNumbers
  <2>3. RefsOf(exports'[id]) = RefsOf(exports[id]) + IF On(d, id) THEN 1 ELSE 0
    BY <1>3 DEF Adds
  <2>4. /\ On(d, id) => Cardinality(Coming(toA', id)) = Cardinality(Coming(toA, id)) + 1
        /\ ~ On(d, id) => Coming(toA', id) = Coming(toA, id)
    BY <1>5, <1>6, ComingSent
  <2> QED
    BY <2>1, <2>2, <2>3, <2>4
<1> QED
  BY <1>8, <1>9 DEF Account

LEMMA SendResolveAccount ==
    ASSUME Account, NEW t \in tasks, SendResolve(t)
    PROVE  Account'
<1>1. Tables /\ TypeOK /\ UNCHANGED <<up, toB, gives, importerVars>>
  BY DEF Account, Basic, Tables, SendResolve
<1>2. Tables' /\ t.id \in Ids
  BY <1>1, SendResolveTables
<1>3. PICK d \in Desc : /\ toA' = Append(toA, [type |-> "Resolve", id |-> t.id, desc |-> d])
                        /\ Adds(Redirected(t), exports', d, Ends[t.on])
  BY <1>1, SendResolveTables
<1> DEFINE m == [type |-> "Resolve", id |-> t.id, desc |-> d]
<1>4. m \in MessageA /\ Longer(toA, toA', m) /\ toA \in Seq(MessageA) /\ toA' \in Seq(MessageA)
  <2>1. m \in MessageA /\ toA \in Seq(MessageA)
    BY <1>1, <1>2, AMessages, TablesFacts
  <2>2. toA' = Append(toA, m)
    BY <1>3
  <2> HIDE DEF m
  <2> QED
    BY <2>1, <2>2, LongerByAppend
<1>5. m.type # "Cap" /\ \A id : Carries(m, id) <=> On(d, id)
  BY DEF Carries, On
<1>6. \A id \in Ids : RefsOf(Redirected(t)[id]) = RefsOf(exports[id])
  <2>1. res[t.on] # None /\ exports[t.id] # None
    BY DEF SendResolve
  <2> QED
    BY <1>1, <2>1, RedirectedFacts
<1> HIDE DEF m
<1>7. RefsInv'
  <2>1. Unused' = Unused
    BY <1>1, UnusedStays
  <2> QED
    BY <1>1, <1>4, <1>5, <2>1, RefsLonger DEF Account, Basic, Clients
<1>8. Basic'
  BY <1>1, <1>2, <1>7, ImporterStays DEF Account, Basic
<1>9. Ledger'
  <2> SUFFICES ASSUME up'["A"], up'["B"], NEW id \in Ids
               PROVE  /\ IsFiniteSet(Back(toB', id))
                      /\ RefsOf(exports'[id]) = RefsOf(imports'[id])
                            + Cardinality(Coming(toA', id)) + Cardinality(Back(toB', id))
    BY DEF Ledger
  <2>1. /\ IsFiniteSet(Back(toB, id))
        /\ RefsOf(exports[id]) = RefsOf(imports[id])
              + Cardinality(Coming(toA, id)) + Cardinality(Back(toB, id))
        /\ imports' = imports /\ toB' = toB
    BY <1>1 DEF Account, Ledger, importerVars
  <2>2. /\ RefsOf(exports[id]) \in Nat /\ RefsOf(imports[id]) \in Nat
        /\ Cardinality(Coming(toA, id)) \in Nat /\ Cardinality(Back(toB, id)) \in Nat
    BY <1>1, <2>1, AccountNumbers
  <2>3. RefsOf(exports'[id]) = RefsOf(exports[id]) + IF On(d, id) THEN 1 ELSE 0
    BY <1>3, <1>6 DEF Adds
  <2>4. /\ On(d, id) => Cardinality(Coming(toA', id)) = Cardinality(Coming(toA, id)) + 1
        /\ ~ On(d, id) => Coming(toA', id) = Coming(toA, id)
    BY <1>4, <1>5, ComingSent
  <2> QED
    BY <2>1, <2>2, <2>3, <2>4
<1> QED
  BY <1>8, <1>9 DEF Account

\* The importer's steps: a message handled is paid for, and the others change
\* nothing.
LEMMA HandledAccount ==
    ASSUME Account, Basic', toA # <<>>, toA' = Tail(toA), UNCHANGED <<up, exporterVars>>, up["A"],
           Finite => Owes(Head(toA))
    PROVE  Account'
<1>1. TypeOK /\ TypeOK'
  BY DEF Account, Basic, Tables
<1>2. Ledger'
  <2> SUFFICES ASSUME up'["A"], up'["B"], NEW id \in Ids
               PROVE  /\ IsFiniteSet(Back(toB', id))
                      /\ RefsOf(exports'[id]) = RefsOf(imports'[id])
                            + Cardinality(Coming(toA', id)) + Cardinality(Back(toB', id))
    BY DEF Ledger
  <2>1. /\ Finite /\ IsFiniteSet(Back(toB, id))
        /\ RefsOf(exports[id]) = RefsOf(imports[id])
              + Cardinality(Coming(toA, id)) + Cardinality(Back(toB, id))
        /\ exports' = exports
    BY DEF Account, Ledger, exporterVars, Finite
  <2>2. /\ RefsOf(exports[id]) \in Nat /\ RefsOf(imports[id]) \in Nat
        /\ Cardinality(Coming(toA, id)) \in Nat /\ Cardinality(Back(toB, id)) \in Nat
    BY <1>1, <2>1, AccountNumbers
  <2>3. /\ IsFiniteSet(Back(toB', id))
        /\ RefsOf(imports'[id]) + Cardinality(Back(toB', id)) =
              RefsOf(imports[id]) + Cardinality(Back(toB, id)) + IF Carries(Head(toA), id) THEN 1 ELSE 0
    BY <2>1 DEF Owes
  <2>4. RefsOf(imports'[id]) \in Nat /\ Cardinality(Back(toB', id)) \in Nat
    <3>1. imports' \in ImportTable
      BY <1>1 DEF TypeOK, ImportTable
    <3> QED
      BY <2>3, <3>1, FS_CardinalityType DEF ImportTable, ImportEntry, RefsOf
  <2>5. toA \in Seq(MessageA) /\ toA' \in Seq(MessageA) /\ Shorter(toA, toA', Head(toA))
    BY <1>1, HeadA, TablesFacts
  <2>6. /\ Carries(Head(toA), id) => Cardinality(Coming(toA, id)) = Cardinality(Coming(toA', id)) + 1
        /\ ~ Carries(Head(toA), id) => Cardinality(Coming(toA, id)) = Cardinality(Coming(toA', id))
        /\ Cardinality(Coming(toA', id)) \in Nat
    <3>1. Cardinality(Coming(toA', id)) \in Nat
      BY <2>5, ComingNumber
    <3>2. \A m : Shorter(toA, toA', m) =>
            /\ Carries(m, id) => Cardinality(Coming(toA, id)) = Cardinality(Coming(toA', id)) + 1
            /\ ~ Carries(m, id) => Cardinality(Coming(toA, id)) = Cardinality(Coming(toA', id))
      BY ONLY <2>5, ComingTaken
    <3> QED
      BY <2>5, <3>1, <3>2
  <2>7. RefsOf(exports[id]) = RefsOf(imports'[id])
                + Cardinality(Coming(toA', id)) + Cardinality(Back(toB', id))
    <3> DEFINE x == RefsOf(exports[id])
               i1 == RefsOf(imports[id])
               i2 == RefsOf(imports'[id])
               c1 == Cardinality(Coming(toA, id))
               c2 == Cardinality(Coming(toA', id))
               b1 == Cardinality(Back(toB, id))
               b2 == Cardinality(Back(toB', id))
    <3>1. /\ x \in Nat /\ i1 \in Nat /\ i2 \in Nat /\ c1 \in Nat /\ c2 \in Nat /\ b1 \in Nat /\ b2 \in Nat
          /\ x = i1 + c1 + b1
      BY <2>1, <2>2, <2>4, <2>6
    <3>2. CASE Carries(Head(toA), id)
      <4>1. i2 + b2 = i1 + b1 + 1 /\ c1 = c2 + 1
        BY <2>3, <2>6, <3>2
      <4> HIDE DEF x, i1, i2, c1, c2, b1, b2
      <4>2. x = i2 + c2 + b2
        BY <3>1, <4>1
      <4> QED
        BY <4>2 DEF x, i1, i2, c1, c2, b1, b2
    <3>3. CASE ~ Carries(Head(toA), id)
      <4>1. i2 + b2 = i1 + b1 + 0 /\ c1 = c2
        BY <2>3, <2>6, <3>3
      <4> HIDE DEF x, i1, i2, c1, c2, b1, b2
      <4>2. x = i2 + c2 + b2
        BY <3>1, <4>1
      <4> QED
        BY <4>2 DEF x, i1, i2, c1, c2, b1, b2
    <3> QED
      BY <3>2, <3>3
  <2> QED
    BY <2>1, <2>3, <2>7
<1> QED
  BY <1>2 DEF Account

LEMMA UnhandledAccount ==
    ASSUME Account, Basic', UNCHANGED <<up, toA, exporterVars>>,
           Finite /\ up["A"] => OwesSame
    PROVE  Account'
<1>1. TypeOK /\ TypeOK'
  BY DEF Account, Basic, Tables
<1>2. Ledger'
  <2> SUFFICES ASSUME up'["A"], up'["B"], NEW id \in Ids
               PROVE  /\ IsFiniteSet(Back(toB', id))
                      /\ RefsOf(exports'[id]) = RefsOf(imports'[id])
                            + Cardinality(Coming(toA', id)) + Cardinality(Back(toB', id))
    BY DEF Ledger
  <2>1. /\ Finite /\ IsFiniteSet(Back(toB, id))
        /\ RefsOf(exports[id]) = RefsOf(imports[id])
              + Cardinality(Coming(toA, id)) + Cardinality(Back(toB, id))
        /\ exports' = exports
    BY DEF Account, Ledger, exporterVars, Finite
  <2>2. /\ RefsOf(exports[id]) \in Nat /\ RefsOf(imports[id]) \in Nat
        /\ Cardinality(Coming(toA, id)) \in Nat /\ Cardinality(Back(toB, id)) \in Nat
    BY <1>1, <2>1, AccountNumbers
  <2>3. /\ IsFiniteSet(Back(toB', id))
        /\ RefsOf(imports'[id]) + Cardinality(Back(toB', id)) =
              RefsOf(imports[id]) + Cardinality(Back(toB, id))
    BY <2>1 DEF OwesSame
  <2>4. RefsOf(imports'[id]) \in Nat /\ Cardinality(Back(toB', id)) \in Nat
    <3>1. imports' \in ImportTable
      BY <1>1 DEF TypeOK, ImportTable
    <3> QED
      BY <2>3, <3>1, FS_CardinalityType DEF ImportTable, ImportEntry, RefsOf
  <2> QED
    BY <2>1, <2>2, <2>3, <2>4
<1> QED
  BY <1>2 DEF Account

LEMMA HandleAAccount ==
    ASSUME Account, HandleA \/ LoseA
    PROVE  Account'
<1> DEFINE m == Head(toA)
<1>1. Basic /\ TypeOK
  BY DEF Account, Basic, Tables
<1>2. CASE LoseA \/ (toA # <<>> /\ HandleAbortA(m))
  <2>1. Basic' /\ ~ up'["A"]
    BY <1>1, <1>2, LosesBasic
  <2> QED
    BY <2>1 DEF Account, Ledger
<1>3. CASE up["A"] /\ toA # <<>> /\ ReceiveCap(m)
  BY <1>1, <1>3, ReceiveCapBasic, HandledAccount
<1>4. CASE up["A"] /\ toA # <<>> /\ HandleResolve(m)
  <2>1. /\ Basic' /\ UNCHANGED <<exporterVars, held, made, initiated>>
        /\ \/ ~ up'["A"] /\ up'["B"] = up["B"]
           \/ UNCHANGED <<up, fault>> /\ toA' = Tail(toA) /\ (Finite => Owes(m))
    BY <1>1, <1>4, HandleResolveBasic
  <2>2. CASE ~ up'["A"]
    BY <2>1, <2>2 DEF Account, Ledger
  <2>3. CASE UNCHANGED <<up, fault>> /\ toA' = Tail(toA) /\ (Finite => Owes(m))
    BY <1>4, <2>1, <2>3, HandledAccount
  <2> QED
    BY <2>1, <2>2, <2>3
<1>5. ASSUME Finite, UNCHANGED <<toB, imports>>, \A id \in Ids : ~ Carries(m, id) PROVE Owes(m)
  <2>1. \A id \in Ids : RefsOf(imports[id]) \in Nat /\ Cardinality(Back(toB, id)) \in Nat
    BY <1>1, <1>5, AccountNumbers DEF Finite
  <2> QED
    BY <1>5, <2>1 DEF Owes, Finite
<1>6. CASE up["A"] /\ toA # <<>> /\ HandleCallA(m)
  <2>1. /\ Basic' /\ toA' = Tail(toA) /\ m.type = "Call"
        /\ UNCHANGED <<up, toB, fault, exporterVars, importerVars, made>>
    BY <1>1, <1>6, HandleCallABasic
  <2>2. \A id \in Ids : ~ Carries(m, id)
    BY <2>1 DEF Carries
  <2>3. Finite => Owes(m)
    BY <1>5, <2>1, <2>2 DEF importerVars
  <2> QED
    BY <1>6, <2>1, <2>3, HandledAccount
<1>7. CASE up["A"] /\ toA # <<>> /\ HandleReceiverLoopback(m)
  <2>1. /\ Basic' /\ UNCHANGED <<exporterVars, held, made, initiated>>
        /\ \/ ~ up'["A"] /\ up'["B"] = up["B"]
           \/ UNCHANGED <<up, toB, fault, clients, imports, old>> /\ toA' = Tail(toA)
    BY <1>1, <1>7, HandleReceiverLoopbackBasic
  <2>2. CASE ~ up'["A"]
    BY <2>1, <2>2 DEF Account, Ledger
  <2>3. CASE UNCHANGED <<up, toB, fault, clients, imports, old>> /\ toA' = Tail(toA)
    <3>1. \A id \in Ids : ~ Carries(m, id)
      BY <1>7 DEF Carries, HandleReceiverLoopback
    <3>2. Finite => Owes(m)
      BY <1>5, <2>3, <3>1
    <3> QED
      BY <1>7, <2>1, <2>3, <3>2, HandledAccount
  <2> QED
    BY <2>1, <2>2, <2>3
<1> QED
  BY <1>2, <1>3, <1>4, <1>6, <1>7 DEF HandleA

LEMMA ClientAccount ==
    ASSUME Account
    PROVE  /\ \A c \in Refs : DropOld(c) \/ DriveGate(c) \/ Abandon(c) => Account'
           /\ \A r \in Refs : Call(r) \/ DropRef(r) => Account'
<1>1. Basic /\ TypeOK
  BY DEF Account, Basic, Tables
<1>2. ASSUME NEW c \in Refs, DropOld(c) PROVE Account'
  BY <1>1, <1>2, DropOldBasic, UnhandledAccount
<1>3. ASSUME NEW r \in Refs, DropRef(r) PROVE Account'
  BY <1>1, <1>3, DropRefBasic, UnhandledAccount
<1>4. ASSUME NEW r \in Refs, Call(r) PROVE Account'
  BY <1>1, <1>4, CallBasic, UnhandledAccount
<1>5. ASSUME NEW c \in Refs, DriveGate(c) \/ Abandon(c) PROVE Account'
  <2>1. Basic' /\ UNCHANGED <<up, toA, toB, exporterVars, imports>>
    BY <1>1, <1>5, DriveGateBasic
  <2>2. Finite => OwesSame
    BY <2>1 DEF Finite, OwesSame
  <2> QED
    BY <2>1, <2>2, UnhandledAccount
<1> QED
  BY <1>2, <1>3, <1>4, <1>5

LEMMA AccountInit == Init => Account
<1> SUFFICES ASSUME Init PROVE Account
  OBVIOUS
<1>1. Tables
  BY TablesInit
<1>2. /\ \A r \in Refs : /\ held[r] = Nothing /\ clients[r] = None /\ old[r] = Nothing
                         /\ gate[r] = NoGate /\ embargoes[r] = None
      /\ \A id \in Ids : imports[id] = None /\ exports[id] = None
      /\ toA = <<>> /\ toB = <<>> /\ gives = 0
  BY DEF Init
<1>3. /\ \A c : Nothing # Promised(c)
      /\ \A id : Nothing # Import(id)
  BY ClientKinds
<1>4. Unused = Refs
  BY <1>2, <1>3, ConstantFacts DEF Unused
<1>5. Clients
  <2>1. RefsInv
    BY <1>2, <1>4 DEF RefsInv
  <2>2. ClientsInv /\ PromiseInv /\ EmbargoInv
    BY <1>2, <1>3 DEF ClientsInv, PromiseInv, EmbargoInv
  <2>3. KeptInv
    BY <1>2, <1>3 DEF KeptInv, Kept
  <2> QED
    BY <2>1, <2>2, <2>3 DEF Clients
<1>6. \A id \in Ids : Coming(toA, id) = {} /\ Back(toB, id) = {}
  BY <1>2 DEF Coming, Back
<1>7. Ledger
  <2>1. IsFiniteSet({}) /\ Cardinality({}) = 0
    BY FS_EmptySet
  <2> QED
    <3>1. \A id \in Ids : IsFiniteSet(Back(toB, id)) /\ Cardinality(Back(toB, id)) = 0
                          /\ Cardinality(Coming(toA, id)) = 0
      BY <1>6, <2>1
    <3>2. \A id \in Ids : RefsOf(exports[id]) = 0 /\ RefsOf(imports[id]) = 0
      BY <1>2 DEF RefsOf
    <3> QED
      BY <3>1, <3>2 DEF Ledger
<1> QED
  BY <1>1, <1>5, <1>7 DEF Account, Basic

LEMMA AccountStutter == Account /\ UNCHANGED vars => Account'
<1> SUFFICES ASSUME Account, UNCHANGED vars PROVE Account'
  OBVIOUS
<1>1. UNCHANGED <<up, toA, toB, fault, exporterVars, importerVars, made, initiated>>
  BY DEF vars
<1>2. Tables /\ TypeOK
  BY DEF Account, Basic, Tables
<1>3. TypeOK'
  BY <1>1, <1>2 DEF TypeOK, exporterVars, importerVars
<1>4. Tables'
  BY <1>1, <1>2, <1>3, TablesStay DEF exporterVars
<1>5. RefsInv'
  BY <1>1, UnusedStays, RefsSame DEF Account, Basic, Clients, exporterVars
<1>6. Basic'
  BY <1>1, <1>4, <1>5, ImporterStays DEF Account, Basic
<1>7. Finite => OwesSame
  BY <1>1 DEF Finite, OwesSame, importerVars
<1> QED
  BY <1>1, <1>6, <1>7, UnhandledAccount

LEMMA AccountNext == Account /\ [Next]_vars => Account'
<1> SUFFICES ASSUME Account, [Next]_vars PROVE Account'
  OBVIOUS
<1>1. CASE UNCHANGED vars
  BY <1>1, AccountStutter
<1>2. CASE HandleA \/ LoseA
  BY <1>2, HandleAAccount
<1>3. CASE HandleB \/ LoseB
  BY <1>3, HandleBAccount
<1>4. ASSUME NEW t \in tasks, ResolveTask(t) PROVE Account'
  BY <1>4, ExporterAccount, SendResolveAccount DEF ResolveTask
<1>5. CASE \E e \in replies : Reply(e)
  BY <1>5, ExporterAccount
<1>6. CASE \E c \in Refs : DropOld(c) \/ DriveGate(c) \/ Abandon(c)
  BY <1>6, ClientAccount
<1>7. CASE \E p \in Promises, c \in Caps : ResolvePromise(p, c)
  BY <1>7, ExporterAccount
<1>8. CASE \E c \in Givable : Give(c)
  BY <1>8, GiveAccount
<1>9. CASE \E r \in Refs : Call(r) \/ DropRef(r)
  BY <1>9, ClientAccount
<1> QED
  BY <1>1, <1>2, <1>3, <1>4, <1>5, <1>6, <1>7, <1>8, <1>9 DEF Next

THEOREM AccountKept == Spec => []Account
<1>1. Init => Account
  BY AccountInit
<1>2. Account /\ [Next]_vars => Account'
  BY AccountNext
<1> QED
  BY <1>1, <1>2, PTL DEF Spec

\* Every reachable state is well typed, whatever the connection, the
\* application and the spawned tasks do, and in whichever order.
THEOREM TypeCorrect == Spec => []TypeOK
<1>1. Account => TypeOK
  BY DEF Account, Basic, Tables
<1> QED
  BY <1>1, AccountKept, PTL

\* An export's reference count is what the importer holds, is about to receive
\* in a Cap or a Resolve, or is giving back in a Release: write_descriptor,
\* receive_cap, import, handle_resolve and the drop of an ImportClient agree.
THEOREM ReferencesConserved == Spec => []RefsConserved
<1>1. Account => RefsConserved
  <2>1. \A id : GivenBack(id) = Back(toB, id)
    BY DEF GivenBack, Back, Gives
  <2>2. \A id : Coming(toA, id) = {i \in DOMAIN toA : Carries(toA[i], id)}
    BY DEF Coming
  <2>3. \A id : RefsOf(imports[id]) = Count(id)
    BY DEF RefsOf, Count
  <2>4. \A id : RefsOf(exports[id]) = IF exports[id] = None THEN 0 ELSE exports[id].refs
    BY DEF RefsOf
  <2> QED
    BY <2>1, <2>2, <2>3, <2>4 DEF RefsConserved, Account, Ledger
<1> QED
  BY <1>1, AccountKept, PTL

-----------------------------------------------------------------------------
(* What the importer's messages name *)

\* A message that needs an export of this id, and a channel in which every such
\* message names one of K, or one that is given up behind it.
Names(m, id) == m.type \in {"Call", "SenderLoopback"} /\ m.id = id
Covered(t, K) ==
    \A i \in 1 .. Len(t), id \in Ids : Names(t[i], id) =>
        id \in K \/ \E j \in 1 .. Len(t) : i < j /\ Gives(t[j], id)

Live == {id \in Ids : imports[id] # None}
NamedInv == up["A"] /\ up["B"] => Covered(toB, Live)

\* When the importer has gone, its peer still reads what it left: some set of
\* exports was held by it then.
Leaves(t, K) ==
    /\ Covered(t, K)
    /\ \A id \in Ids :
        /\ IsFiniteSet(Back(t, id))
        /\ (IF id \in K THEN 1 ELSE 0) + Cardinality(Back(t, id)) <= RefsOf(exports[id])
LeftInv == up["B"] /\ ~ up["A"] => \E K \in SUBSET Ids : Leaves(toB, K)

\* A channel read, or sent over, stays covered.
LEMMA CoveredTaken ==
    ASSUME NEW t, NEW t2, NEW m, NEW K, Shorter(t, t2, m), Covered(t, K)
    PROVE  Covered(t2, K)
<1> SUFFICES ASSUME NEW i \in 1 .. Len(t2), NEW id \in Ids, Names(t2[i], id), id \notin K
             PROVE  \E j \in 1 .. Len(t2) : i < j /\ Gives(t2[j], id)
  BY DEF Covered
<1>1. Len(t2) \in Nat /\ Len(t) = Len(t2) + 1 /\ \A k \in 1 .. Len(t2) : t2[k] = t[k + 1]
  BY DEF Shorter
<1>2. i + 1 \in 1 .. Len(t) /\ t2[i] = t[i + 1]
  BY <1>1
<1>3. PICK j \in 1 .. Len(t) : i + 1 < j /\ Gives(t[j], id)
  BY <1>2 DEF Covered
<1>4. j - 1 \in 1 .. Len(t2) /\ i < j - 1 /\ t2[j - 1] = t[(j - 1) + 1] /\ (j - 1) + 1 = j
  BY <1>1, <1>3
<1> QED
  BY <1>3, <1>4

\* A message appended to a channel leaves it covered, if it names only live exports.
LEMMA CoveredSent ==
    ASSUME NEW t, NEW t2, NEW m, NEW K, NEW L, Longer(t, t2, m), Covered(t, K),
           \A id \in Ids : Names(m, id) => id \in L,
           \A id \in K : id \in L \/ Gives(m, id)
    PROVE  Covered(t2, L)
<1> SUFFICES ASSUME NEW i \in 1 .. Len(t2), NEW id \in Ids, Names(t2[i], id), id \notin L
             PROVE  \E j \in 1 .. Len(t2) : i < j /\ Gives(t2[j], id)
  BY DEF Covered
<1>1. /\ Len(t) \in Nat /\ Len(t2) = Len(t) + 1 /\ t2[Len(t2)] = m
      /\ \A k \in 1 .. Len(t) : t2[k] = t[k]
  BY DEF Longer
<1>2. i # Len(t2)
  BY <1>1
<1>3. i \in 1 .. Len(t) /\ Len(t2) \in 1 .. Len(t2) /\ i < Len(t2) /\ t2[i] = t[i]
  BY <1>1, <1>2
<1>4. CASE id \in K
  BY <1>1, <1>3, <1>4
<1>5. CASE id \notin K
  <2>1. PICK j \in 1 .. Len(t) : i < j /\ Gives(t[j], id)
    BY <1>3, <1>5 DEF Covered
  <2>2. j \in 1 .. Len(t2) /\ t2[j] = t[j]
    BY <1>1
  <2> QED
    BY <2>1, <2>2
<1> QED
  BY <1>4, <1>5

\* A Release on its way gives at least one reference back.
LEMMA GivesCounts ==
    ASSUME NEW t \in Seq(MessageB), NEW j \in 1 .. Len(t), NEW id, Gives(t[j], id),
           IsFiniteSet(Back(t, id))
    PROVE  /\ t[j].refs \in Nat \ {0} /\ Cardinality(Back(t, id)) \in Nat
           /\ Cardinality(Back(t, id)) >= t[j].refs
<1>1. t[j] \in MessageB /\ t[j].refs \in Nat \ {0}
  BY MessageBFields DEF Gives
<1> DEFINE S == {j} \X (1 .. t[j].refs)
<1>2. S \subseteq Back(t, id)
  BY DEF Back
<1>3. IsFiniteSet(S) /\ Cardinality(S) = t[j].refs
  BY <1>1, GivenByOne
<1>4. Cardinality(S) <= Cardinality(Back(t, id)) /\ Cardinality(Back(t, id)) \in Nat
  BY <1>2, FS_Subset, FS_CardinalityType
<1> HIDE DEF S
<1> QED
  BY <1>1, <1>3, <1>4

\* Some set of exports accounts for all that is on its way.
LEMMA HeldOrLeft ==
    ASSUME Account, NamedInv, LeftInv, up["B"]
    PROVE  \E K \in SUBSET Ids : Leaves(toB, K)
<1>0. TypeOK /\ toB \in Seq(MessageB) /\ up["A"] \in BOOLEAN
  BY TablesFacts, ConstantFacts DEF Account, Basic, Tables, TypeOK
<1>1. CASE up["A"]
  <2> DEFINE K == Live
  <2>1. Covered(toB, K) /\ K \in SUBSET Ids
    BY <1>1 DEF NamedInv, Live
  <2>2. ASSUME NEW id \in Ids
        PROVE  /\ IsFiniteSet(Back(toB, id))
               /\ (IF id \in K THEN 1 ELSE 0) + Cardinality(Back(toB, id)) <= RefsOf(exports[id])
    <3>1. /\ IsFiniteSet(Back(toB, id))
          /\ RefsOf(exports[id]) = RefsOf(imports[id])
                + Cardinality(Coming(toA, id)) + Cardinality(Back(toB, id))
      BY <1>1 DEF Account, Ledger
    <3>2. /\ RefsOf(imports[id]) \in Nat /\ Cardinality(Coming(toA, id)) \in Nat
          /\ Cardinality(Back(toB, id)) \in Nat /\ RefsOf(exports[id]) \in Nat
      BY <1>0, <3>1, AccountNumbers
    <3>3. id \in K => RefsOf(imports[id]) >= 1
      <4>1. imports[id] \in ImportEntry \cup {None}
        BY <1>0, ImporterTypes DEF ImportTable
      <4> QED
        BY <4>1 DEF Live, RefsOf, ImportEntry
    <3> HIDE DEF K
    <3> QED
      BY <3>1, <3>2, <3>3
  <2> HIDE DEF K
  <2> QED
    BY <2>1, <2>2 DEF Leaves
<1>2. CASE ~ up["A"]
  BY <1>2 DEF LeftInv
<1> QED
  BY <1>1, <1>2

\* What is named, and what is given back, is in the exporter's table.
LEMMA NamedIsLive ==
    ASSUME Account, NamedInv, LeftInv, up["B"]
    PROVE  /\ \A i \in 1 .. Len(toB), id \in Ids :
                Names(toB[i], id) => RefsOf(exports[id]) >= 1 /\ exports[id] # None
           /\ \A i \in 1 .. Len(toB), id \in Ids :
                Gives(toB[i], id) => RefsOf(exports[id]) >= toB[i].refs
<1>0. TypeOK /\ toB \in Seq(MessageB) /\ up["A"] \in BOOLEAN
  BY TablesFacts, ConstantFacts DEF Account, Basic, Tables, TypeOK
<1>2. PICK K \in SUBSET Ids : Leaves(toB, K)
  BY HeldOrLeft
<1>3. \A id \in Ids : /\ IsFiniteSet(Back(toB, id)) /\ Cardinality(Back(toB, id)) \in Nat
                      /\ RefsOf(exports[id]) \in Nat
                      /\ (IF id \in K THEN 1 ELSE 0) + Cardinality(Back(toB, id)) <= RefsOf(exports[id])
  BY <1>0, <1>2, AccountNumbers DEF Leaves
<1>4. \A id \in Ids : RefsOf(exports[id]) >= 1 => exports[id] # None
  BY DEF RefsOf
<1>5. ASSUME NEW i \in 1 .. Len(toB), NEW id \in Ids, Names(toB[i], id)
      PROVE  RefsOf(exports[id]) >= 1
  <2>1. CASE id \in K
    BY <1>3, <2>1
  <2>2. CASE id \notin K
    <3>1. PICK j \in 1 .. Len(toB) : Gives(toB[j], id)
      BY <1>2, <1>5, <2>2 DEF Leaves, Covered
    <3>2. toB[j].refs \in Nat \ {0} /\ Cardinality(Back(toB, id)) >= toB[j].refs
      BY <1>0, <1>3, <3>1, GivesCounts
    <3> QED
      BY <1>3, <3>2
  <2> QED
    BY <2>1, <2>2
<1>6. ASSUME NEW i \in 1 .. Len(toB), NEW id \in Ids, Gives(toB[i], id)
      PROVE  RefsOf(exports[id]) >= toB[i].refs
  <2>1. toB[i].refs \in Nat \ {0} /\ Cardinality(Back(toB, id)) >= toB[i].refs
    BY <1>0, <1>3, <1>6, GivesCounts
  <2> QED
    BY <1>3, <2>1
<1> QED
  BY <1>4, <1>5, <1>6

\* Clients that are dropped give up at most one import, with a Release behind
\* the messages ms.
GivesUp(ms) ==
    toB' = ms \/ \E id \in Ids, n \in Nat \ {0} : toB' = Append(ms, Release(id, n))

\* collect gives back the imports it drops, and sends nothing that names one.
LEMMA CollectGivesUp ==
    ASSUME NEW imps \in ImportTable, NEW refs, NEW pcs, NEW olds, NEW ms \in Seq(MessageB),
           Collect(imps, refs, pcs, olds, ms)
    PROVE  GivesUp(ms) /\ \A id \in Ids : imports'[id] # None => imps[id] # None
<1>1. /\ \A id \in Ids : imports'[id] = IF Gone(id, imps, refs, pcs, olds) THEN None ELSE imps[id]
      /\ \/ toB' = ms
         \/ \E id \in Ids : /\ imps[id].refs \in Nat \ {0}
                            /\ toB' = Append(ms, Release(id, imps[id].refs))
  BY CollectEffect
<1> QED
  BY <1>1 DEF GivesUp

\* References kept or given back, as the ledger has them.
Repaid == \A id \in Ids :
    /\ IsFiniteSet(Back(toB', id))
    /\ RefsOf(imports'[id]) + Cardinality(Back(toB', id)) >=
          RefsOf(imports[id]) + Cardinality(Back(toB, id))

\* Giving imports up, and saying so in a Release, keeps what is named covered.
LEMMA NamedGivesUp ==
    ASSUME Account, TypeOK', up["A"], up["B"], NEW ms \in Seq(MessageB),
           Covered(ms, Live), \A id \in Ids : Back(ms, id) = Back(toB, id),
           GivesUp(ms), Repaid
    PROVE  NamedInv'
<1>1. TypeOK /\ imports \in ImportTable /\ imports' \in ImportTable /\ Finite
  <2>1. TypeOK /\ Finite
    BY DEF Account, Basic, Tables, Ledger, Finite
  <2>2. imports' \in ImportTable
    BY DEF TypeOK, ImportTable
  <2> QED
    BY <2>1, <2>2, ImporterTypes
<1>2. ASSUME NEW id \in Live, Back(toB', id) = Back(toB, id)
      PROVE  id \in Live'
  <2>1. id \in Ids /\ RefsOf(imports[id]) >= 1 /\ RefsOf(imports[id]) \in Nat
    BY <1>1, <1>2 DEF Live, RefsOf, ImportTable, ImportEntry
  <2>2. /\ Cardinality(Back(toB, id)) \in Nat
        /\ RefsOf(imports'[id]) + Cardinality(Back(toB, id)) >= RefsOf(imports[id]) + Cardinality(Back(toB, id))
    BY <1>1, <1>2, <2>1, FS_CardinalityType DEF Repaid, Finite
  <2>3. RefsOf(imports'[id]) # 0
    BY <1>1, <2>1, <2>2 DEF RefsOf, ImportTable, ImportEntry
  <2> QED
    BY <2>1, <2>3 DEF Live, RefsOf
<1>3. CASE toB' = ms
  <2>1. Covered(ms, Live')
    BY <1>2, <1>3 DEF Covered, Live
  <2> QED
    BY <1>3, <2>1 DEF NamedInv
<1>4. ASSUME NEW k \in Ids, NEW n \in Nat \ {0}, toB' = Append(ms, Release(k, n))
      PROVE  NamedInv'
  <2> DEFINE m == Release(k, n)
  <2>1. m \in MessageB /\ m.type = "Release" /\ toB' = Append(ms, m)
    BY <1>4, BMessages DEF Release
  <2> HIDE DEF m
  <2>2. Longer(ms, toB', m) /\ toB' \in Seq(MessageB)
    BY <2>1, LongerByAppend
  <2>3. ASSUME NEW id \in Live, ~ Gives(m, id)
        PROVE  id \in Live'
    <3>1. id \in Ids /\ IsFiniteSet(Back(ms, id)) /\ Back(ms, id) = Back(toB, id)
      BY <1>1, <2>3 DEF Live, Finite
    <3>2. Back(toB', id) = Back(ms, id)
      BY <2>1, <2>2, <2>3, <3>1, BackSent
    <3> QED
      BY <1>2, <3>1, <3>2
  <2>4. \A id \in Ids : Names(m, id) => id \in Live'
    BY <2>1 DEF Names
  <2>5. Covered(toB', Live')
    BY <2>2, <2>3, <2>4, CoveredSent
  <2> QED
    BY <2>5 DEF NamedInv
<1> QED
  BY <1>3, <1>4 DEF GivesUp

\* Handing back what came with the last message is accounted for as well.
LEMMA HeldOrReturned ==
    ASSUME Account, NamedInv, LeftInv, up["B"], NEW out, Returns(out)
    PROVE  \E K \in SUBSET Ids : Leaves(out, K)
<1>1. CASE out = toB
  BY <1>1, HeldOrLeft
<1>2. ASSUME NEW k \in Ids, HandsBack(out, k)
      PROVE  \E K \in SUBSET Ids : Leaves(out, K)
  <2> DEFINE m == Release(k, 1)
             K == Live
  <2>1. /\ TypeOK /\ toB \in Seq(MessageB) /\ out \in Seq(MessageB)
        /\ m \in MessageB /\ Longer(toB, out, m) /\ up["A"] /\ imports \in ImportTable
    BY <1>2, TablesFacts, ReturnsType, ImporterTypes DEF HandsBack, Account, Basic, Tables
  <2>2. m.type = "Release" /\ m.refs = 1 /\ \A id : Gives(m, id) <=> id = k
    BY DEF Release, Gives
  <2> HIDE DEF m
  <2>3. K \in SUBSET Ids /\ Covered(toB, K) /\ k \notin K
    BY <1>2, <2>1 DEF NamedInv, Live, HandsBack
  <2>4. Covered(out, K)
    <3> HIDE DEF K
    <3>1. \A id \in Ids : ~ Names(m, id)
      BY <2>2 DEF Names
    <3> QED
      BY <2>1, <2>3, <3>1, CoveredSent
  <2>5. ASSUME NEW id \in Ids
        PROVE  /\ IsFiniteSet(Back(out, id))
               /\ (IF id \in K THEN 1 ELSE 0) + Cardinality(Back(out, id)) <= RefsOf(exports[id])
    <3>1. /\ IsFiniteSet(Back(toB, id))
          /\ RefsOf(exports[id]) = RefsOf(imports[id])
                + Cardinality(Coming(toA, id)) + Cardinality(Back(toB, id))
      BY <1>2, <2>1 DEF Account, Ledger
    <3>2. /\ RefsOf(imports[id]) \in Nat /\ Cardinality(Coming(toA, id)) \in Nat
          /\ Cardinality(Back(toB, id)) \in Nat /\ RefsOf(exports[id]) \in Nat
      BY <2>1, <3>1, AccountNumbers
    <3>3. id \in K => RefsOf(imports[id]) >= 1
      <4>1. imports[id] \in ImportEntry \cup {None}
        BY <2>1 DEF ImportTable
      <4> QED
        BY <4>1 DEF Live, RefsOf, ImportEntry
    <3>4. CASE id # k
      <4>1. IsFiniteSet(Back(out, id)) /\ Back(out, id) = Back(toB, id)
        BY <2>1, <2>2, <3>1, <3>4, BackSent
      <4> HIDE DEF K
      <4> QED
        BY <3>1, <3>2, <3>3, <4>1
    <3>5. CASE id = k
      <4>1. IsFiniteSet(Back(out, id)) /\ Cardinality(Back(out, id)) = Cardinality(Back(toB, id)) + 1
        BY <2>1, <2>2, <3>1, <3>5, BackSent
      <4>2. Cardinality(Coming(toA, id)) >= 1
        <5>1. toA \in Seq(MessageA) /\ toA # <<>> /\ Carries(Head(toA), id)
          BY <1>2, <2>1, <3>5, TablesFacts DEF HandsBack
        <5>2. Shorter(toA, Tail(toA), Head(toA)) /\ Tail(toA) \in Seq(MessageA)
          BY <5>1, ShorterByTail
        <5>3. Cardinality(Coming(toA, id)) = Cardinality(Coming(Tail(toA), id)) + 1
          BY <5>1, <5>2, ComingTaken
        <5>4. Cardinality(Coming(Tail(toA), id)) \in Nat
          BY <5>2, ComingNumber
        <5> QED
          BY <5>3, <5>4
      <4>3. id \notin K
        BY <2>3, <3>5
      <4> HIDE DEF K
      <4> QED
        BY <3>1, <3>2, <4>1, <4>2, <4>3
    <3> QED
      BY <3>4, <3>5
  <2> HIDE DEF K
  <2> QED
    BY <2>3, <2>4, <2>5 DEF Leaves
<1> QED
  BY <1>1, <1>2 DEF Returns

\* The importer ends the connection: what it held is what its peer may still
\* be told about.
LEMMA LeftWhenLost ==
    ASSUME Account, NamedInv, LeftInv, TypeOK', NEW what, NEW inbox, NEW out, Returns(out),
           DisconnectA(what, inbox, out)
    PROVE  NamedInv' /\ LeftInv'
<1> DEFINE m == [type |-> "Abort"]
<1>1. TypeOK /\ out \in Seq(MessageB) /\ imports \in ImportTable /\ up["A"] \in BOOLEAN
  BY ReturnsType, ImporterTypes, ConstantFacts DEF Account, Basic, Tables, TypeOK
<1>2. /\ ~ up'["A"] /\ up'["B"] = up["B"] /\ exports' = exports
      /\ toB' = Append(out, m) /\ m \in MessageB /\ m.type = "Abort"
  BY <1>1, BMessages, ConstantFacts DEF DisconnectA, exporterVars, TypeOK
<1> HIDE DEF m
<1>3. Longer(out, toB', m)
  BY <1>1, <1>2, LongerByAppend
<1>4. ASSUME NEW K \in SUBSET Ids, Leaves(out, K)
      PROVE  LeftInv'
  <2>1. Covered(toB', K)
    BY <1>2, <1>3, <1>4, CoveredSent DEF Leaves, Names
  <2>2. \A id \in Ids : IsFiniteSet(Back(toB', id)) /\ Back(toB', id) = Back(out, id)
    <3>1. toB' \in Seq(MessageB) /\ \A id : ~ Gives(m, id)
      BY <1>2, TablesFacts DEF Gives, TypeOK
    <3>2. \A id \in Ids : IsFiniteSet(Back(out, id))
      BY <1>4 DEF Leaves
    <3> QED
      BY <1>1, <1>2, <1>3, <3>1, <3>2, BackSent
  <2>3. Leaves(toB, K)'
    BY <1>2, <1>4, <2>1, <2>2 DEF Leaves
  <2> QED
    BY <2>3 DEF LeftInv
<1>5. up["B"] => \E K \in SUBSET Ids : Leaves(out, K)
  BY HeldOrReturned
<1>6. LeftInv'
  BY <1>2, <1>4, <1>5 DEF LeftInv
<1> QED
  BY <1>2, <1>6 DEF NamedInv

\* The exporter reads on, and only a Release takes references away.
LEMMA NamedRead ==
    ASSUME Account, NamedInv, LeftInv, imports' = imports, up'["A"] = up["A"],
           \/ ~ up'["B"]
           \/ /\ up'["B"] = up["B"]
              /\ \A id \in Ids : RefsOf(exports'[id]) \in Nat /\ RefsOf(exports'[id]) >= RefsOf(exports[id])
              /\ toB' = toB \/ (toB # <<>> /\ toB' = Tail(toB) /\ Head(toB).type # "Release")
    PROVE  NamedInv' /\ LeftInv'
<1>1. TypeOK /\ toB \in Seq(MessageB) /\ Live' = Live
  BY TablesFacts DEF Account, Basic, Tables, Live
<1>2. CASE ~ up'["B"]
  BY <1>2 DEF NamedInv, LeftInv
<1>3. CASE /\ up'["B"] = up["B"] /\ up["B"]
           /\ \A id \in Ids : RefsOf(exports'[id]) \in Nat /\ RefsOf(exports'[id]) >= RefsOf(exports[id])
           /\ toB' = toB \/ (toB # <<>> /\ toB' = Tail(toB) /\ Head(toB).type # "Release")
  <2>1. ASSUME NEW K, Covered(toB, K) PROVE Covered(toB', K)
    <3>1. CASE toB' = toB
      BY <2>1, <3>1
    <3>2. CASE toB # <<>> /\ toB' = Tail(toB)
      BY <1>1, <2>1, <3>2, ShorterByTail, CoveredTaken
    <3> QED
      BY <1>3, <3>1, <3>2
  <2>2. NamedInv'
    BY <1>1, <1>3, <2>1 DEF NamedInv
  <2>3. ASSUME ~ up["A"] PROVE LeftInv'
    <3>1. PICK K \in SUBSET Ids : Leaves(toB, K)
      BY <1>3, <2>3 DEF LeftInv
    <3>2. ASSUME NEW id \in Ids
          PROVE  /\ IsFiniteSet(Back(toB', id))
                 /\ (IF id \in K THEN 1 ELSE 0) + Cardinality(Back(toB', id)) <= RefsOf(exports'[id])
      <4>1. /\ IsFiniteSet(Back(toB, id))
            /\ (IF id \in K THEN 1 ELSE 0) + Cardinality(Back(toB, id)) <= RefsOf(exports[id])
        BY <3>1 DEF Leaves
      <4>2. IsFiniteSet(Back(toB', id)) /\ Cardinality(Back(toB', id)) = Cardinality(Back(toB, id))
        <5>1. CASE toB' = toB
          BY <4>1, <5>1
        <5>2. CASE toB # <<>> /\ toB' = Tail(toB) /\ Head(toB).type # "Release"
          BY <1>1, <4>1, <5>2, BackSame
        <5> QED
          BY <1>3, <5>1, <5>2
      <4>3. Cardinality(Back(toB, id)) \in Nat /\ RefsOf(exports[id]) \in Nat
        BY <1>1, <4>1, AccountNumbers
      <4>4. RefsOf(exports'[id]) >= RefsOf(exports[id]) /\ RefsOf(exports'[id]) \in Nat
        BY <1>3
      <4> QED
        BY <4>1, <4>2, <4>3, <4>4
    <3>3. Leaves(toB, K)'
      BY <2>1, <3>1, <3>2 DEF Leaves
    <3> QED
      BY <3>1, <3>3 DEF LeftInv
  <2>4. up["A"] \in BOOLEAN /\ (up["A"] => LeftInv')
    BY <1>1, ConstantFacts DEF LeftInv, TypeOK
  <2> QED
    BY <2>2, <2>3, <2>4
<1>4. CASE ~ up["B"]
  BY <1>2, <1>4 DEF NamedInv, LeftInv
<1> QED
  BY <1>2, <1>3, <1>4

\* A Release that has been read may remove its export: no message left names it.
LEMMA NamedReleased ==
    ASSUME Account, NamedInv, LeftInv, TypeOK', up["B"], toB # <<>>, NEW m, m = Head(toB),
           HandleRelease(m)
    PROVE  NamedInv' /\ LeftInv' /\ ~ DisconnectB("invalid release", Tail(toB)) /\ up' = up
<1>1. Tables /\ TypeOK /\ toB \in Seq(MessageB) /\ exports \in ExportTable /\ exports' \in ExportTable
  <2>1. exports' \in ExportTable
    BY DEF TypeOK, ExportTable
  <2> QED
    BY <2>1, TablesFacts DEF Account, Basic, Tables
<1>2. Shorter(toB, Tail(toB), m) /\ m.type = "Release" /\ 1 \in 1 .. Len(toB) /\ toB[1] = m
  <2>1. Shorter(toB, Tail(toB), m) /\ m.type = "Release"
    BY <1>1, ShorterByTail DEF HandleRelease
  <2> QED
    BY <2>1 DEF Shorter
<1>3. /\ m \in MessageB /\ m.id \in Ids /\ m.refs \in Nat \ {0}
      /\ \/ /\ DisconnectB("invalid release", Tail(toB)) /\ RefsOf(exports[m.id]) < m.refs
         \/ /\ toB' = Tail(toB) /\ UNCHANGED <<up, importerVars>>
            /\ RefsOf(exports'[m.id]) = RefsOf(exports[m.id]) - m.refs
            /\ \A id \in Ids : id # m.id => exports'[id] = exports[id]
  BY <1>1, HandleReleaseTables
<1>4. RefsOf(exports[m.id]) >= m.refs /\ RefsOf(exports[m.id]) \in Nat
  <2>1. \A i \in 1 .. Len(toB), id \in Ids : Gives(toB[i], id) => RefsOf(exports[id]) >= toB[i].refs
    BY NamedIsLive
  <2>2. Gives(toB[1], m.id)
    BY <1>2 DEF Gives
  <2> QED
    BY <1>1, <1>2, <1>3, <2>1, <2>2, AccountNumbers
<1>5. /\ toB' = Tail(toB) /\ UNCHANGED <<up, importerVars>>
      /\ RefsOf(exports'[m.id]) = RefsOf(exports[m.id]) - m.refs
      /\ \A id \in Ids : id # m.id => exports'[id] = exports[id]
  <2>1. ~ RefsOf(exports[m.id]) < m.refs
    <3>1. \A x, y \in Nat : x >= y => ~ (x < y)
      OBVIOUS
    <3> QED
      BY ONLY <1>3, <1>4, <3>1
  <2> QED
    BY <1>3, <2>1
<1>6. up'["B"] /\ ~ DisconnectB("invalid release", Tail(toB))
  BY <1>1, <1>5, ConstantFacts DEF DisconnectB, TypeOK
<1>7. imports' = imports /\ Live' = Live
  BY <1>5 DEF importerVars, Live
<1>8. Shorter(toB, toB', m) /\ toB' \in Seq(MessageB)
  BY <1>1, <1>2, <1>5, ShorterByTail
<1>9. NamedInv'
  BY <1>5, <1>7, <1>8, CoveredTaken DEF NamedInv
<1>10. ASSUME ~ up["A"] PROVE LeftInv'
  <2>1. PICK K \in SUBSET Ids : Leaves(toB, K)
    BY <1>10 DEF LeftInv
  <2>2. Covered(toB', K)
    BY <1>8, <2>1, CoveredTaken DEF Leaves
  <2>3. ASSUME NEW id \in Ids
        PROVE  /\ IsFiniteSet(Back(toB', id))
               /\ (IF id \in K THEN 1 ELSE 0) + Cardinality(Back(toB', id)) <= RefsOf(exports'[id])
    <3>1. /\ IsFiniteSet(Back(toB, id))
          /\ (IF id \in K THEN 1 ELSE 0) + Cardinality(Back(toB, id)) <= RefsOf(exports[id])
      BY <2>1 DEF Leaves
    <3>2. /\ IsFiniteSet(Back(toB', id))
          /\ Gives(m, id) => Cardinality(Back(toB, id)) = Cardinality(Back(toB', id)) + m.refs
          /\ ~ Gives(m, id) => Cardinality(Back(toB, id)) = Cardinality(Back(toB', id))
      <4>1. \A n \in MessageB : Shorter(toB, toB', n) =>
              /\ IsFiniteSet(Back(toB', id))
              /\ Gives(n, id) => Cardinality(Back(toB, id)) = Cardinality(Back(toB', id)) + n.refs
              /\ ~ Gives(n, id) => Cardinality(Back(toB, id)) = Cardinality(Back(toB', id))
        BY ONLY <1>1, <1>8, <3>1, BackTaken
      <4> QED
        BY <1>3, <1>8, <4>1
    <3>3. /\ Cardinality(Back(toB, id)) \in Nat /\ RefsOf(exports[id]) \in Nat
          /\ Cardinality(Back(toB', id)) \in Nat
      BY <1>1, <3>1, <3>2, AccountNumbers, FS_CardinalityType
    <3>4. CASE id = m.id
      <4>1. Gives(m, id) /\ RefsOf(exports'[id]) = RefsOf(exports[id]) - m.refs
        BY <1>2, <1>5, <3>4 DEF Gives
      <4>2. Cardinality(Back(toB, id)) = Cardinality(Back(toB', id)) + m.refs /\ m.refs \in Nat
        BY <1>3, <3>2, <4>1
      <4> DEFINE k == IF id \in K THEN 1 ELSE 0
                 b1 == Cardinality(Back(toB, id))
                 b2 == Cardinality(Back(toB', id))
                 x == RefsOf(exports[id])
                 n == m.refs
      <4>3. /\ k \in Nat /\ b1 \in Nat /\ b2 \in Nat /\ x \in Nat /\ n \in Nat
            /\ k + b1 <= x /\ b1 = b2 + n /\ RefsOf(exports'[id]) = x - n
        BY <3>1, <3>3, <4>1, <4>2
      <4> HIDE DEF k, b1, b2, x, n
      <4>4. k + b2 <= x - n
        BY <4>3
      <4> QED
        BY <3>2, <4>3, <4>4 DEF k, b2
    <3>5. CASE id # m.id
      BY <1>5, <3>1, <3>2, <3>3, <3>5 DEF Gives
    <3> QED
      BY <3>4, <3>5
  <2>4. Leaves(toB, K)'
    BY <2>2, <2>3 DEF Leaves
  <2> QED
    BY <2>4 DEF LeftInv
<1>11. up["A"] \in BOOLEAN /\ (up["A"] => LeftInv')
  BY <1>1, <1>5, ConstantFacts DEF LeftInv, TypeOK
<1> QED
  BY <1>5, <1>6, <1>9, <1>10, <1>11

\* The exporter's steps.
LEMMA ExporterNamed ==
    ASSUME Account, NamedInv, LeftInv, TypeOK'
    PROVE  /\ HandleB \/ LoseB => NamedInv' /\ LeftInv'
           /\ \A t \in tasks : ResolveTask(t) => NamedInv' /\ LeftInv'
           /\ \A e : Reply(e) => NamedInv' /\ LeftInv'
           /\ \A p \in Promises, c \in Caps : ResolvePromise(p, c) => NamedInv' /\ LeftInv'
           /\ \A c \in Givable : Give(c) => NamedInv' /\ LeftInv'
<1>1. Tables /\ TypeOK /\ up["A"] \in BOOLEAN /\ up["B"] \in BOOLEAN
  BY ConstantFacts DEF Account, Basic, Tables, TypeOK
<1>2. \A id \in Ids : RefsOf(exports[id]) \in Nat /\ RefsOf(exports'[id]) \in Nat
  <2>1. exports' \in ExportTable /\ exports \in ExportTable
    BY <1>1, TablesFacts DEF TypeOK, ExportTable
  <2> QED
    BY <2>1 DEF ExportTable, Export, RefsOf
<1>3. ASSUME NEW what, NEW inbox, DisconnectB(what, inbox) PROVE NamedInv' /\ LeftInv'
  <2>1. ~ up'["B"]
    BY <1>1, <1>3, ConstantFacts DEF DisconnectB, TypeOK
  <2> QED
    BY <2>1 DEF NamedInv, LeftInv
<1>4. ASSUME UNCHANGED <<up, exports, importerVars>>,
             toB' = toB \/ (toB # <<>> /\ toB' = Tail(toB) /\ Head(toB).type # "Release")
      PROVE  NamedInv' /\ LeftInv'
  BY <1>2, <1>4, NamedRead DEF importerVars
<1> DEFINE m == Head(toB)
<1>5. CASE up["B"] /\ toB # <<>> /\ HandleCall(m)
  <2>1. CASE exports[m.id] = None
    BY <1>3, <1>5, <2>1 DEF HandleCall
  <2>2. CASE exports[m.id] # None
    BY <1>4, <1>5, <2>2 DEF HandleCall
  <2> QED
    BY <2>1, <2>2
<1>6. CASE up["B"] /\ toB # <<>> /\ HandleSenderLoopback(m)
  <2>1. CASE \E what : DisconnectB(what, Tail(toB))
    BY <1>3, <2>1
  <2>2. CASE ~ \E what : DisconnectB(what, Tail(toB))
    BY <1>4, <1>6, <2>2 DEF HandleSenderLoopback
  <2> QED
    BY <2>1, <2>2
<1>7. CASE up["B"] /\ toB # <<>> /\ HandleRelease(m)
  BY <1>7, NamedReleased
<1>8. HandleB \/ LoseB => NamedInv' /\ LeftInv'
  BY <1>3, <1>5, <1>6, <1>7 DEF HandleB, LoseB, HandleAbortB
<1>9. ASSUME NEW t \in tasks, ResolveTask(t) PROVE NamedInv' /\ LeftInv'
  <2>1. CASE DropTask(t) \/ SendException(t) \/ EntryNotFound(t)
    <3>1. UNCHANGED <<up, toB, exports, importerVars>>
      BY <1>1, <2>1, TaskEndTables
    <3> QED
      BY <1>4, <3>1
  <2>2. CASE ReuseEntry(t)
    <3>1. UNCHANGED <<up, toB, importerVars>>
      BY <2>2 DEF ReuseEntry
    <3>2. \A id \in Ids : RefsOf(exports'[id]) = RefsOf(exports[id])
      BY <1>1, <2>2, ReuseEntryTables
    <3> QED
      BY <1>2, <3>1, <3>2, NamedRead DEF importerVars
  <2>3. CASE SendResolve(t)
    <3>1. UNCHANGED <<up, toB, importerVars>> /\ res[t.on] # None /\ exports[t.id] # None
      BY <2>3 DEF SendResolve
    <3>2. \A id \in Ids : RefsOf(Redirected(t)[id]) = RefsOf(exports[id])
      BY <1>1, <3>1, RedirectedFacts
    <3>3. \A id \in Ids : RefsOf(exports'[id]) >= RefsOf(exports[id])
      <4>1. PICK d \in Desc : Adds(Redirected(t), exports', d, Ends[t.on])
        BY <1>1, <2>3, SendResolveTables
      <4> QED
        BY <1>2, <3>2, <4>1 DEF Adds
    <3> QED
      BY <1>2, <3>1, <3>3, NamedRead DEF importerVars
  <2> QED
    BY <1>9, <2>1, <2>2, <2>3 DEF ResolveTask
<1>10. ASSUME NEW e, Reply(e) PROVE NamedInv' /\ LeftInv'
  BY <1>4, <1>10 DEF Reply
<1>11. ASSUME NEW p \in Promises, NEW c \in Caps, ResolvePromise(p, c) PROVE NamedInv' /\ LeftInv'
  BY <1>4, <1>11 DEF ResolvePromise
<1>12. ASSUME NEW c \in Givable, Give(c) PROVE NamedInv' /\ LeftInv'
  <2>1. UNCHANGED <<up, toB, importerVars>>
    BY <1>12 DEF Give
  <2>2. \A id \in Ids : RefsOf(exports'[id]) >= RefsOf(exports[id])
    <3>1. PICK d \in Desc : Adds(exports, exports', d, Ends[c])
      BY <1>1, <1>12, GiveTables
    <3> QED
      BY <1>2, <3>1 DEF Adds
  <2> QED
    BY <1>2, <2>1, <2>2, NamedRead DEF importerVars
<1> QED
  BY <1>8, <1>9, <1>10, <1>11, <1>12

-----------------------------------------------------------------------------
\* What handle_resolve sends, and whom it makes wait.
Loopback(id, e) == [type |-> "SenderLoopback", embargo |-> e, id |-> id]
Embargoes(m) ==
    \E e \in Refs, c \in Refs :
        /\ embargoes[e] = None /\ embargoes' = [embargoes EXCEPT ![e] = c]
        /\ imports[m.id] # None /\ With(m) = Local
        /\ GivesUp(Append(toB, Loopback(m.id, e)))

\* What handle_resolve does to the clients and the tables, and what it sends.
LEMMA ResolveEffect ==
    ASSUME Basic, up["A"], toA # <<>>, NEW m, m = Head(toA), HandleResolve(m)
    PROVE  /\ m \in MessageA /\ m.type = "Resolve" /\ m.id \in Ids
           /\ \/ /\ DisconnectA("not a promise", Tail(toA), HandedBack(m))
                 /\ imports[m.id] # None => imports[m.id].promise = None
              \/ /\ UNCHANGED <<up, fault, exporterVars, held, made, initiated>> /\ toA' = Tail(toA)
                 /\ (embargoes' = embargoes /\ GivesUp(toB)) \/ Embargoes(m)
                 /\ \A id \in Ids : imports'[id] # None => imports[id] # None \/ Carries(m, id)
<1> DEFINE c == Received(m)[m.id].promise
<1>1. TypeOK /\ m \in MessageA /\ m.type = "Resolve" /\ m.id \in Ids
      /\ UNCHANGED <<made, initiated>> /\ toB \in Seq(MessageB)
  BY HeadA, MessageAFields, TablesFacts DEF Basic, Tables, HandleResolve
<1>2. \/ /\ Received(m)[m.id] = None
         /\ Collect(Received(m), held, clients, old, toB)
         /\ UNCHANGED <<up, fault, embargoes, gate, exporterVars>>
         /\ toA' = Tail(toA)
      \/ /\ Received(m)[m.id] # None /\ c = None
         /\ DisconnectA("not a promise", Tail(toA), HandedBack(m))
      \/ /\ Received(m)[m.id] # None /\ c # None /\ clients[c] = None
         /\ Collect(Taken(m), held, clients, old, toB)
         /\ UNCHANGED <<up, fault, embargoes, gate, exporterVars>>
         /\ toA' = Tail(toA)
      \/ /\ Received(m)[m.id] # None /\ c # None /\ clients[c] # None
         /\ ResolveClient(c, With(m), Taken(m))
         /\ UNCHANGED <<up, fault, exporterVars>>
         /\ toA' = Tail(toA)
  BY DEF HandleResolve, Received, With, Taken, WithApp, WithPromise
<1>3. Received(m) \in ImportTable /\ (Received(m)[m.id] # None => Taken(m) \in ImportTable)
  BY <1>1, ReceivedFacts, TakenFacts
<1> DEFINE Brought == \A id \in Ids : imports'[id] # None => imports[id] # None \/ Carries(m, id)
<1>8. ASSUME NEW imps \in ImportTable, \A id \in Ids : imps[id] # None => Received(m)[id] # None,
             \A id \in Ids : imports'[id] # None => imps[id] # None
      PROVE  Brought
  BY <1>1, <1>8, ReceivedFacts, WithKinds
<1>9. Received(m)[m.id] # None => \A id \in Ids : Taken(m)[id] # None => Received(m)[id] # None
  BY <1>1, TakenFacts
<1> HIDE DEF Brought
<1>4. CASE /\ Received(m)[m.id] = None
           /\ Collect(Received(m), held, clients, old, toB)
           /\ UNCHANGED <<up, fault, embargoes, gate, exporterVars>>
           /\ toA' = Tail(toA)
  <2>1. held' = held
    BY <1>4 DEF Collect
  <2>2. Collect(Received(m), held, clients, old, toB) /\ Received(m) \in ImportTable
    BY <1>3, <1>4
  <2>3. GivesUp(toB) /\ \A id \in Ids : imports'[id] # None => Received(m)[id] # None
    BY ONLY <1>1, <2>2, CollectGivesUp
  <2>4. Brought
    BY <1>3, <1>8, <1>9, <1>4, <2>3
  <2> QED
    BY <1>1, <1>4, <2>1, <2>3, <2>4 DEF Brought
<1>5. CASE /\ Received(m)[m.id] # None /\ c = None
           /\ DisconnectA("not a promise", Tail(toA), HandedBack(m))
  <2>1. imports[m.id] # None => imports[m.id].promise = None
    BY <1>1, <1>5, ReceivedFacts
  <2> QED
    BY <1>1, <1>5, <2>1
<1>6. CASE /\ Received(m)[m.id] # None /\ c # None /\ clients[c] = None
           /\ Collect(Taken(m), held, clients, old, toB)
           /\ UNCHANGED <<up, fault, embargoes, gate, exporterVars>>
           /\ toA' = Tail(toA)
  <2>1. held' = held
    BY <1>6 DEF Collect
  <2>2. Collect(Taken(m), held, clients, old, toB) /\ Taken(m) \in ImportTable
    BY <1>3, <1>6
  <2>3. GivesUp(toB) /\ \A id \in Ids : imports'[id] # None => Taken(m)[id] # None
    BY ONLY <1>1, <2>2, CollectGivesUp
  <2>4. Brought
    BY <1>3, <1>8, <1>9, <1>6, <2>3
  <2> QED
    BY <1>1, <1>6, <2>1, <2>3, <2>4 DEF Brought
<1>7. CASE /\ Received(m)[m.id] # None /\ c # None /\ clients[c] # None
           /\ ResolveClient(c, With(m), Taken(m))
           /\ UNCHANGED <<up, fault, exporterVars>>
           /\ toA' = Tail(toA)
  <2> DEFINE e == Lowest({x \in Refs : embargoes[x] = None})
             embargo == NeedsEmbargo(c, With(m))
             pcs == [clients EXCEPT ![c].cap = IF embargo THEN Gated(c) ELSE With(m)]
             olds == [old EXCEPT ![c] = clients[c].cap]
             ms == IF embargo THEN Append(toB, Disembargo(c, e)) ELSE toB
  <2>1. /\ embargoes' = IF embargo THEN [embargoes EXCEPT ![e] = c] ELSE embargoes
        /\ Collect(Taken(m), held, pcs, olds, ms)
    BY <1>7 DEF ResolveClient
  <2>2. /\ imports[m.id] # None /\ c = imports[m.id].promise
    BY <1>1, <1>7, ReceivedFacts
  <2>3. c \in Refs
    BY <1>1, <1>7, <2>2, ImporterTypes DEF ImportTable, ImportEntry
  <2>4. clients[c].cap = Import(m.id) /\ gate[c] = NoGate
    BY <1>1, <1>7, <2>2 DEF PromiseInv, Basic, Clients
  <2>5. e \in Refs /\ embargoes[e] = None
    BY <2>3, <2>4, EmbargoFree
  <2>6. Disembargo(c, e) = Loopback(m.id, e)
    BY <2>4, ClientKinds DEF Disembargo, Loopback
  <2>7. held' = held
    BY <2>1 DEF Collect
  <2> HIDE DEF e, c, pcs, olds
  <2>8. Loopback(m.id, e) \in MessageB
    BY <1>1, <2>5, BMessages DEF Loopback
  <2>9. CASE embargo
    <3>1. ms \in Seq(MessageB) /\ ms = Append(toB, Loopback(m.id, e))
      BY <1>1, <2>6, <2>8, <2>9
    <3>2. GivesUp(ms) /\ \A id \in Ids : imports'[id] # None => Taken(m)[id] # None
      BY <1>3, <1>7, <2>1, <3>1, CollectGivesUp
    <3>4. Brought
      BY <1>3, <1>7, <1>8, <1>9, <3>2
    <3>3. With(m) = Local
      BY <2>9 DEF NeedsEmbargo
    <3> QED
      BY <1>1, <1>7, <2>1, <2>2, <2>3, <2>5, <2>7, <2>9, <3>1, <3>2, <3>3, <3>4 DEF Embargoes, Brought
  <2>10. CASE ~ embargo
    <3>1. GivesUp(toB) /\ \A id \in Ids : imports'[id] # None => Taken(m)[id] # None
      BY <1>1, <1>3, <1>7, <2>1, <2>10, CollectGivesUp
    <3>2. Brought
      BY <1>3, <1>7, <1>8, <1>9, <3>1
    <3> QED
      BY <1>1, <1>7, <2>1, <2>7, <2>10, <3>1, <3>2 DEF Brought
  <2> QED
    BY <2>9, <2>10
<1> QED
  BY <1>2, <1>4, <1>5, <1>6, <1>7

\* A step of the importer that leaves its peer's table alone.
LEMMA NamedFrame ==
    ASSUME NamedInv, LeftInv, up' = up, exports' = exports, toB' = toB, imports' = imports \/ ~ up["A"]
    PROVE  NamedInv' /\ LeftInv'
BY DEF NamedInv, LeftInv, Leaves, Live

\* An import whose references the importer owes may be named until it gives them back.
LEMMA NamedOwes ==
    ASSUME Account, NamedInv, LeftInv, TypeOK', UNCHANGED <<up, exporterVars>>, up["A"],
           NEW ms \in Seq(MessageB), Finite => Repaid, GivesUp(ms),
           \/ ms = toB
           \/ \E m \in MessageB : ms = Append(toB, m) /\ m.type # "Release" /\ \A id \in Ids : Names(m, id) => id \in Live
    PROVE  NamedInv' /\ LeftInv'
<1>1. CASE up["B"]
  <2>1. Finite /\ Covered(toB, Live) /\ toB \in Seq(MessageB) /\ Repaid
    <3>1. Finite
      BY <1>1 DEF Account, Ledger, Finite
    <3> QED
      BY <1>1, <3>1, TablesFacts DEF Account, Basic, Tables, NamedInv
  <2>2. Covered(ms, Live) /\ \A id \in Ids : Back(ms, id) = Back(toB, id)
    <3>1. CASE ms = toB
      BY <2>1, <3>1
    <3>2. ASSUME NEW m \in MessageB, ms = Append(toB, m), m.type # "Release", \A id \in Ids : Names(m, id) => id \in Live
          PROVE  Covered(ms, Live) /\ \A id \in Ids : Back(ms, id) = Back(toB, id)
      <4>1. Longer(toB, ms, m)
        BY <2>1, <3>2, LongerByAppend
      <4>2. Covered(ms, Live)
        BY <2>1, <3>2, <4>1, CoveredSent
      <4>3. \A id \in Ids : Back(ms, id) = Back(toB, id)
        BY <2>1, <3>2, <4>1, BackSent DEF Finite, Gives
      <4> QED
        BY <4>2, <4>3
    <3> QED
      BY <3>1, <3>2
  <2>3. NamedInv'
    BY <1>1, <2>1, <2>2, NamedGivesUp
  <2> QED
    BY <2>3 DEF LeftInv
<1>2. CASE ~ up["B"]
  BY <1>2 DEF NamedInv, LeftInv
<1> QED
  BY <1>1, <1>2

\* What handle_resolve owes, it gives back in the Releases it sends.
LEMMA OwesIsRepaid ==
    ASSUME TypeOK, Finite, OwesSame \/ \E m : Owes(m)
    PROVE  Repaid
<1>1. \A id \in Ids : RefsOf(imports[id]) \in Nat /\ Cardinality(Back(toB, id)) \in Nat
  BY AccountNumbers DEF Finite
<1>2. CASE OwesSame
  BY <1>1, <1>2 DEF OwesSame, Repaid
<1>3. ASSUME NEW m, Owes(m) PROVE Repaid
  BY <1>1, <1>3 DEF Owes, Repaid
<1> QED
  BY <1>2, <1>3

\* Request::send writes to an import that is in the table.
LEMMA CallNames ==
    ASSUME Basic, NEW r \in Refs, Call(r)
    PROVE  \/ toB' = toB
           \/ /\ up["A"]
              /\ \E id \in Live, k \in Calls : toB' = Append(toB, [type |-> "Call", id |-> id, call |-> k])
<1> DEFINE call == <<r, made + 1>>
           cap == Cap(r)
<1>1. /\ toB' = IF cap[1] = "import" /\ up["A"]
                THEN Append(toB, [type |-> "Call", id |-> cap[2], call |-> call]) ELSE toB
      /\ held[r] # Nothing
  BY DEF Call, Cap
<1>2. call \in Calls
  BY DEF Basic, Tables, TypeOK, Calls
<1>3. ASSUME cap[1] = "import", up["A"] PROVE cap[2] \in Live
  <2>1. CASE held[r][1] # "promise" /\ held[r] \in {Local} \cup Imports /\ cap = held[r]
    <3>1. PICK id \in Ids : cap = Import(id) /\ cap[2] = id
      BY <1>3, <2>1, ClientKinds DEF Imports
    <3>2. Kept(id, held, clients, old)
      BY <2>1, <3>1 DEF Kept
    <3> QED
      BY <1>3, <3>1, <3>2 DEF Basic, Clients, KeptInv, Live
  <2>2. ASSUME NEW c \in Refs, clients[c] # None, cap = clients[c].cap,
               cap \in {Local, Broken, Gated(c)} \cup Imports
        PROVE  cap[2] \in Live
    <3>1. PICK id \in Ids : cap = Import(id) /\ cap[2] = id
      BY <1>3, <2>2, ClientKinds DEF Imports
    <3>2. Kept(id, held, clients, old)
      BY <2>2, <3>1 DEF Kept
    <3> QED
      BY <1>3, <3>1, <3>2 DEF Basic, Clients, KeptInv, Live
  <2> HIDE DEF cap
  <2> QED
    BY <1>1, <2>1, <2>2, CapFound DEF cap
<1> HIDE DEF cap, call
<1> QED
  BY <1>1, <1>2, <1>3

\* The importer's steps.
LEMMA ClientNamed ==
    ASSUME Account, NamedInv, LeftInv, TypeOK'
    PROVE  /\ \A c \in Refs : DropOld(c) \/ DriveGate(c) \/ Abandon(c) => NamedInv' /\ LeftInv'
           /\ \A r \in Refs : Call(r) \/ DropRef(r) => NamedInv' /\ LeftInv'
<1>1. /\ Basic /\ TypeOK /\ toB \in Seq(MessageB) /\ imports \in ImportTable
  BY TablesFacts, ImporterTypes DEF Account, Basic, Tables
<1>2. ASSUME UNCHANGED <<up, exporterVars>>, Finite /\ up["A"] => OwesSame,
             \E refs, pcs, olds : Collect(imports, refs, pcs, olds, toB)
      PROVE  NamedInv' /\ LeftInv'
  <2>1. CASE up["A"]
    <3>1. GivesUp(toB)
      BY <1>1, <1>2, CollectGivesUp
    <3>2. Finite => Repaid
      BY <1>1, <1>2, <2>1, OwesIsRepaid
    <3> QED
      BY <1>1, <1>2, <2>1, <3>1, <3>2, NamedOwes
  <2>2. CASE ~ up["A"]
    <3>1. toB' = toB
      BY <1>2, <2>2 DEF Collect
    <3> QED
      BY <1>2, <2>2, <3>1, NamedFrame DEF exporterVars
  <2> QED
    BY <2>1, <2>2
<1>3. ASSUME NEW c \in Refs, DropOld(c) PROVE NamedInv' /\ LeftInv'
  BY <1>1, <1>2, <1>3, DropOldBasic DEF DropOld
<1>4. ASSUME NEW r \in Refs, DropRef(r) PROVE NamedInv' /\ LeftInv'
  <2>1. \E refs, pcs, olds : Collect(imports, refs, pcs, olds, toB)
    BY <1>4 DEF DropRef
  <2> QED
    BY <1>1, <1>2, <1>4, <2>1, DropRefBasic
<1>5. ASSUME NEW c \in Refs, DriveGate(c) \/ Abandon(c) PROVE NamedInv' /\ LeftInv'
  BY <1>5, NamedFrame DEF DriveGate, Abandon, exporterVars
<1>6. ASSUME NEW r \in Refs, Call(r) PROVE NamedInv' /\ LeftInv'
  <2>1. UNCHANGED <<up, exporterVars, imports>> /\ (Finite => OwesSame)
    BY <1>1, <1>6, CallBasic
  <2>2. CASE toB' = toB
    BY <2>1, <2>2, NamedFrame DEF exporterVars
  <2>3. ASSUME up["A"], NEW id \in Live, NEW k \in Calls, toB' = Append(toB, [type |-> "Call", id |-> id, call |-> k])
        PROVE  NamedInv' /\ LeftInv'
    <3> DEFINE m == [type |-> "Call", id |-> id, call |-> k]
    <3>1. m \in MessageB /\ m.type = "Call" /\ m.id = id /\ toB' = Append(toB, m)
      BY <2>3, BMessages DEF Live
    <3> HIDE DEF m
    <3>2. toB' \in Seq(MessageB) /\ GivesUp(toB') /\ \A j \in Ids : Names(m, j) => j \in Live
      BY <1>1, <3>1 DEF GivesUp, Names
    <3>3. Finite => Repaid
      BY <1>1, <2>1, OwesIsRepaid
    <3>4. \E x \in MessageB : toB' = Append(toB, x) /\ x.type # "Release" /\ \A j \in Ids : Names(x, j) => j \in Live
      BY <3>1, <3>2
    <3> QED
      BY <2>1, <2>3, <3>2, <3>3, <3>4, NamedOwes
  <2> QED
    BY <1>1, <1>6, <2>2, <2>3, CallNames
<1> QED
  BY <1>3, <1>4, <1>5, <1>6

\* Whatever the importer reads, it goes on naming only what is covered.
LEMMA HandleANamed ==
    ASSUME Account, NamedInv, LeftInv, TypeOK', HandleA \/ LoseA
    PROVE  NamedInv' /\ LeftInv'
<1> DEFINE m == Head(toA)
<1>1. Basic /\ TypeOK /\ toB \in Seq(MessageB)
  BY TablesFacts DEF Account, Basic, Tables
<1>2. ASSUME NEW what, NEW inbox, NEW out, Returns(out), DisconnectA(what, inbox, out)
      PROVE  NamedInv' /\ LeftInv'
  BY <1>2, LeftWhenLost
<1>3. CASE LoseA \/ HandleAbortA(m)
  BY <1>2, <1>3 DEF LoseA, HandleAbortA, Returns
<1>4. ASSUME up["A"], UNCHANGED <<up, toB, exporterVars>>, Finite => Owes(m) PROVE NamedInv' /\ LeftInv'
  <2>1. GivesUp(toB)
    BY <1>4 DEF GivesUp
  <2>2. Finite => Repaid
    BY <1>1, <1>4, OwesIsRepaid
  <2> HIDE DEF m
  <2> QED
    BY <1>1, <1>4, <2>1, <2>2, NamedOwes
<1>5. CASE up["A"] /\ toA # <<>> /\ ReceiveCap(m)
  BY <1>1, <1>4, <1>5, ReceiveCapBasic
<1>6. CASE HandleCallA(m)
  BY <1>6, NamedFrame DEF HandleCallA, exporterVars, importerVars
<1>7. CASE HandleReceiverLoopback(m)
  <2>1. CASE embargoes[m.embargo] = None
    BY <1>2, <1>7, <2>1 DEF HandleReceiverLoopback, Returns
  <2>2. CASE embargoes[m.embargo] # None
    BY <1>7, <2>2, NamedFrame DEF HandleReceiverLoopback, exporterVars
  <2> QED
    BY <2>1, <2>2
<1>8. CASE up["A"] /\ toA # <<>> /\ HandleResolve(m)
  <2>1. m.id \in Ids /\ Returns(HandedBack(m))
    BY <1>1, <1>8, ResolveEffect, ReturnsHandedBack
  <2>2. CASE DisconnectA("not a promise", Tail(toA), HandedBack(m))
    BY <1>2, <2>1, <2>2
  <2>3. ASSUME ~ DisconnectA("not a promise", Tail(toA), HandedBack(m)) PROVE NamedInv' /\ LeftInv'
    <3>1. /\ UNCHANGED <<up, fault, exporterVars>>
          /\ (embargoes' = embargoes /\ GivesUp(toB)) \/ Embargoes(m)
      BY <1>1, <1>8, <2>3, ResolveEffect
    <3>2. up'["A"]
      BY <1>8, <3>1
    <3>3. Finite => Repaid
      BY <1>1, <1>8, <3>2, HandleResolveBasic, OwesIsRepaid
    <3>4. CASE GivesUp(toB)
      BY <1>1, <1>8, <3>1, <3>3, <3>4, NamedOwes
    <3>5. CASE Embargoes(m)
      <4>1. PICK e \in Refs : imports[m.id] # None /\ GivesUp(Append(toB, Loopback(m.id, e)))
        BY <3>5 DEF Embargoes
      <4> DEFINE x == Loopback(m.id, e)
                 ms == Append(toB, x)
      <4>2. x \in MessageB /\ x.type = "SenderLoopback" /\ x.id = m.id
        BY <2>1, BMessages DEF Loopback
      <4> HIDE DEF x
      <4>3. \A j \in Ids : Names(x, j) => j \in Live
        BY <4>1, <4>2 DEF Names, Live
      <4>4. ms \in Seq(MessageB) /\ \E y \in MessageB : ms = Append(toB, y) /\ y.type # "Release" /\ \A j \in Ids : Names(y, j) => j \in Live
        BY <1>1, <4>2, <4>3
      <4>5. GivesUp(ms)
        BY <4>1 DEF x
      <4> HIDE DEF ms
      <4> QED
        BY <1>8, <3>1, <3>3, <4>4, <4>5, NamedOwes
    <3> QED
      BY <3>1, <3>4, <3>5
  <2> QED
    BY <2>2, <2>3
<1> QED
  BY <1>3, <1>5, <1>6, <1>7, <1>8 DEF HandleA

-----------------------------------------------------------------------------
(* Channels compared: nothing of the given types was added *)

Follows(t, t2, T) ==
    \E k \in {0, 1} : \A i \in 1 .. Len(t2) :
        t2[i].type \notin T \/ (i + k \in 1 .. Len(t) /\ t2[i] = t[i + k])

\* A channel that follows another one, up to some types of messages, read out.
LEMMA FollowsFacts ==
    ASSUME NEW t, NEW t2, NEW T, Len(t) \in Nat
    PROVE  /\ t2 = t => Follows(t, t2, T)
           /\ \A m : Longer(t, t2, m) /\ m.type \notin T => Follows(t, t2, T)
           /\ \A m : Shorter(t, t2, m) => Follows(t, t2, T)
           /\ \A calls : LongerBy(t, t2, calls) /\ "Call" \notin T => Follows(t, t2, T)
<1>1. ASSUME \A i \in 1 .. Len(t2) : t2[i].type \notin T \/ (i + 0 \in 1 .. Len(t) /\ t2[i] = t[i + 0])
      PROVE  Follows(t, t2, T)
  BY <1>1 DEF Follows
<1>2. ASSUME \A i \in 1 .. Len(t2) : t2[i].type \notin T \/ (i + 1 \in 1 .. Len(t) /\ t2[i] = t[i + 1])
      PROVE  Follows(t, t2, T)
  BY <1>2 DEF Follows
<1>3. t2 = t => Follows(t, t2, T)
  BY <1>1
<1>4. ASSUME NEW m, Longer(t, t2, m), m.type \notin T PROVE Follows(t, t2, T)
  <2> SUFFICES ASSUME NEW i \in 1 .. Len(t2)
               PROVE  t2[i].type \notin T \/ (i + 0 \in 1 .. Len(t) /\ t2[i] = t[i + 0])
    BY <1>1
  <2> QED
    BY <1>4 DEF Longer
<1>5. ASSUME NEW m, Shorter(t, t2, m) PROVE Follows(t, t2, T)
  <2> SUFFICES ASSUME NEW i \in 1 .. Len(t2)
               PROVE  t2[i].type \notin T \/ (i + 1 \in 1 .. Len(t) /\ t2[i] = t[i + 1])
    BY <1>2
  <2> QED
    BY <1>5 DEF Shorter
<1>6. ASSUME NEW calls, LongerBy(t, t2, calls), "Call" \notin T PROVE Follows(t, t2, T)
  <2> SUFFICES ASSUME NEW i \in 1 .. Len(t2)
               PROVE  t2[i].type \notin T \/ (i + 0 \in 1 .. Len(t) /\ t2[i] = t[i + 0])
    BY <1>1
  <2>1. Len(t2) \in Nat /\ i \in Nat /\ i >= 1
    BY <1>6 DEF LongerBy
  <2>2. CASE i <= Len(t)
    BY <1>6, <2>1, <2>2 DEF LongerBy
  <2>3. CASE i > Len(t)
    BY <1>6, <2>1, <2>3 DEF LongerBy
  <2> QED
    BY <2>1, <2>2, <2>3
<1> QED
  BY <1>3, <1>4, <1>5, <1>6

\* What disconnect sends is of no type but these.
LEMMA ReturnsFollow ==
    ASSUME TypeOK, NEW out, Returns(out), toB' = Append(out, [type |-> "Abort"]),
           NEW T, T \subseteq {"Call", "SenderLoopback"}
    PROVE  Follows(toB, toB', T)
<1> DEFINE x == [type |-> "Abort"]
<1>1. x \in MessageB /\ x.type = "Abort" /\ out \in Seq(MessageB) /\ toB \in Seq(MessageB)
  BY BMessages, ReturnsType, TablesFacts
<1>2. Longer(out, toB', x) /\ Len(out) \in Nat /\ Len(toB) \in Nat
  BY <1>1, LongerByAppend
<1> HIDE DEF x
<1>3. CASE out = toB
  BY <1>1, <1>2, <1>3, FollowsFacts
<1>4. ASSUME NEW id \in Ids, HandsBack(out, id) PROVE Follows(toB, toB', T)
  <2> DEFINE y == Release(id, 1)
  <2>1. Longer(toB, out, y) /\ y.type = "Release"
    BY <1>4, ReturnsType DEF Release
  <2> HIDE DEF y
  <2>2. \A i \in 1 .. Len(toB') :
            toB'[i].type \notin T \/ (i + 0 \in 1 .. Len(toB) /\ toB'[i] = toB[i + 0])
    BY <1>1, <1>2, <2>1 DEF Longer
  <2> QED
    BY <2>2 DEF Follows
<1> QED
  BY <1>3, <1>4 DEF Returns

-----------------------------------------------------------------------------
(* A promise is announced once *)

Offers(m, id) == m.type = "Cap" /\ m.desc.kind = "senderPromise" /\ m.desc.id = id
\* Nothing that is on its way to the importer, and nothing it holds, is the
\* import of a promise that a later message announces as new.
FreshInv ==
    up["A"] => \A i \in 1 .. Len(toA), id \in Ids : Offers(toA[i], id) =>
        imports[id] = None /\ \A j \in 1 .. Len(toA) : j < i => ~ Carries(toA[j], id)

\* A step that sends nothing that carries a reference keeps FreshInv.
LEMMA FreshFrame ==
    ASSUME FreshInv, up["A"] \/ ~ up'["A"], Follows(toA, toA', {"Cap", "Resolve"}),
           Len(toA) \in Nat, Len(toA') \in Nat,
           \A id \in Ids : imports'[id] # None => imports[id] # None
    PROVE  FreshInv'
<1> SUFFICES ASSUME up'["A"], NEW i \in 1 .. Len(toA'), NEW id \in Ids, Offers(toA'[i], id)
             PROVE  imports'[id] = None /\ \A j \in 1 .. Len(toA') : j < i => ~ Carries(toA'[j], id)
  BY DEF FreshInv
<1>1. PICK k \in {0, 1} : \A j \in 1 .. Len(toA') :
        toA'[j].type \notin {"Cap", "Resolve"} \/ (j + k \in 1 .. Len(toA) /\ toA'[j] = toA[j + k])
  BY DEF Follows
<1>2. i + k \in 1 .. Len(toA) /\ Offers(toA[i + k], id)
  BY <1>1 DEF Offers
<1>3. imports[id] = None /\ \A j \in 1 .. Len(toA) : j < i + k => ~ Carries(toA[j], id)
  BY <1>2 DEF FreshInv
<1>4. ASSUME NEW j \in 1 .. Len(toA'), j < i, Carries(toA'[j], id) PROVE FALSE
  <2>1. j + k \in 1 .. Len(toA) /\ toA'[j] = toA[j + k] /\ j + k < i + k
    BY <1>1, <1>4 DEF Carries
  <2> QED
    BY <1>3, <1>4, <2>1
<1> QED
  BY <1>3, <1>4

\* A promise is described as senderPromise only with a new export.
LEMMA FreshSent ==
    ASSUME FreshInv, up'["A"] = up["A"], NEW m, Longer(toA, toA', m), imports' = imports,
           \A id \in Ids : up["A"] /\ Offers(m, id) =>
                imports[id] = None /\ \A j \in 1 .. Len(toA) : ~ Carries(toA[j], id)
    PROVE  FreshInv'
<1> SUFFICES ASSUME up'["A"], NEW i \in 1 .. Len(toA'), NEW id \in Ids, Offers(toA'[i], id)
             PROVE  imports'[id] = None /\ \A j \in 1 .. Len(toA') : j < i => ~ Carries(toA'[j], id)
  BY DEF FreshInv
<1>1. /\ Len(toA) \in Nat /\ Len(toA') = Len(toA) + 1 /\ toA'[Len(toA) + 1] = m
      /\ \A k \in 1 .. Len(toA) : toA'[k] = toA[k]
  BY DEF Longer
<1>2. CASE i = Len(toA) + 1
  BY <1>1, <1>2
<1>3. CASE i # Len(toA) + 1
  <2>1. i \in 1 .. Len(toA) /\ Offers(toA[i], id)
    BY <1>1, <1>3
  <2> QED
    BY <1>1, <2>1 DEF FreshInv
<1> QED
  BY <1>2, <1>3

\* The importer reads a message: what is announced as new behind it still is.
LEMMA FreshRead ==
    ASSUME FreshInv, up["A"] \/ ~ up'["A"], Shorter(toA, toA', Head(toA)),
           \A id \in Ids : imports'[id] # None => imports[id] # None \/ Carries(Head(toA), id)
    PROVE  FreshInv'
<1> SUFFICES ASSUME up'["A"], NEW i \in 1 .. Len(toA'), NEW id \in Ids, Offers(toA'[i], id)
             PROVE  imports'[id] = None /\ \A j \in 1 .. Len(toA') : j < i => ~ Carries(toA'[j], id)
  BY DEF FreshInv
<1>1. /\ Len(toA') \in Nat /\ Len(toA) = Len(toA') + 1 /\ toA[1] = Head(toA)
      /\ \A k \in 1 .. Len(toA') : toA'[k] = toA[k + 1]
  BY DEF Shorter
<1>2. i + 1 \in 1 .. Len(toA) /\ Offers(toA[i + 1], id)
  BY <1>1
<1>3. imports[id] = None /\ \A j \in 1 .. Len(toA) : j < i + 1 => ~ Carries(toA[j], id)
  BY <1>2 DEF FreshInv
<1>4. ~ Carries(Head(toA), id)
  BY <1>1, <1>3
<1>5. ASSUME NEW j \in 1 .. Len(toA'), j < i PROVE ~ Carries(toA'[j], id)
  <2>1. j + 1 \in 1 .. Len(toA) /\ j + 1 < i + 1 /\ toA'[j] = toA[j + 1]
    BY <1>1, <1>5
  <2> QED
    BY <1>3, <2>1
<1> QED
  BY <1>3, <1>4, <1>5

-----------------------------------------------------------------------------
(* An embargo is in one place *)

Asks(m, e) == m.type = "SenderLoopback" /\ m.embargo = e
Answers(m, e) == m.type = "ReceiverLoopback" /\ m.embargo = e
Free(e) ==
    /\ e \notin replies
    /\ \A i \in 1 .. Len(toA) : ~ Answers(toA[i], e)
    /\ \A i \in 1 .. Len(toB) : ~ Asks(toB[i], e)
\* An embargo is in one place: asked for, being answered, or answered; and its
\* number is used again only when it is in none.
TokenInv ==
    up["A"] => \A e \in Refs :
        /\ \A i, j \in 1 .. Len(toB) : Asks(toB[i], e) /\ Asks(toB[j], e) => i = j
        /\ \A i, j \in 1 .. Len(toA) : Answers(toA[i], e) /\ Answers(toA[j], e) => i = j
        /\ e \in replies => \A i \in 1 .. Len(toA) : ~ Answers(toA[i], e)
        /\ \A i \in 1 .. Len(toB) : Asks(toB[i], e) =>
              e \notin replies /\ \A j \in 1 .. Len(toA) : ~ Answers(toA[j], e)
        /\ embargoes[e] = None => Free(e)

\* A step that sends no Disembargo and takes none keeps TokenInv.
LEMMA TokenFrame ==
    ASSUME TokenInv, up["A"] \/ ~ up'["A"], Len(toA) \in Nat, Len(toA') \in Nat, Len(toB) \in Nat, Len(toB') \in Nat,
           Follows(toA, toA', {"ReceiverLoopback"}), Follows(toB, toB', {"SenderLoopback"}),
           replies' \subseteq replies, embargoes' = embargoes
    PROVE  TokenInv'
<1> SUFFICES ASSUME up'["A"] PROVE TokenInv'
  BY DEF TokenInv
<1>1. PICK k \in {0, 1} : \A i \in 1 .. Len(toA') :
        toA'[i].type \notin {"ReceiverLoopback"} \/ (i + k \in 1 .. Len(toA) /\ toA'[i] = toA[i + k])
  BY DEF Follows
<1>2. PICK l \in {0, 1} : \A i \in 1 .. Len(toB') :
        toB'[i].type \notin {"SenderLoopback"} \/ (i + l \in 1 .. Len(toB) /\ toB'[i] = toB[i + l])
  BY DEF Follows
<1>3. \A i \in 1 .. Len(toA'), e \in Refs : Answers(toA'[i], e) => i + k \in 1 .. Len(toA) /\ Answers(toA[i + k], e)
  BY <1>1 DEF Answers
<1>4. \A i \in 1 .. Len(toB'), e \in Refs : Asks(toB'[i], e) => i + l \in 1 .. Len(toB) /\ Asks(toB[i + l], e)
  BY <1>2 DEF Asks
<1>5. \A i, j \in Int : i + k = j + k => i = j
  OBVIOUS
<1>6. \A i, j \in Int : i + l = j + l => i = j
  OBVIOUS
<1> QED
  BY <1>3, <1>4, <1>5, <1>6 DEF TokenInv, Free

\* A Disembargo is sent.
LEMMA TokenAsked ==
    ASSUME TokenInv, up["A"], NEW e \in Refs, embargoes[e] = None, NEW c \in Refs,
           embargoes \in EmbargoTable, embargoes' = [embargoes EXCEPT ![e] = c],
           NEW ms, NEW id, Longer(toB, ms, Loopback(id, e)), Len(ms) \in Nat, Len(toB') \in Nat,
           Follows(ms, toB', {"SenderLoopback"}), replies' = replies,
           Len(toA) \in Nat, Len(toA') \in Nat, Follows(toA, toA', {"ReceiverLoopback"})
    PROVE  TokenInv'
<1>0. Free(e)
  BY DEF TokenInv
<1>1. PICK k \in {0, 1} : \A i \in 1 .. Len(toA') :
        toA'[i].type \notin {"ReceiverLoopback"} \/ (i + k \in 1 .. Len(toA) /\ toA'[i] = toA[i + k])
  BY DEF Follows
<1>2. PICK l \in {0, 1} : \A i \in 1 .. Len(toB') :
        toB'[i].type \notin {"SenderLoopback"} \/ (i + l \in 1 .. Len(ms) /\ toB'[i] = ms[i + l])
  BY DEF Follows
<1>3. \A i \in 1 .. Len(toA'), x \in Refs : Answers(toA'[i], x) => i + k \in 1 .. Len(toA) /\ Answers(toA[i + k], x)
  BY <1>1 DEF Answers
<1>4. /\ Len(toB) \in Nat /\ Len(ms) = Len(toB) + 1
      /\ \A i \in 1 .. Len(ms) : ms[i] = IF i = Len(toB) + 1 THEN Loopback(id, e) ELSE toB[i]
  BY DEF Longer
<1>5. \A x : Asks(Loopback(id, e), x) <=> x = e
  BY DEF Asks, Loopback
<1>6. \A i \in 1 .. Len(toB'), x \in Refs : Asks(toB'[i], x) =>
        \/ x = e /\ i + l = Len(toB) + 1
        \/ i + l \in 1 .. Len(toB) /\ Asks(toB[i + l], x)
  <2> SUFFICES ASSUME NEW i \in 1 .. Len(toB'), NEW x \in Refs, Asks(toB'[i], x)
               PROVE  \/ x = e /\ i + l = Len(toB) + 1
                      \/ i + l \in 1 .. Len(toB) /\ Asks(toB[i + l], x)
    OBVIOUS
  <2>1. i + l \in 1 .. Len(ms) /\ toB'[i] = ms[i + l]
    BY <1>2 DEF Asks
  <2>2. CASE i + l = Len(toB) + 1
    BY <1>4, <1>5, <2>1, <2>2
  <2>3. CASE i + l # Len(toB) + 1
    BY <1>4, <2>1, <2>3
  <2> QED
    BY <2>2, <2>3
<1>7. \A x \in Refs : embargoes'[x] = IF x = e THEN c ELSE embargoes[x]
  BY DEF EmbargoTable
<1>8. c # None
  BY ConstantFacts
<1>9. \A i, j \in Int : (i + k = j + k => i = j) /\ (i + l = j + l => i = j)
  OBVIOUS
<1>10. ASSUME NEW x \in Refs, x # e
       PROVE  /\ \A i, j \in 1 .. Len(toB') : Asks(toB'[i], x) /\ Asks(toB'[j], x) => i = j
              /\ \A i, j \in 1 .. Len(toA') : Answers(toA'[i], x) /\ Answers(toA'[j], x) => i = j
              /\ x \in replies' => \A i \in 1 .. Len(toA') : ~ Answers(toA'[i], x)
              /\ \A i \in 1 .. Len(toB') : Asks(toB'[i], x) =>
                    x \notin replies' /\ \A j \in 1 .. Len(toA') : ~ Answers(toA'[j], x)
              /\ embargoes'[x] = None => Free(x)'
  <2>1. \A i \in 1 .. Len(toB') : Asks(toB'[i], x) => i + l \in 1 .. Len(toB) /\ Asks(toB[i + l], x)
    BY <1>6, <1>10
  <2>2. /\ \A i, j \in 1 .. Len(toB) : Asks(toB[i], x) /\ Asks(toB[j], x) => i = j
        /\ \A i, j \in 1 .. Len(toA) : Answers(toA[i], x) /\ Answers(toA[j], x) => i = j
        /\ x \in replies => \A i \in 1 .. Len(toA) : ~ Answers(toA[i], x)
        /\ \A i \in 1 .. Len(toB) : Asks(toB[i], x) =>
              x \notin replies /\ \A j \in 1 .. Len(toA) : ~ Answers(toA[j], x)
        /\ embargoes[x] = None => Free(x)
    BY DEF TokenInv
  <2>3. embargoes'[x] = embargoes[x]
    BY <1>7, <1>10
  <2>4. \A i, j \in 1 .. Len(toB') : Asks(toB'[i], x) /\ Asks(toB'[j], x) => i = j
    BY <1>9, <2>1, <2>2
  <2>5. \A i, j \in 1 .. Len(toA') : Answers(toA'[i], x) /\ Answers(toA'[j], x) => i = j
    BY <1>3, <1>9, <2>2
  <2>6. \A i \in 1 .. Len(toB') : Asks(toB'[i], x) =>
              x \notin replies' /\ \A j \in 1 .. Len(toA') : ~ Answers(toA'[j], x)
    BY <1>3, <2>1, <2>2
  <2>7. embargoes'[x] = None => Free(x)'
    BY <1>3, <2>1, <2>2, <2>3 DEF Free
  <2> QED
    BY <1>3, <2>2, <2>4, <2>5, <2>6, <2>7
<1>11. /\ \A i, j \in 1 .. Len(toB') : Asks(toB'[i], e) /\ Asks(toB'[j], e) => i = j
       /\ \A i \in 1 .. Len(toA') : ~ Answers(toA'[i], e)
       /\ e \notin replies'
       /\ embargoes'[e] # None
  <2>1. \A i \in 1 .. Len(toB') : Asks(toB'[i], e) => i + l = Len(toB) + 1
    BY <1>0, <1>6 DEF Free
  <2>2. \A i, j \in 1 .. Len(toB') : Asks(toB'[i], e) /\ Asks(toB'[j], e) => i + l = j + l
    BY <2>1
  <2> QED
    BY <1>0, <1>3, <1>7, <1>8, <1>9, <2>2 DEF Free
<1> QED
  BY <1>10, <1>11 DEF TokenInv

\* A Disembargo is read.
LEMMA TokenTaken ==
    ASSUME TokenInv, up'["A"] = up["A"], NEW m, Shorter(toB, toB', m), m.type = "SenderLoopback",
           replies' = replies \cup {m.embargo}, toA' = toA, embargoes' = embargoes
    PROVE  TokenInv'
<1> SUFFICES ASSUME up["A"], up'["A"], NEW e \in Refs
             PROVE  /\ \A i, j \in 1 .. Len(toB') : Asks(toB'[i], e) /\ Asks(toB'[j], e) => i = j
                    /\ \A i, j \in 1 .. Len(toA') : Answers(toA'[i], e) /\ Answers(toA'[j], e) => i = j
                    /\ e \in replies' => \A i \in 1 .. Len(toA') : ~ Answers(toA'[i], e)
                    /\ \A i \in 1 .. Len(toB') : Asks(toB'[i], e) =>
                          e \notin replies' /\ \A j \in 1 .. Len(toA') : ~ Answers(toA'[j], e)
                    /\ embargoes'[e] = None => Free(e)'
  BY DEF TokenInv
<1>1. /\ Len(toB') \in Nat /\ Len(toB) = Len(toB') + 1 /\ toB[1] = m /\ 1 \in 1 .. Len(toB)
      /\ \A k \in 1 .. Len(toB') : toB'[k] = toB[k + 1] /\ k + 1 \in 1 .. Len(toB) /\ k + 1 # 1
  BY DEF Shorter
<1>2. /\ \A i, j \in 1 .. Len(toB) : Asks(toB[i], e) /\ Asks(toB[j], e) => i = j
      /\ \A i, j \in 1 .. Len(toA) : Answers(toA[i], e) /\ Answers(toA[j], e) => i = j
      /\ e \in replies => \A i \in 1 .. Len(toA) : ~ Answers(toA[i], e)
      /\ \A i \in 1 .. Len(toB) : Asks(toB[i], e) =>
            e \notin replies /\ \A j \in 1 .. Len(toA) : ~ Answers(toA[j], e)
      /\ embargoes[e] = None => Free(e)
  BY DEF TokenInv
<1>3. \A i, j \in Int : i + 1 = j + 1 => i = j
  OBVIOUS
<1>4. CASE e = m.embargo
  <2>1. Asks(toB[1], e)
    BY <1>1, <1>4 DEF Asks
  <2>2. \A i \in 1 .. Len(toB') : ~ Asks(toB'[i], e)
    BY <1>1, <1>2, <2>1
  <2>3. embargoes[e] # None
    BY <1>1, <1>2, <2>1 DEF Free
  <2> QED
    BY <1>1, <1>2, <2>1, <2>2, <2>3
<1>5. CASE e # m.embargo
  <2>1. e \in replies' <=> e \in replies
    BY <1>5
  <2> QED
    BY <1>1, <1>2, <1>3, <2>1 DEF Free
<1> QED
  BY <1>4, <1>5

\* The answer is sent.
LEMMA TokenReturned ==
    ASSUME TokenInv, up'["A"] = up["A"], NEW e \in replies, replies' = replies \ {e}, NEW m,
           m.type = "ReceiverLoopback", m.embargo = e, Longer(toA, toA', m), toB' = toB, embargoes' = embargoes
    PROVE  TokenInv'
<1> SUFFICES ASSUME up["A"], up'["A"], NEW x \in Refs
             PROVE  /\ \A i, j \in 1 .. Len(toB') : Asks(toB'[i], x) /\ Asks(toB'[j], x) => i = j
                    /\ \A i, j \in 1 .. Len(toA') : Answers(toA'[i], x) /\ Answers(toA'[j], x) => i = j
                    /\ x \in replies' => \A i \in 1 .. Len(toA') : ~ Answers(toA'[i], x)
                    /\ \A i \in 1 .. Len(toB') : Asks(toB'[i], x) =>
                          x \notin replies' /\ \A j \in 1 .. Len(toA') : ~ Answers(toA'[j], x)
                    /\ embargoes'[x] = None => Free(x)'
  BY DEF TokenInv
<1>1. /\ Len(toA) \in Nat /\ Len(toA') = Len(toA) + 1
      /\ \A i \in 1 .. Len(toA') : toA'[i] = IF i = Len(toA) + 1 THEN m ELSE toA[i]
      /\ \A i \in 1 .. Len(toA') : i # Len(toA) + 1 => i \in 1 .. Len(toA)
  BY DEF Longer
<1>2. /\ \A i, j \in 1 .. Len(toB) : Asks(toB[i], x) /\ Asks(toB[j], x) => i = j
      /\ \A i, j \in 1 .. Len(toA) : Answers(toA[i], x) /\ Answers(toA[j], x) => i = j
      /\ x \in replies => \A i \in 1 .. Len(toA) : ~ Answers(toA[i], x)
      /\ \A i \in 1 .. Len(toB) : Asks(toB[i], x) =>
            x \notin replies /\ \A j \in 1 .. Len(toA) : ~ Answers(toA[j], x)
      /\ embargoes[x] = None => Free(x)
  BY DEF TokenInv
<1>3. CASE x = e
  <2>1. \A i \in 1 .. Len(toA') : Answers(toA'[i], x) => i = Len(toA) + 1
    BY <1>1, <1>2, <1>3
  <2>2. x \notin replies' /\ (\A i \in 1 .. Len(toB') : ~ Asks(toB'[i], x)) /\ embargoes'[x] # None
    BY <1>2, <1>3 DEF Free
  <2> QED
    BY <2>1, <2>2
<1>4. CASE x # e
  <2>1. \A i \in 1 .. Len(toA') : Answers(toA'[i], x) => i \in 1 .. Len(toA) /\ Answers(toA[i], x)
    BY <1>1, <1>4 DEF Answers
  <2> QED
    BY <1>2, <1>4, <2>1 DEF Free
<1> QED
  BY <1>3, <1>4

\* The answer is read, and the embargo ends.
LEMMA TokenLifted ==
    ASSUME TokenInv, up'["A"] = up["A"], NEW m, Shorter(toA, toA', m), m.type = "ReceiverLoopback",
           embargoes \in EmbargoTable, embargoes' = [embargoes EXCEPT ![m.embargo] = None],
           replies' = replies, toB' = toB
    PROVE  TokenInv'
<1> SUFFICES ASSUME up["A"], up'["A"], NEW e \in Refs
             PROVE  /\ \A i, j \in 1 .. Len(toB') : Asks(toB'[i], e) /\ Asks(toB'[j], e) => i = j
                    /\ \A i, j \in 1 .. Len(toA') : Answers(toA'[i], e) /\ Answers(toA'[j], e) => i = j
                    /\ e \in replies' => \A i \in 1 .. Len(toA') : ~ Answers(toA'[i], e)
                    /\ \A i \in 1 .. Len(toB') : Asks(toB'[i], e) =>
                          e \notin replies' /\ \A j \in 1 .. Len(toA') : ~ Answers(toA'[j], e)
                    /\ embargoes'[e] = None => Free(e)'
  BY DEF TokenInv
<1>1. /\ Len(toA') \in Nat /\ Len(toA) = Len(toA') + 1 /\ toA[1] = m /\ 1 \in 1 .. Len(toA)
      /\ \A k \in 1 .. Len(toA') : toA'[k] = toA[k + 1] /\ k + 1 \in 1 .. Len(toA) /\ k + 1 # 1
  BY DEF Shorter
<1>2. /\ \A i, j \in 1 .. Len(toB) : Asks(toB[i], e) /\ Asks(toB[j], e) => i = j
      /\ \A i, j \in 1 .. Len(toA) : Answers(toA[i], e) /\ Answers(toA[j], e) => i = j
      /\ e \in replies => \A i \in 1 .. Len(toA) : ~ Answers(toA[i], e)
      /\ \A i \in 1 .. Len(toB) : Asks(toB[i], e) =>
            e \notin replies /\ \A j \in 1 .. Len(toA) : ~ Answers(toA[j], e)
      /\ embargoes[e] = None => Free(e)
  BY DEF TokenInv
<1>3. \A i, j \in Int : i + 1 = j + 1 => i = j
  OBVIOUS
<1>4. CASE e = m.embargo
  <2>1. Answers(toA[1], e)
    BY <1>1, <1>4 DEF Answers
  <2>2. \A i \in 1 .. Len(toA') : ~ Answers(toA'[i], e)
    BY <1>1, <1>2, <2>1
  <2>3. e \notin replies /\ \A i \in 1 .. Len(toB) : ~ Asks(toB[i], e)
    BY <1>1, <1>2, <2>1
  <2> QED
    BY <2>2, <2>3 DEF Free
<1>5. CASE e # m.embargo
  <2>1. embargoes'[e] = embargoes[e]
    BY <1>5 DEF EmbargoTable
  <2> QED
    <3>1. \A i, j \in 1 .. Len(toA') : Answers(toA'[i], e) /\ Answers(toA'[j], e) => i = j
      <4>1. \A i \in 1 .. Len(toA') : Answers(toA'[i], e) => i + 1 \in 1 .. Len(toA) /\ Answers(toA[i + 1], e)
        BY <1>1
      <4>2. \A i, j \in 1 .. Len(toA') : Answers(toA'[i], e) /\ Answers(toA'[j], e) => i + 1 = j + 1
        BY <1>2, <4>1
      <4> QED
        BY <1>3, <4>2
    <3>2. embargoes'[e] = None => Free(e)'
      BY <1>1, <1>2, <2>1 DEF Free
    <3> QED
      BY <1>1, <1>2, <3>1, <3>2
<1> QED
  BY <1>4, <1>5

-----------------------------------------------------------------------------
(* What the handlers may still complain of *)

\* The only complaints there are.
FaultInv == fault["A"] \in {"none", "not a promise"} /\ fault["B"] \in {"none", "does not point back"}
Handled == FreshInv /\ TokenInv /\ FaultInv
\* The inductive invariant of FaultsBounded.
Sound == Account /\ NamedInv /\ LeftInv /\ Handled

\* The parts of Sound, and the types they bring.
LEMMA SoundFacts ==
    ASSUME Sound
    PROVE  /\ Account /\ NamedInv /\ LeftInv /\ Handled /\ FreshInv /\ TokenInv /\ FaultInv
           /\ Basic /\ Tables /\ TypeOK /\ toA \in Seq(MessageA) /\ toB \in Seq(MessageB)
           /\ Len(toA) \in Nat /\ Len(toB) \in Nat /\ up["A"] \in BOOLEAN /\ up["B"] \in BOOLEAN
<1>1. Account /\ NamedInv /\ LeftInv /\ Handled /\ FreshInv /\ TokenInv /\ FaultInv
  BY DEF Sound, Handled
<1>2. Basic /\ Tables /\ TypeOK
  BY <1>1 DEF Account, Basic, Tables
<1>3. toA \in Seq(MessageA) /\ toB \in Seq(MessageB)
  BY <1>2, TablesFacts
<1>4. up["A"] \in BOOLEAN /\ up["B"] \in BOOLEAN
  BY <1>2, ConstantFacts DEF TypeOK
<1> QED
  BY <1>1, <1>2, <1>3, <1>4

\* The exporter reads, or sends a message that brings nothing.
LEMMA HandledQuiet ==
    ASSUME Sound, TypeOK', UNCHANGED importerVars, up'["A"] = up["A"], replies' \subseteq replies, FaultInv',
           NEW m, NEW calls,
           \/ toA' = toA
           \/ Longer(toA, toA', m) /\ m.type \notin {"Cap", "ReceiverLoopback"}
           \/ LongerBy(toA, toA', calls),
           toB' = toB \/ (toB # <<>> /\ toB' = Tail(toB))
    PROVE  Handled'
<1>1. /\ FreshInv /\ TokenInv /\ Len(toA) \in Nat /\ Len(toB) \in Nat /\ Len(toA') \in Nat /\ Len(toB') \in Nat
      /\ toB \in Seq(MessageB)
  <2>1. Len(toA') \in Nat /\ Len(toB') \in Nat
    BY DEF TypeOK
  <2> QED
    BY <2>1, SoundFacts
<1>2. Follows(toA, toA', {"ReceiverLoopback"})
  BY <1>1, FollowsFacts
<1>3. Follows(toB, toB', {"SenderLoopback"})
  <2>1. toB # <<>> /\ toB' = Tail(toB) => Shorter(toB, toB', Head(toB))
    BY <1>1, ShorterByTail
  <2> QED
    BY <1>1, <2>1, FollowsFacts
<1>4. TokenInv'
  BY <1>1, <1>2, <1>3, TokenFrame DEF importerVars
<1>5. FreshInv'
  <2>1. CASE toA' = toA \/ LongerBy(toA, toA', calls)
    <3>1. Follows(toA, toA', {"Cap", "Resolve"})
      BY <1>1, <2>1, FollowsFacts
    <3> QED
      BY <1>1, <3>1, FreshFrame DEF importerVars
  <2>2. CASE Longer(toA, toA', m) /\ m.type \notin {"Cap", "ReceiverLoopback"}
    <3>1. \A id \in Ids : ~ Offers(m, id)
      BY <2>2 DEF Offers
    <3> QED
      BY <1>1, <2>2, <3>1, FreshSent DEF importerVars
  <2> QED
    BY <2>1, <2>2
<1> QED
  BY <1>4, <1>5 DEF Handled

\* Losing the connection makes no message unexpected.
LEMMA DisconnectBHandled ==
    ASSUME Sound, TypeOK', NEW what, what \in {"none", "does not point back"},
           NEW inbox, inbox = toB \/ (toB # <<>> /\ inbox = Tail(toB)), DisconnectB(what, inbox)
    PROVE  Handled' /\ ~ up'["B"] /\ up'["A"] = up["A"]
<1> DEFINE m == [type |-> "Abort"]
<1>1. /\ up'["A"] = up["A"] /\ ~ up'["B"] /\ toA' = Append(toA, m) /\ toB' = inbox /\ UNCHANGED <<importerVars, replies>>
      /\ fault'["A"] = fault["A"] /\ fault'["B"] = what
  BY SoundFacts, ConstantFacts DEF DisconnectB, TypeOK
<1>2. m \in MessageA /\ m.type = "Abort"
  BY AMessages
<1> HIDE DEF m
<1>3. Longer(toA, toA', m)
  BY <1>1, <1>2, SoundFacts, LongerByAppend
<1>4. FaultInv'
  BY <1>1, SoundFacts DEF FaultInv
<1> QED
  BY <1>1, <1>2, <1>3, <1>4, HandledQuiet

\* Forwarded calls bring nothing either.
LEMMA ForwardHandled ==
    ASSUME Sound, TypeOK', NEW c \in Caps, NEW calls \in Seq(Calls), NEW q, Forward(c, calls, q),
           UNCHANGED <<up, fault, replies, importerVars>>, toB' = toB \/ (toB # <<>> /\ toB' = Tail(toB))
    PROVE  Handled'
<1>1. toA' = toA \/ LongerBy(toA, toA', calls)
  BY SoundFacts, CallsSent DEF Forward
<1>2. FaultInv'
  BY SoundFacts DEF FaultInv
<1> QED
  BY <1>1, <1>2, HandledQuiet

\* The exporter reads a message: at worst a Disembargo finds no export that points back.
LEMMA HandleBHandled ==
    ASSUME Sound, TypeOK', HandleB \/ LoseB
    PROVE  /\ Handled'
           /\ \/ fault'["B"] = fault["B"]
              \/ /\ up["B"] /\ toB # <<>> /\ Head(toB).type = "SenderLoopback" /\ Head(toB).id \in Ids
                 /\ exports[Head(toB).id] # None
                 /\ Ends[exports[Head(toB).id].cap] # Peer
<1> DEFINE m == Head(toB)
<1>1. fault["B"] \in {"none", "does not point back"} /\ FaultInv
  BY SoundFacts DEF FaultInv
<1>2. CASE LoseB \/ (toB # <<>> /\ HandleAbortB(m))
  <2>1. DisconnectB(fault["B"], toB) \/ (toB # <<>> /\ DisconnectB(fault["B"], Tail(toB)))
    BY <1>2 DEF LoseB, HandleAbortB
  <2>2. fault'["B"] = fault["B"]
    BY <2>1, SoundFacts, ConstantFacts DEF DisconnectB, TypeOK
  <2> QED
    BY <1>1, <2>1, <2>2, DisconnectBHandled
<1>3. ASSUME up["B"], toB # <<>>, m.type \in {"Call", "SenderLoopback"}
      PROVE  m.id \in Ids /\ exports[m.id] # None /\ m \in MessageB
  <2>1. m \in MessageB /\ toB[1] = m /\ Shorter(toB, Tail(toB), m)
    BY <1>3, SoundFacts, ShorterByTail DEF Shorter
  <2>2. 1 \in 1 .. Len(toB)
    BY <2>1 DEF Shorter
  <2>3. m.id \in Ids
    BY <1>3, <2>1, MessageBFields
  <2>4. Names(toB[1], m.id)
    BY <1>3, <2>1 DEF Names
  <2> QED
    BY <1>3, <2>1, <2>2, <2>3, <2>4, SoundFacts, NamedIsLive
<1>4. CASE up["B"] /\ toB # <<>> /\ HandleCall(m)
  <2>1. m.type = "Call" /\ m.id \in Ids /\ exports[m.id] # None /\ m \in MessageB
    BY <1>3, <1>4 DEF HandleCall
  <2>2. /\ toB' = Tail(toB) /\ Forward(exports[m.id].cap, <<m.call>>, queued)
        /\ UNCHANGED <<up, fault, res, exports, byCap, tasks, replies, gives, importerVars, made>>
    BY <1>4, <2>1 DEF HandleCall
  <2>3. <<m.call>> \in Seq(Calls) /\ exports[m.id].cap \in Caps
    <3>1. m.call \in Calls
      BY <2>1, MessageBFields
    <3>2. exports[m.id] \in Export
      BY <2>1, SoundFacts, TablesFacts DEF ExportTable
    <3> QED
      BY <3>1, <3>2 DEF Export
  <2>4. Handled'
    BY <1>4, <2>2, <2>3, ForwardHandled
  <2> QED
    BY <2>2, <2>4
<1>5. CASE up["B"] /\ toB # <<>> /\ HandleRelease(m)
  <2>1. ~ DisconnectB("invalid release", Tail(toB)) /\ up' = up
    BY <1>5, SoundFacts, NamedReleased
  <2>2. /\ toB' = Tail(toB)
        /\ UNCHANGED <<up, fault, toA, res, queued, replies, gives, importerVars, made, initiated>>
    BY <1>5, <2>1, SoundFacts, HandleReleaseTables
  <2>3. FaultInv'
    BY <1>1, <2>2 DEF FaultInv
  <2>4. Handled'
    BY <1>5, <2>2, <2>3, HandledQuiet
  <2> QED
    BY <2>2, <2>4
<1>6. CASE up["B"] /\ toB # <<>> /\ HandleSenderLoopback(m)
  <2>1. m.type = "SenderLoopback" /\ m.id \in Ids /\ exports[m.id] # None /\ m \in MessageB
    BY <1>3, <1>6 DEF HandleSenderLoopback
  <2>2. exports[m.id].cap \in Caps /\ Resolved(exports[m.id].cap) = Ends[exports[m.id].cap]
    <3>1. exports[m.id] \in Export /\ res \in Redirects /\ ChainInv
      BY <2>1, SoundFacts, TablesFacts DEF ExportTable, Tables
    <3> QED
      BY <3>1, ResolvedIsEnd DEF Export
  <2>3. CASE Ends[exports[m.id].cap] # Peer
    <3>1. DisconnectB("does not point back", Tail(toB))
      BY <1>6, <2>1, <2>2, <2>3 DEF HandleSenderLoopback
    <3> QED
      BY <1>6, <2>1, <2>3, <3>1, DisconnectBHandled
  <2>4. CASE Ends[exports[m.id].cap] = Peer
    <3>1. /\ toB' = Tail(toB) /\ replies' = replies \cup {m.embargo}
          /\ UNCHANGED <<up, toA, fault, res, queued, exports, byCap, tasks, gives, importerVars, made, initiated>>
      BY <1>6, <2>1, <2>2, <2>4 DEF HandleSenderLoopback
    <3>2. Shorter(toB, toB', m)
      BY <1>6, <3>1, SoundFacts, ShorterByTail
    <3>3. TokenInv'
      BY <2>1, <3>1, <3>2, SoundFacts, TokenTaken DEF importerVars
    <3>4. FreshInv' /\ FaultInv'
      BY <3>1, SoundFacts DEF FreshInv, FaultInv, importerVars
    <3> QED
      BY <3>1, <3>3, <3>4 DEF Handled
  <2> QED
    BY <2>3, <2>4
<1> QED
  BY <1>2, <1>4, <1>5, <1>6 DEF HandleB

\* A spawned task of the exporter is polled.
LEMMA ExporterHandled ==
    ASSUME Sound, TypeOK'
    PROVE  /\ \A t \in tasks : ResolveTask(t) => Handled' /\ fault' = fault
           /\ \A e : Reply(e) => Handled' /\ fault' = fault
           /\ \A p \in Promises, c \in Caps : ResolvePromise(p, c) => Handled' /\ fault' = fault
           /\ \A c \in Givable : Give(c) => Handled' /\ fault' = fault
<1>0. fault' = fault => FaultInv'
  BY SoundFacts DEF FaultInv
<1>1. ASSUME NEW t \in tasks, DropTask(t) \/ SendException(t) \/ EntryNotFound(t) PROVE Handled' /\ fault' = fault
  <2>1. /\ t.id \in Ids /\ UNCHANGED <<up, toB, fault, replies, importerVars>>
        /\ toA' = toA \/ toA' = Append(toA, [type |-> "Resolve", id |-> t.id, desc |-> None])
    BY <1>1, SoundFacts, TaskEndTables
  <2> DEFINE m == [type |-> "Resolve", id |-> t.id, desc |-> None]
  <2>2. m \in MessageA /\ m.type = "Resolve"
    BY <2>1, AMessages
  <2> HIDE DEF m
  <2>3. toA' = toA \/ Longer(toA, toA', m)
    BY <2>1, <2>2, SoundFacts, LongerByAppend DEF m
  <2> QED
    BY <1>0, <2>1, <2>2, <2>3, HandledQuiet
<1>2. ASSUME NEW t \in tasks, ReuseEntry(t) PROVE Handled' /\ fault' = fault
  BY <1>0, <1>2, HandledQuiet DEF ReuseEntry
<1>3. ASSUME NEW t \in tasks, SendResolve(t) PROVE Handled' /\ fault' = fault
  <2>1. UNCHANGED <<up, toB, fault, replies, importerVars>>
    BY <1>3 DEF SendResolve
  <2>2. PICK d \in Desc : t.id \in Ids /\ toA' = Append(toA, [type |-> "Resolve", id |-> t.id, desc |-> d])
    BY <1>3, SoundFacts, SendResolveTables
  <2> DEFINE m == [type |-> "Resolve", id |-> t.id, desc |-> d]
  <2>3. m \in MessageA /\ m.type = "Resolve"
    BY <2>2, AMessages
  <2> HIDE DEF m
  <2>4. Longer(toA, toA', m)
    BY <2>2, <2>3, SoundFacts, LongerByAppend DEF m
  <2> QED
    BY <1>0, <2>1, <2>3, <2>4, HandledQuiet
<1>4. ASSUME NEW e, Reply(e) PROVE Handled' /\ fault' = fault
  <2>1. /\ e \in replies /\ e \in Refs /\ replies' = replies \ {e}
        /\ UNCHANGED <<up, toB, fault, importerVars>>
        /\ toA' = toA \/ toA' = Append(toA, [type |-> "ReceiverLoopback", embargo |-> e])
    BY <1>4, SoundFacts DEF Reply, TypeOK
  <2>2. CASE toA' = toA
    BY <1>0, <2>1, <2>2, HandledQuiet
  <2>3. CASE toA' = Append(toA, [type |-> "ReceiverLoopback", embargo |-> e])
    <3> DEFINE m == [type |-> "ReceiverLoopback", embargo |-> e]
    <3>1. m \in MessageA /\ m.type = "ReceiverLoopback" /\ m.embargo = e
      BY <2>1, AMessages
    <3> HIDE DEF m
    <3>2. Longer(toA, toA', m)
      BY <2>3, <3>1, SoundFacts, LongerByAppend DEF m
    <3>3. TokenInv'
      BY <2>1, <3>1, <3>2, SoundFacts, TokenReturned DEF importerVars
    <3>4. FreshInv'
      <4>1. \A id \in Ids : ~ Offers(m, id)
        BY <3>1 DEF Offers
      <4> QED
        BY <2>1, <3>2, <4>1, SoundFacts, FreshSent DEF importerVars
    <3> QED
      BY <1>0, <2>1, <3>3, <3>4 DEF Handled
  <2> QED
    BY <2>1, <2>2, <2>3
<1>5. ASSUME NEW p \in Promises, NEW c \in Caps, ResolvePromise(p, c) PROVE Handled' /\ fault' = fault
  <2>1. /\ Forward(c, queued[p], [queued EXCEPT ![p] = <<>>])
        /\ UNCHANGED <<up, toB, fault, exports, byCap, tasks, replies, gives, importerVars, made>>
    BY <1>5 DEF ResolvePromise
  <2>2. queued[p] \in Seq(Calls)
    BY SoundFacts DEF TypeOK
  <2>3. toA' = toA \/ LongerBy(toA, toA', queued[p])
    <3>1. \A x : x = Sends(queued[p]) => LongerBy(toA, toA \o x, queued[p])
      BY <2>2, SoundFacts, CallsSent
    <3> QED
      BY <2>1, <3>1 DEF Forward
  <2> QED
    BY <1>0, <2>1, <2>3, HandledQuiet
<1>6. ASSUME NEW c \in Givable, Give(c) PROVE Handled' /\ fault' = fault
  <2>1. UNCHANGED <<up, toB, fault, replies, importerVars>> /\ up["B"] /\ gives + 1 \in Refs
    BY <1>6, SoundFacts, ConstantFacts DEF Give, TypeOK, Refs
  <2>2. PICK d \in Desc : /\ toA' = Append(toA, [type |-> "Cap", desc |-> d, ref |-> gives + 1])
                          /\ Adds(exports, exports', d, Ends[c])
    BY <1>6, SoundFacts, GiveTables
  <2> DEFINE m == [type |-> "Cap", desc |-> d, ref |-> gives + 1]
  <2>3. m \in MessageA /\ m.type = "Cap" /\ m.desc = d
    BY <2>1, <2>2, AMessages
  <2> HIDE DEF m
  <2>4. Longer(toA, toA', m)
    BY <2>2, <2>3, SoundFacts, LongerByAppend DEF m
  <2>5. ASSUME NEW id \in Ids, up["A"], Offers(m, id)
        PROVE  imports[id] = None /\ \A j \in 1 .. Len(toA) : ~ Carries(toA[j], id)
    <3>1. exports[id] = None
      BY <2>2, <2>3, <2>5 DEF Adds, Offers
    <3>2. /\ IsFiniteSet(Back(toB, id))
          /\ RefsOf(exports[id]) = RefsOf(imports[id])
                + Cardinality(Coming(toA, id)) + Cardinality(Back(toB, id))
      BY <2>1, <2>5, SoundFacts DEF Account, Ledger
    <3>3. /\ RefsOf(imports[id]) \in Nat /\ Cardinality(Coming(toA, id)) \in Nat
          /\ Cardinality(Back(toB, id)) \in Nat /\ RefsOf(exports[id]) = 0
      BY <3>1, <3>2, SoundFacts, AccountNumbers DEF RefsOf
    <3>4. RefsOf(imports[id]) = 0 /\ Cardinality(Coming(toA, id)) = 0
      BY <3>2, <3>3
    <3>5. imports[id] = None
      BY <3>4, SoundFacts, ImporterTypes DEF RefsOf, ImportTable, ImportEntry
    <3>6. Coming(toA, id) = {}
      <4>1. IsFiniteSet(Coming(toA, id))
        BY SoundFacts, ComingNumber, PlacesFinite
      <4> QED
        BY <3>4, <4>1, FS_EmptySet
    <3>7. \A j \in 1 .. Len(toA) : j \in Coming(toA, id) <=> Carries(toA[j], id)
      BY SoundFacts, ComingNumber
    <3> QED
      BY <3>5, <3>6, <3>7
  <2>6. FreshInv'
    BY <2>1, <2>4, <2>5, SoundFacts, FreshSent DEF importerVars
  <2>7. TokenInv'
    <3>1. Follows(toA, toA', {"ReceiverLoopback"}) /\ Follows(toB, toB', {"SenderLoopback"})
      BY <2>1, <2>3, <2>4, SoundFacts, FollowsFacts
    <3>2. Len(toA') \in Nat /\ Len(toB') \in Nat
      BY DEF TypeOK
    <3> QED
      BY <2>1, <3>1, <3>2, SoundFacts, TokenFrame DEF importerVars
  <2> QED
    BY <1>0, <2>1, <2>6, <2>7 DEF Handled
<1> QED
  BY <1>1, <1>2, <1>3, <1>4, <1>5, <1>6 DEF ResolveTask

\* A step of the importer that makes nobody wait.
LEMMA HandledGivesUp ==
    ASSUME Sound, TypeOK', up' = up, fault' = fault, replies' = replies, embargoes' = embargoes,
           toA' = toA, NEW m, m.type # "SenderLoopback", toB' = toB \/ Longer(toB, toB', m) \/ GivesUp(toB),
           \A id \in Ids : imports'[id] # None => imports[id] # None
    PROVE  Handled'
<1>1. Len(toA') \in Nat /\ Len(toB') \in Nat /\ Len(toA) \in Nat /\ Len(toB) \in Nat /\ toB \in Seq(MessageB)
  <2>1. Len(toA') \in Nat /\ Len(toB') \in Nat
    BY DEF TypeOK
  <2> QED
    BY <2>1, SoundFacts
<1>2. Follows(toA, toA', {"ReceiverLoopback"}) /\ Follows(toA, toA', {"Cap", "Resolve"})
  BY <1>1, FollowsFacts
<1>3. Follows(toB, toB', {"SenderLoopback"})
  <2>1. ASSUME NEW id \in Ids, NEW n \in Nat \ {0}, toB' = Append(toB, Release(id, n))
        PROVE  Follows(toB, toB', {"SenderLoopback"})
    <3>1. Release(id, n) \in MessageB /\ Release(id, n).type = "Release"
      BY BMessages DEF Release
    <3>2. Longer(toB, toB', Release(id, n))
      BY <1>1, <2>1, <3>1, LongerByAppend
    <3> QED
      BY <1>1, <3>1, <3>2, FollowsFacts
  <2> QED
    BY <1>1, <2>1, FollowsFacts DEF GivesUp
<1>4. TokenInv'
  BY <1>1, <1>2, <1>3, SoundFacts, TokenFrame
<1>5. FreshInv'
  BY <1>1, <1>2, SoundFacts, FreshFrame
<1> QED
  BY <1>4, <1>5, SoundFacts DEF Handled, FaultInv

\* The application calls, or drops its client.
LEMMA ClientHandled ==
    ASSUME Sound, TypeOK'
    PROVE  /\ \A c \in Refs : DropOld(c) \/ DriveGate(c) \/ Abandon(c) => Handled' /\ fault' = fault
           /\ \A r \in Refs : Call(r) \/ DropRef(r) => Handled' /\ fault' = fault
<1> DEFINE x == [type |-> "Abort"]
<1>0. x.type # "SenderLoopback"
  OBVIOUS
<1> HIDE DEF x
<1>1. ASSUME UNCHANGED <<up, toA, fault, exporterVars, embargoes>>,
             \E refs, pcs, olds : Collect(imports, refs, pcs, olds, toB)
      PROVE  Handled' /\ fault' = fault
  <2>1. GivesUp(toB) /\ \A id \in Ids : imports'[id] # None => imports[id] # None
    BY <1>1, SoundFacts, ImporterTypes, CollectGivesUp
  <2> QED
    BY <1>0, <1>1, <2>1, HandledGivesUp DEF exporterVars
<1>2. ASSUME NEW c \in Refs, DropOld(c) PROVE Handled' /\ fault' = fault
  BY <1>1, <1>2 DEF DropOld
<1>3. ASSUME NEW r \in Refs, DropRef(r) PROVE Handled' /\ fault' = fault
  <2>1. \E refs, pcs, olds : Collect(imports, refs, pcs, olds, toB)
    BY <1>3 DEF DropRef
  <2>2. UNCHANGED <<up, toA, fault, exporterVars, embargoes>>
    BY <1>3 DEF DropRef
  <2> QED
    BY <1>1, <2>1, <2>2
<1>4. ASSUME NEW c \in Refs, DriveGate(c) \/ Abandon(c) PROVE Handled' /\ fault' = fault
  BY <1>0, <1>4, HandledGivesUp DEF DriveGate, Abandon, exporterVars
<1>5. ASSUME NEW r \in Refs, Call(r) PROVE Handled' /\ fault' = fault
  <2>1. UNCHANGED <<up, toA, fault, exporterVars, imports, embargoes>>
    BY <1>5 DEF Call
  <2>2. CASE toB' = toB
    BY <1>0, <2>1, <2>2, HandledGivesUp DEF exporterVars
  <2>3. ASSUME NEW id \in Live, NEW k \in Calls, toB' = Append(toB, [type |-> "Call", id |-> id, call |-> k])
        PROVE  Handled' /\ fault' = fault
    <3> DEFINE m == [type |-> "Call", id |-> id, call |-> k]
    <3>1. m \in MessageB /\ m.type = "Call"
      BY BMessages DEF Live
    <3> HIDE DEF m
    <3>2. Longer(toB, toB', m)
      BY <2>3, <3>1, SoundFacts, LongerByAppend DEF m
    <3> QED
      BY <2>1, <3>1, <3>2, HandledGivesUp DEF exporterVars
  <2> QED
    BY <1>5, <2>2, <2>3, SoundFacts, CallNames
<1> QED
  BY <1>2, <1>3, <1>4, <1>5

\* The importer has lost the connection, or finds that it has.
LEMMA LostHandled ==
    ASSUME Sound, TypeOK', NEW what, what \in {"none", "not a promise"}, NEW inbox, NEW out,
           DisconnectA(what, inbox, out)
    PROVE  Handled' /\ fault'["B"] = fault["B"] /\ fault'["A"] = what
<1>1. ~ up'["A"] /\ fault'["A"] = what /\ fault'["B"] = fault["B"]
  BY SoundFacts, ConstantFacts DEF DisconnectA, TypeOK
<1>2. FaultInv'
  BY <1>1, SoundFacts DEF FaultInv
<1> QED
  BY <1>1, <1>2 DEF Handled, FreshInv, TokenInv

\* A message that ends no embargo and makes nobody wait.
LEMMA HandledRead ==
    ASSUME Sound, TypeOK', up["A"], toA # <<>>, toA' = Tail(toA), UNCHANGED <<fault, replies, embargoes>>,
           toB' = toB \/ GivesUp(toB),
           \A id \in Ids : imports'[id] # None => imports[id] # None \/ Carries(Head(toA), id)
    PROVE  Handled'
<1>1. Len(toA') \in Nat /\ Len(toB') \in Nat /\ Shorter(toA, toA', Head(toA)) /\ toB \in Seq(MessageB)
  <2>1. Len(toA') \in Nat /\ Len(toB') \in Nat
    BY DEF TypeOK
  <2> QED
    BY <2>1, SoundFacts, ShorterByTail
<1>2. FreshInv'
  BY <1>1, SoundFacts, FreshRead
<1>3. Follows(toA, toA', {"ReceiverLoopback"})
  BY <1>1, SoundFacts, FollowsFacts
<1>4. Follows(toB, toB', {"SenderLoopback"})
  <2>1. ASSUME NEW id \in Ids, NEW n \in Nat \ {0}, toB' = Append(toB, Release(id, n))
        PROVE  Follows(toB, toB', {"SenderLoopback"})
    <3>1. Release(id, n) \in MessageB /\ Release(id, n).type = "Release"
      BY BMessages DEF Release
    <3>2. Longer(toB, toB', Release(id, n))
      BY <1>1, <2>1, <3>1, LongerByAppend
    <3> QED
      BY <3>1, <3>2, SoundFacts, FollowsFacts
  <2> QED
    BY <2>1, SoundFacts, FollowsFacts DEF GivesUp
<1>5. TokenInv'
  BY <1>1, <1>3, <1>4, SoundFacts, TokenFrame
<1> QED
  BY <1>2, <1>5, SoundFacts DEF Handled, FaultInv

\* receive_cap brings in the reference that the description carries.
LEMMA ReceiveCapBrings ==
    ASSUME Basic, toA # <<>>, ReceiveCap(Head(toA))
    PROVE  \A j \in Ids : imports'[j] # None => imports[j] # None \/ Carries(Head(toA), j)
<1> DEFINE m == Head(toA)
           id == m.desc.id
           r == m.ref
           imp == Imported(id)
<1>1. /\ m \in MessageA /\ m.type = "Cap" /\ m.desc \in Desc /\ id \in Ids /\ imports \in ImportTable
  <2>1. m \in MessageA /\ m.type = "Cap" /\ imports \in ImportTable
    BY HeadA, ImporterTypes DEF ReceiveCap, Basic, Tables
  <2> QED
    BY <2>1, MessageAFields DEF Desc
<1>2. /\ imp \in ImportTable /\ \A j \in Ids : j # id => imp[j] = imports[j]
  BY <1>1, ImportedFacts
<1>3. CASE m.desc.kind = "receiverHosted"
  BY <1>3 DEF ReceiveCap
<1>4. CASE m.desc.kind # "receiverHosted"
  <2>1. ASSUME NEW j \in Ids, j # id PROVE imports'[j] = imports[j]
    <3>1. imports' = imports \/ imports' = [imp EXCEPT ![id].app = Import(id)]
          \/ imports' = [imp EXCEPT ![id].app = Promised(r), ![id].promise = r] \/ imports' = imp
      BY DEF ReceiveCap
    <3> HIDE DEF imp
    <3> QED
      BY <1>1, <1>2, <2>1, <3>1 DEF ImportTable
  <2>2. Carries(m, id)
    BY <1>1, <1>4, NoneFacts DEF Carries
  <2> QED
    BY <2>1, <2>2
<1> QED
  BY <1>3, <1>4

\* receive_cap accepts the description: a promise it is given has no PromiseClient yet.
LEMMA ReceiveCapHandled ==
    ASSUME Sound, TypeOK', up["A"], toA # <<>>, ReceiveCap(Head(toA))
    PROVE  Handled' /\ fault' = fault
<1> DEFINE m == Head(toA)
           id == m.desc.id
           imp == Imported(id)
           new == imp[id].app = Nothing
<1>1. /\ m.type = "Cap" /\ m.desc \in Desc /\ id \in Ids /\ imports \in ImportTable
      /\ toA' = Tail(toA) /\ UNCHANGED <<up, toB, exporterVars, embargoes>>
      /\ toA[1] = m /\ 1 \in 1 .. Len(toA)
  <2>1. m \in MessageA /\ m.type = "Cap" /\ Shorter(toA, Tail(toA), m)
        /\ toA' = Tail(toA) /\ UNCHANGED <<up, toB, exporterVars, embargoes>>
    BY SoundFacts, HeadA DEF ReceiveCap
  <2>2. m.desc \in Desc
    BY <2>1, MessageAFields
  <2>3. toA[1] = m /\ 1 \in 1 .. Len(toA)
    BY <2>1 DEF Shorter
  <2> QED
    BY <2>1, <2>2, <2>3, SoundFacts, ImporterTypes DEF Desc
<1>2. fault' = fault
  <2>1. CASE m.desc.kind = "senderHosted"
    BY <2>1 DEF ReceiveCap
  <2>2. CASE m.desc.kind = "receiverHosted"
    BY <2>2 DEF ReceiveCap
  <2>3. CASE m.desc.kind = "senderPromise"
    <3>1. Offers(toA[1], id)
      BY <1>1, <2>3 DEF Offers
    <3>2. imports[id] = None
      BY <1>1, <3>1, SoundFacts DEF FreshInv
    <3>3. new
      BY <1>1, <3>2, ImportedFacts
    <3> QED
      BY <2>3, <3>3 DEF ReceiveCap
  <2> QED
    BY <1>1, <2>1, <2>2, <2>3 DEF Desc
<1>3. \A j \in Ids : imports'[j] # None => imports[j] # None \/ Carries(m, j)
  BY SoundFacts, ReceiveCapBrings
<1> QED
  BY <1>1, <1>2, <1>3, HandledRead DEF exporterVars

\* handle_resolve accepts the resolution, or finds an import that is not a promise.
LEMMA HandleResolveHandled ==
    ASSUME Sound, TypeOK', up["A"], toA # <<>>, HandleResolve(Head(toA))
    PROVE  Handled' /\ fault'["B"] = fault["B"]
<1> DEFINE m == Head(toA)
<1>1. /\ m \in MessageA /\ m.type = "Resolve" /\ m.id \in Ids
      /\ \/ DisconnectA("not a promise", Tail(toA), HandedBack(m))
         \/ /\ UNCHANGED <<up, fault, exporterVars, held, made, initiated>> /\ toA' = Tail(toA)
            /\ (embargoes' = embargoes /\ GivesUp(toB)) \/ Embargoes(m)
            /\ \A id \in Ids : imports'[id] # None => imports[id] # None \/ Carries(m, id)
  BY SoundFacts, ResolveEffect
<1>2. CASE DisconnectA("not a promise", Tail(toA), HandedBack(m))
  BY <1>2, LostHandled
<1>3. CASE /\ UNCHANGED <<up, fault, exporterVars, held, made, initiated>> /\ toA' = Tail(toA)
           /\ embargoes' = embargoes /\ GivesUp(toB)
           /\ \A id \in Ids : imports'[id] # None => imports[id] # None \/ Carries(m, id)
  BY <1>3, HandledRead DEF exporterVars
<1>4. CASE /\ UNCHANGED <<up, fault, exporterVars, held, made, initiated>> /\ toA' = Tail(toA)
           /\ Embargoes(m)
           /\ \A id \in Ids : imports'[id] # None => imports[id] # None \/ Carries(m, id)
  <2>1. PICK e \in Refs, c \in Refs :
            /\ embargoes[e] = None /\ embargoes' = [embargoes EXCEPT ![e] = c]
            /\ GivesUp(Append(toB, Loopback(m.id, e)))
    BY <1>4 DEF Embargoes
  <2> DEFINE x == Loopback(m.id, e)
             ms == Append(toB, x)
  <2>2. x \in MessageB
    BY <1>1, BMessages DEF Loopback
  <2>3. Longer(toB, ms, Loopback(m.id, e)) /\ ms \in Seq(MessageB)
    <3> HIDE DEF x
    <3>1. Longer(toB, ms, x) /\ ms \in Seq(MessageB)
      BY <2>2, SoundFacts, LongerByAppend
    <3> QED
      BY <3>1 DEF x
  <2>4. GivesUp(ms)
    BY <2>1
  <2> HIDE DEF m, x, ms
  <2>5. Follows(ms, toB', {"SenderLoopback"})
    <3>1. ASSUME NEW id \in Ids, NEW n \in Nat \ {0}, toB' = Append(ms, Release(id, n))
          PROVE  Follows(ms, toB', {"SenderLoopback"})
      <4>1. Release(id, n) \in MessageB /\ Release(id, n).type = "Release"
        BY BMessages DEF Release
      <4>2. Longer(ms, toB', Release(id, n)) /\ Len(ms) \in Nat
        BY <2>3, <3>1, <4>1, LongerByAppend
      <4> QED
        BY <4>1, <4>2, FollowsFacts
    <3>2. toB' = ms => Follows(ms, toB', {"SenderLoopback"})
      BY <2>3, FollowsFacts
    <3> QED
      BY <2>4, <3>1, <3>2 DEF GivesUp
  <2>6. Shorter(toA, toA', m) /\ Len(toA') \in Nat /\ Len(toB') \in Nat /\ Len(ms) \in Nat
    <3>1. Len(toA') \in Nat /\ Len(toB') \in Nat
      BY DEF TypeOK
    <3> QED
      BY <1>4, <2>3, <3>1, SoundFacts, ShorterByTail DEF m
  <2>7. Follows(toA, toA', {"ReceiverLoopback"})
    BY <2>6, SoundFacts, FollowsFacts
  <2>8. TokenInv'
    BY <1>4, <2>1, <2>3, <2>5, <2>6, <2>7, SoundFacts, ImporterTypes, TokenAsked DEF exporterVars
  <2>9. FreshInv'
    BY <1>4, <2>6, SoundFacts, FreshRead DEF m
  <2> QED
    BY <1>4, <2>8, <2>9, SoundFacts DEF Handled, FaultInv
<1> QED
  BY <1>1, <1>2, <1>3, <1>4

\* Whatever the importer reads, it accepts, or finds an import that is not a promise.
LEMMA HandleAHandled ==
    ASSUME Sound, TypeOK', HandleA \/ LoseA
    PROVE  Handled' /\ fault'["B"] = fault["B"]
<1> DEFINE m == Head(toA)
<1>1. fault["A"] \in {"none", "not a promise"}
  BY SoundFacts DEF FaultInv
<1>2. CASE LoseA \/ HandleAbortA(m)
  BY <1>1, <1>2, LostHandled DEF LoseA, HandleAbortA
<1>3. CASE up["A"] /\ toA # <<>> /\ ReceiveCap(m)
  BY <1>3, ReceiveCapHandled
<1>4. CASE up["A"] /\ toA # <<>> /\ HandleResolve(m)
  BY <1>4, HandleResolveHandled
<1>5. CASE up["A"] /\ toA # <<>> /\ HandleCallA(m)
  BY <1>5, HandledRead DEF HandleCallA, exporterVars, importerVars
<1>6. CASE up["A"] /\ toA # <<>> /\ HandleReceiverLoopback(m)
  <2>1. m \in MessageA /\ m.type = "ReceiverLoopback" /\ Shorter(toA, Tail(toA), m) /\ m.embargo \in Refs
    <3>1. m \in MessageA /\ m.type = "ReceiverLoopback" /\ Shorter(toA, Tail(toA), m)
      BY <1>6, SoundFacts, HeadA DEF HandleReceiverLoopback
    <3> QED
      BY <3>1, MessageAFields
  <2>2. embargoes[m.embargo] # None
    <3>1. 1 \in 1 .. Len(toA) /\ toA[1] = m
      BY <2>1 DEF Shorter
    <3>2. Answers(toA[1], m.embargo)
      BY <2>1, <3>1 DEF Answers
    <3>3. ~ Free(m.embargo)
      BY <3>1, <3>2 DEF Free
    <3> QED
      BY <1>6, <2>1, <3>3, SoundFacts DEF TokenInv
  <2>3. /\ embargoes' = [embargoes EXCEPT ![m.embargo] = None] /\ toA' = Tail(toA)
        /\ UNCHANGED <<up, toB, fault, exporterVars, imports>>
    BY <1>6, <2>2 DEF HandleReceiverLoopback
  <2>4. TokenInv'
    BY <2>1, <2>3, SoundFacts, ImporterTypes, TokenLifted DEF exporterVars
  <2>5. FreshInv'
    BY <2>1, <2>3, SoundFacts, FreshRead
  <2> QED
    BY <2>3, <2>4, <2>5, SoundFacts DEF Handled, FaultInv
<1> QED
  BY <1>2, <1>3, <1>4, <1>5, <1>6 DEF HandleA

-----------------------------------------------------------------------------
\* Nothing is exported, held or on its way at first.
LEMMA SoundInit == Init => Sound
<1> SUFFICES ASSUME Init PROVE Sound
  OBVIOUS
<1>1. toA = <<>> /\ toB = <<>> /\ replies = {} /\ up["B"] /\ up["A"] /\ fault["A"] = "none" /\ fault["B"] = "none"
  BY ConstantFacts DEF Init
<1>2. NamedInv /\ LeftInv
  BY <1>1 DEF NamedInv, LeftInv, Covered
<1>3. FreshInv /\ TokenInv /\ FaultInv
  BY <1>1 DEF FreshInv, TokenInv, Free, FaultInv
<1> QED
  BY <1>2, <1>3, AccountInit DEF Sound, Handled

\* Every action keeps Sound.
LEMMA SoundNext == Sound /\ [Next]_vars => Sound'
<1> SUFFICES ASSUME Sound, [Next]_vars PROVE Sound'
  OBVIOUS
<1>1. Account' /\ TypeOK'
  <2>1. Account'
    BY SoundFacts, AccountNext
  <2> QED
    BY <2>1 DEF Account, Basic, Tables
<1>2. CASE UNCHANGED vars
  <2>1. UNCHANGED <<up, toA, toB, fault, exporterVars, importerVars>>
    BY <1>2 DEF vars
  <2>2. NamedInv' /\ LeftInv'
    BY <2>1, SoundFacts, NamedFrame DEF exporterVars, importerVars
  <2>3. Handled'
    BY <2>1, SoundFacts DEF Handled, FreshInv, TokenInv, Free, FaultInv, exporterVars, importerVars
  <2> QED
    BY <1>1, <2>2, <2>3 DEF Sound
<1>3. CASE HandleA \/ LoseA
  BY <1>1, <1>3, SoundFacts, HandleANamed, HandleAHandled DEF Sound
<1>4. CASE HandleB \/ LoseB
  BY <1>1, <1>4, SoundFacts, ExporterNamed, HandleBHandled DEF Sound
<1>5. ASSUME NEW t \in tasks, ResolveTask(t) PROVE Sound'
  BY <1>1, <1>5, SoundFacts, ExporterNamed, ExporterHandled DEF Sound
<1>6. CASE \E e \in replies : Reply(e)
  BY <1>1, <1>6, SoundFacts, ExporterNamed, ExporterHandled DEF Sound
<1>7. CASE \E c \in Refs : DropOld(c) \/ DriveGate(c) \/ Abandon(c)
  BY <1>1, <1>7, SoundFacts, ClientNamed, ClientHandled DEF Sound
<1>8. CASE \E p \in Promises, c \in Caps : ResolvePromise(p, c)
  BY <1>1, <1>8, SoundFacts, ExporterNamed, ExporterHandled DEF Sound
<1>9. CASE \E c \in Givable : Give(c)
  BY <1>1, <1>9, SoundFacts, ExporterNamed, ExporterHandled DEF Sound
<1>10. CASE \E r \in Refs : Call(r) \/ DropRef(r)
  BY <1>1, <1>10, SoundFacts, ClientNamed, ClientHandled DEF Sound
<1> QED
  BY <1>2, <1>3, <1>4, <1>5, <1>6, <1>7, <1>8, <1>9, <1>10 DEF Next

\* Of all that the handlers may reject, only two things ever happen, and each to
\* one side: the importer's handle_resolve finds that an import is not a promise,
\* or the exporter's handle_disembargo that an export does not point back.  No
\* id is stale, no embargo is lifted twice or unknown, and receive_cap finds
\* the PromiseClient of every promise it is given.
THEOREM FaultsBounded == Spec => []FaultInv
<1>1. Init => Sound
  BY SoundInit
<1>2. Sound /\ [Next]_vars => Sound'
  BY SoundNext
<1>3. Sound => FaultInv
  BY SoundFacts
<1> QED
  BY <1>1, <1>2, <1>3, PTL DEF Spec

-----------------------------------------------------------------------------
(* What a Resolve says, when no task redirects an entry that is not its own *)

Target(id) == Ends[exports[id].cap]
Means(d) == IF d.kind = "receiverHosted" THEN Peer ELSE Target(d.id)
\* The importer will have this import when it reads message i.
Known(i, id) == imports[id] # None \/ \E j \in 1 .. Len(toA) : j < i /\ Carries(toA[j], id)
Announces(m) == m.type = "Resolve" /\ m.desc # None

\* What a Resolve on its way says of an export is where the export leads.
ResolveInv ==
    up["A"] /\ up["B"] => \A i \in 1 .. Len(toA), m \in MessageA :
        m = toA[i] /\ Announces(m) /\ Known(i, m.id) => Target(m.id) = Means(m.desc)
\* The export that a Disembargo names points back to the importer.
BackInv ==
    up["B"] => \A i \in 1 .. Len(toB), m \in MessageB :
        m = toB[i] /\ m.type = "SenderLoopback" => Target(m.id) = Peer
Straight == ResolveInv /\ BackInv /\ fault["B"] = "none"

\* What is held, or on its way, is exported.
LEMMA KnownLive ==
    ASSUME Sound, up["A"], up["B"], NEW id \in Ids,
           imports[id] # None \/ \E j \in 1 .. Len(toA) : Carries(toA[j], id)
    PROVE  exports[id] # None /\ exports[id] \in Export /\ exports[id].cap \in Caps
<1>1. /\ IsFiniteSet(Back(toB, id))
      /\ RefsOf(exports[id]) = RefsOf(imports[id])
            + Cardinality(Coming(toA, id)) + Cardinality(Back(toB, id))
  BY SoundFacts DEF Account, Ledger
<1>2. /\ RefsOf(imports[id]) \in Nat /\ Cardinality(Coming(toA, id)) \in Nat
      /\ Cardinality(Back(toB, id)) \in Nat
  BY <1>1, SoundFacts, AccountNumbers
<1>3. RefsOf(exports[id]) # 0
  <2>1. CASE imports[id] # None
    <3>1. RefsOf(imports[id]) >= 1
      BY <2>1, SoundFacts, ImporterTypes DEF RefsOf, ImportTable, ImportEntry
    <3> QED
      BY <1>1, <1>2, <3>1
  <2>2. ASSUME NEW j \in 1 .. Len(toA), Carries(toA[j], id) PROVE RefsOf(exports[id]) # 0
    <3>1. j \in Coming(toA, id) /\ IsFiniteSet(Coming(toA, id))
      BY <2>2, SoundFacts, ComingNumber, PlacesFinite
    <3>2. Cardinality(Coming(toA, id)) # 0
      BY <3>1, FS_EmptySet
    <3> QED
      BY <1>1, <1>2, <3>2
  <2> QED
    BY <2>1, <2>2
<1>4. exports[id] # None
  BY <1>3 DEF RefsOf
<1> QED
  BY <1>4, SoundFacts, TablesFacts DEF ExportTable, Export

\* So the exports that the messages on their way speak of are there.
Exported(id) == id \in Ids /\ exports[id] # None
AnnouncedLive ==
    up["A"] /\ up["B"] => \A i \in 1 .. Len(toA), m \in MessageA :
        m = toA[i] /\ Announces(m) /\ Known(i, m.id) =>
            Exported(m.id) /\ (m.desc.kind # "receiverHosted" => Exported(m.desc.id))
NamedLive ==
    up["B"] => \A i \in 1 .. Len(toB), m \in MessageB :
        m = toB[i] /\ m.type \in {"Call", "SenderLoopback"} => Exported(m.id)

\* What is announced, and what is named, is exported.
LEMMA SoundLive == Sound => TypeOK /\ AnnouncedLive /\ NamedLive
<1> SUFFICES ASSUME Sound PROVE TypeOK /\ AnnouncedLive /\ NamedLive
  OBVIOUS
<1>1. ASSUME up["A"], up["B"], NEW i \in 1 .. Len(toA), NEW m \in MessageA, m = toA[i], Announces(m), Known(i, m.id)
      PROVE  Exported(m.id) /\ (m.desc.kind # "receiverHosted" => Exported(m.desc.id))
  <2>1. m.id \in Ids /\ m.desc \in Desc
    BY <1>1, MessageAFields DEF Announces
  <2>2. exports[m.id] # None
    BY <1>1, <2>1, KnownLive DEF Known
  <2>3. ASSUME m.desc.kind # "receiverHosted"
        PROVE  m.desc.id \in Ids /\ exports[m.desc.id] # None
    <3>1. m.desc.id \in Ids /\ Carries(m, m.desc.id)
      BY <1>1, <2>1, <2>3 DEF Carries, Announces, Desc
    <3> QED
      BY <1>1, <3>1, KnownLive
  <2> QED
    BY <2>1, <2>2, <2>3 DEF Exported
<1>2. ASSUME up["B"], NEW i \in 1 .. Len(toB), NEW m \in MessageB, m = toB[i], m.type \in {"Call", "SenderLoopback"}
      PROVE  Exported(m.id)
  <2>1. m.id \in Ids
    BY <1>2, MessageBFields
  <2> QED
    BY <1>2, <2>1, SoundFacts, NamedIsLive DEF Names, Exported
<1> QED
  BY <1>1, <1>2, SoundFacts DEF AnnouncedLive, NamedLive

\* It still is after a step: the same fact of the next state.
LEMMA SoundLiveNext == Sound' => TypeOK' /\ AnnouncedLive' /\ NamedLive'
  BY SoundLive, PTL

\* The entries stand for what they did, up to the redirect of a promise.
Retargeted ==
    \E f \in [Caps -> Caps] :
        /\ f[Peer] = Peer
        /\ \A id \in Ids : exports[id] # None /\ exports'[id] # None => Target(id)' = f[Target(id)]

\* An export that exists leads to some capability.
LEMMA TargetType ==
    ASSUME Sound
    PROVE  /\ Peer \in Caps /\ Ends \in [Caps -> Caps]
           /\ \A c \in Caps : Ends[Ends[c]] = Ends[c]
           /\ \A c \in Caps : Resolved(c) = Ends[c]
           /\ \A id \in Ids : exports[id] # None => exports[id].cap \in Caps /\ Target(id) \in Caps
<1>1. res \in Redirects /\ ChainInv /\ exports \in ExportTable /\ Peer \in Caps
  BY SoundFacts, TablesFacts, ConstantFacts DEF Tables
<1>2. Ends \in [Caps -> Caps] /\ \A c \in Caps : Ends[Ends[c]] = Ends[c]
  BY <1>1, EndsFacts DEF ChainInv, Ends
<1>3. \A c \in Caps : Resolved(c) = Ends[c]
  BY <1>1, ResolvedIsEnd
<1>4. \A id \in Ids : exports[id] # None => exports[id].cap \in Caps
  BY <1>1 DEF ExportTable, Export
<1> QED
  BY <1>1, <1>2, <1>3, <1>4 DEF Target

\* An export that no task redirects leads where it did.
LEMMA NotRetargeted ==
    ASSUME Sound, \A id \in Ids : exports[id] # None /\ exports'[id] # None => Target(id)' = Target(id)
    PROVE  Retargeted
<1> DEFINE f == [c \in Caps |-> c]
<1>1. f \in [Caps -> Caps] /\ f[Peer] = Peer
  BY TargetType
<1>2. \A id \in Ids : exports[id] # None /\ exports'[id] # None => Target(id)' = f[Target(id)]
  BY TargetType
<1> HIDE DEF f
<1> QED
  BY <1>1, <1>2 DEF Retargeted

\* What a Resolve says stays so while what it names stays exported.
LEMMA MeaningStays ==
    ASSUME Retargeted, NEW m, Target(m.id) = Means(m.desc),
           Exported(m.id), Exported(m.id)',
           m.desc.kind # "receiverHosted" => Exported(m.desc.id) /\ Exported(m.desc.id)'
    PROVE  Target(m.id)' = Means(m.desc)'
<1>1. PICK f \in [Caps -> Caps] :
        /\ f[Peer] = Peer
        /\ \A id \in Ids : exports[id] # None /\ exports'[id] # None => Target(id)' = f[Target(id)]
  BY DEF Retargeted
<1>2. Target(m.id)' = f[Target(m.id)]
  BY <1>1 DEF Exported
<1>3. CASE m.desc.kind = "receiverHosted"
  BY <1>1, <1>2, <1>3 DEF Means
<1>4. CASE m.desc.kind # "receiverHosted"
  <2>1. Target(m.desc.id)' = f[Target(m.desc.id)]
    BY <1>1, <1>4 DEF Exported
  <2> QED
    BY <1>2, <1>4, <2>1 DEF Means
<1> QED
  BY <1>3, <1>4

\* A step that announces nothing, and changes no target, keeps ResolveInv.
LEMMA ResolveFrame ==
    ASSUME Sound, Sound', ResolveInv, up'["A"] => up["A"], up'["B"] => up["B"], Retargeted,
           Follows(toA, toA', {"Cap", "Resolve"}),
           \A id \in Ids : imports'[id] # None => imports[id] # None
    PROVE  ResolveInv'
<1> SUFFICES ASSUME up'["A"], up'["B"], NEW i \in 1 .. Len(toA'), NEW m \in MessageA, m = toA'[i],
                    Announces(m), Known(i, m.id)'
             PROVE  Target(m.id)' = Means(m.desc)'
  BY DEF ResolveInv
<1>0. Len(toA) \in Nat /\ Len(toA') \in Nat
  <2>1. Len(toA') \in Nat
    BY SoundLiveNext DEF TypeOK
  <2> QED
    BY <2>1, SoundFacts
<1>1. PICK k \in {0, 1} : \A j \in 1 .. Len(toA') :
        toA'[j].type \notin {"Cap", "Resolve"} \/ (j + k \in 1 .. Len(toA) /\ toA'[j] = toA[j + k])
  BY DEF Follows
<1>2. i + k \in 1 .. Len(toA) /\ m = toA[i + k]
  BY <1>1 DEF Announces
<1>3. Exported(m.id)' /\ (m.desc.kind # "receiverHosted" => Exported(m.desc.id)')
  BY SoundLiveNext DEF AnnouncedLive
<1>4. Known(i + k, m.id)
  <2>1. CASE imports'[m.id] # None
    BY <1>3, <2>1 DEF Known, Exported
  <2>2. ASSUME NEW j \in 1 .. Len(toA'), j < i, Carries(toA'[j], m.id) PROVE Known(i + k, m.id)
    <3>1. j + k \in 1 .. Len(toA) /\ toA'[j] = toA[j + k] /\ j + k < i + k
      BY <1>0, <1>1, <2>2 DEF Carries
    <3> QED
      BY <2>2, <3>1 DEF Known
  <2> QED
    BY <2>1, <2>2 DEF Known
<1>5. Exported(m.id) /\ (m.desc.kind # "receiverHosted" => Exported(m.desc.id))
  BY <1>2, <1>4, SoundLive DEF AnnouncedLive
<1>6. Target(m.id) = Means(m.desc)
  BY <1>2, <1>4 DEF ResolveInv
<1> QED
  BY <1>3, <1>5, <1>6, MeaningStays

\* The importer reads a message: the announcements left still mean their targets.
LEMMA ResolveRead ==
    ASSUME Sound, Sound', ResolveInv, up["A"], UNCHANGED <<up, exports, res>>, Shorter(toA, toA', Head(toA)),
           \A id \in Ids : imports'[id] # None => imports[id] # None \/ Carries(Head(toA), id)
    PROVE  ResolveInv'
<1> SUFFICES ASSUME up'["A"], up'["B"], NEW i \in 1 .. Len(toA'), NEW m \in MessageA, m = toA'[i],
                    Announces(m), Known(i, m.id)'
             PROVE  Target(m.id)' = Means(m.desc)'
  BY DEF ResolveInv
<1>1. /\ Len(toA') \in Nat /\ Len(toA) = Len(toA') + 1 /\ toA[1] = Head(toA) /\ 1 \in 1 .. Len(toA)
      /\ \A k \in 1 .. Len(toA') : toA'[k] = toA[k + 1] /\ k + 1 \in 1 .. Len(toA)
  BY DEF Shorter
<1>2. m = toA[i + 1] /\ i + 1 \in 1 .. Len(toA)
  BY <1>1
<1>3. m.id \in Ids
  BY MessageAFields DEF Announces
<1>4. Known(i + 1, m.id)
  <2>1. CASE imports'[m.id] # None
    BY <1>1, <1>3, <2>1 DEF Known
  <2>2. ASSUME NEW j \in 1 .. Len(toA'), j < i, Carries(toA'[j], m.id) PROVE Known(i + 1, m.id)
    <3>1. j + 1 \in 1 .. Len(toA) /\ toA'[j] = toA[j + 1] /\ j + 1 < i + 1
      BY <1>1, <2>2
    <3> QED
      BY <2>2, <3>1 DEF Known
  <2> QED
    BY <2>1, <2>2 DEF Known
<1>5. Target(m.id) = Means(m.desc)
  BY <1>2, <1>4 DEF ResolveInv
<1> QED
  BY <1>5 DEF Target, Means, Ends

\* A new announcement says where its export leads.
LEMMA ResolveSent ==
    ASSUME Sound, Sound', ResolveInv, UNCHANGED <<up, imports>>, Retargeted,
           NEW m, Longer(toA, toA', m), Announces(m) => Target(m.id)' = Means(m.desc)'
    PROVE  ResolveInv'
<1> SUFFICES ASSUME up'["A"], up'["B"], NEW i \in 1 .. Len(toA'), NEW x \in MessageA, x = toA'[i],
                    Announces(x), Known(i, x.id)'
             PROVE  Target(x.id)' = Means(x.desc)'
  BY DEF ResolveInv
<1>1. /\ Len(toA) \in Nat /\ Len(toA') = Len(toA) + 1 /\ toA'[Len(toA) + 1] = m
      /\ \A k \in 1 .. Len(toA) : toA'[k] = toA[k]
  BY DEF Longer
<1>2. CASE i = Len(toA) + 1
  BY <1>1, <1>2
<1>3. CASE i # Len(toA) + 1
  <2>1. i \in 1 .. Len(toA) /\ x = toA[i]
    BY <1>1, <1>3
  <2>2. Known(i, x.id)
    <3>1. \A j \in 1 .. Len(toA') : j < i => j \in 1 .. Len(toA) /\ toA'[j] = toA[j]
      BY <1>1, <2>1
    <3> QED
      BY <2>1, <3>1 DEF Known
  <2>3. Exported(x.id)' /\ (x.desc.kind # "receiverHosted" => Exported(x.desc.id)')
    BY SoundLiveNext DEF AnnouncedLive
  <2>4. Exported(x.id) /\ (x.desc.kind # "receiverHosted" => Exported(x.desc.id))
    BY <2>1, <2>2, SoundLive DEF AnnouncedLive
  <2>5. Target(x.id) = Means(x.desc)
    BY <2>1, <2>2 DEF ResolveInv
  <2> QED
    BY <2>3, <2>4, <2>5, MeaningStays
<1> QED
  BY <1>2, <1>3

\* A step that sends no SenderLoopback, and changes no target, keeps BackInv.
LEMMA BackFrame ==
    ASSUME Sound, Sound', BackInv, up'["B"] => up["B"], Retargeted, Follows(toB, toB', {"SenderLoopback"})
    PROVE  BackInv'
<1> SUFFICES ASSUME up'["B"], NEW i \in 1 .. Len(toB'), NEW m \in MessageB, m = toB'[i], m.type = "SenderLoopback"
             PROVE  Target(m.id)' = Peer
  BY DEF BackInv
<1>1. PICK k \in {0, 1} : i + k \in 1 .. Len(toB) /\ m = toB[i + k]
  BY DEF Follows
<1>2. Exported(m.id) /\ Exported(m.id)'
  BY <1>1, SoundLive, SoundLiveNext DEF NamedLive
<1>3. Target(m.id) = Peer
  BY <1>1 DEF BackInv
<1> QED
  BY <1>2, <1>3 DEF Retargeted, Exported

\* A Disembargo is sent when a Resolve says that the export points back.
LEMMA BackAsked ==
    ASSUME Sound, Sound', BackInv, up'["B"] => up["B"], UNCHANGED <<exports, res>>,
           NEW ms, NEW x, Longer(toB, ms, x), up["B"] /\ x.type = "SenderLoopback" => Target(x.id) = Peer,
           Follows(ms, toB', {"SenderLoopback"})
    PROVE  BackInv'
<1> SUFFICES ASSUME up'["B"], NEW i \in 1 .. Len(toB'), NEW m \in MessageB, m = toB'[i], m.type = "SenderLoopback"
             PROVE  Target(m.id)' = Peer
  BY DEF BackInv
<1>1. PICK k \in {0, 1} : i + k \in 1 .. Len(ms) /\ m = ms[i + k]
  BY DEF Follows
<1>2. /\ Len(toB) \in Nat /\ Len(ms) = Len(toB) + 1 /\ ms[Len(toB) + 1] = x
      /\ \A j \in 1 .. Len(toB) : ms[j] = toB[j]
  BY DEF Longer
<1>3. Target(m.id) = Peer
  <2>1. CASE i + k = Len(toB) + 1
    BY <1>1, <1>2, <2>1
  <2>2. CASE i + k # Len(toB) + 1
    <3>1. i + k \in 1 .. Len(toB) /\ m = toB[i + k]
      BY <1>1, <1>2, <2>2
    <3> QED
      BY <3>1 DEF BackInv
  <2> QED
    BY <2>1, <2>2
<1> QED
  BY <1>3 DEF Target, Ends

\* The exporter's part: it reads, or sends nothing that carries a capability.
LEMMA StraightQuiet ==
    ASSUME Sound, Sound', Straight, UNCHANGED <<up, imports>>, fault'["B"] = fault["B"], Retargeted,
           NEW m, NEW calls,
           \/ toA' = toA
           \/ Longer(toA, toA', m) /\ (Announces(m) => Target(m.id)' = Means(m.desc)')
           \/ LongerBy(toA, toA', calls),
           toB' = toB \/ (toB # <<>> /\ toB' = Tail(toB))
    PROVE  Straight'
<1>1. Follows(toB, toB', {"SenderLoopback"})
  <2>1. toB # <<>> /\ toB' = Tail(toB) => Shorter(toB, toB', Head(toB))
    BY SoundFacts, ShorterByTail
  <2> QED
    BY <2>1, SoundFacts, FollowsFacts
<1>2. BackInv'
  BY <1>1, BackFrame DEF Straight
<1>3. ResolveInv'
  <2>1. CASE toA' = toA \/ LongerBy(toA, toA', calls)
    <3>1. Follows(toA, toA', {"Cap", "Resolve"})
      BY <2>1, SoundFacts, FollowsFacts
    <3> QED
      BY <3>1, ResolveFrame DEF Straight
  <2>2. CASE Longer(toA, toA', m) /\ (Announces(m) => Target(m.id)' = Means(m.desc)')
    BY <2>2, ResolveSent DEF Straight
  <2> QED
    BY <2>1, <2>2
<1> QED
  BY <1>2, <1>3 DEF Straight

\* A step that leaves the export table and the resolutions alone changes no target.
LEMMA SameTargets ==
    ASSUME Sound, UNCHANGED <<exports, res>>
    PROVE  Retargeted
<1>1. \A id \in Ids : Target(id)' = Target(id)
  BY DEF Target, Ends
<1> QED
  BY <1>1, NotRetargeted

\* The exporter reads a message: a Disembargo finds its export pointing back.
LEMMA HandleBStraight ==
    ASSUME Sound, Sound', Straight, HandleB \/ LoseB
    PROVE  Straight'
<1> DEFINE m == Head(toB)
<1>1. fault'["B"] = fault["B"]
  <2>1. TypeOK'
    BY SoundLiveNext
  <2>2. ASSUME up["B"], toB # <<>>, m.type = "SenderLoopback" PROVE Target(m.id) = Peer
    <3>1. m \in MessageB /\ Shorter(toB, Tail(toB), m)
      BY <2>2, SoundFacts, ShorterByTail
    <3>2. 1 \in 1 .. Len(toB) /\ toB[1] = m
      BY <3>1 DEF Shorter
    <3> QED
      BY <2>2, <3>1, <3>2 DEF Straight, BackInv
  <2> QED
    BY <2>1, <2>2, HandleBHandled DEF Target
<1>2. CASE ~ up'["B"]
  BY <1>1, <1>2 DEF Straight, ResolveInv, BackInv
<1>3. ASSUME up'["B"], NEW what, NEW inbox, DisconnectB(what, inbox) PROVE FALSE
  BY <1>3, SoundFacts, ConstantFacts DEF DisconnectB, TypeOK
<1>4. CASE up'["B"] /\ up["B"] /\ toB # <<>> /\ HandleCall(m)
  <2>1. exports[m.id] # None
    BY <1>3, <1>4 DEF HandleCall
  <2>2. /\ toB' = Tail(toB) /\ Forward(exports[m.id].cap, <<m.call>>, queued)
        /\ UNCHANGED <<up, fault, res, exports, byCap, tasks, replies, gives, importerVars, made>>
    BY <1>4, <2>1 DEF HandleCall
  <2>3. m.type = "Call"
    BY <1>4 DEF HandleCall
  <2>4. m.call \in Calls
    BY <1>4, <2>3, SoundFacts, HeadB, MessageBFields
  <2>5. toA' = toA \/ LongerBy(toA, toA', <<m.call>>)
    <3>1. <<m.call>> \in Seq(Calls)
      BY <2>4
    <3>2. \A x : x = Sends(<<m.call>>) => LongerBy(toA, toA \o x, <<m.call>>)
      BY <3>1, SoundFacts, CallsSent
    <3> QED
      BY <2>2, <3>2 DEF Forward
  <2> QED
    BY <1>4, <2>2, <2>5, SameTargets, StraightQuiet DEF importerVars
<1>5. CASE up'["B"] /\ up["B"] /\ toB # <<>> /\ HandleRelease(m)
  <2>1. ~ DisconnectB("invalid release", Tail(toB))
    BY <1>3, <1>5
  <2>2. /\ m.id \in Ids /\ toB' = Tail(toB)
        /\ UNCHANGED <<up, fault, toA, res, queued, replies, gives, importerVars, made, initiated>>
        /\ exports'[m.id] # None => exports'[m.id].cap = exports[m.id].cap
        /\ \A id \in Ids : id # m.id => exports'[id] = exports[id]
    BY <1>5, <2>1, SoundFacts, HandleReleaseTables
  <2>3. \A id \in Ids : exports[id] # None /\ exports'[id] # None => Target(id)' = Target(id)
    BY <2>2 DEF Target, Ends
  <2>4. Retargeted
    BY <2>3, NotRetargeted
  <2> QED
    BY <1>5, <2>2, <2>4, StraightQuiet DEF importerVars
<1>6. CASE up'["B"] /\ up["B"] /\ toB # <<>> /\ HandleSenderLoopback(m)
  <2>1. /\ toB' = Tail(toB)
        /\ UNCHANGED <<up, toA, fault, res, queued, exports, byCap, tasks, gives, importerVars, made, initiated>>
    BY <1>3, <1>6 DEF HandleSenderLoopback
  <2> QED
    BY <1>6, <2>1, SameTargets, StraightQuiet DEF importerVars
<1>7. LoseB \/ HandleAbortB(m) => ~ up'["B"]
  BY <1>3 DEF LoseB, HandleAbortB
<1>8. up'["B"] \in BOOLEAN
  BY SoundLiveNext, ConstantFacts DEF TypeOK
<1> QED
  BY <1>2, <1>4, <1>5, <1>6, <1>7, <1>8 DEF HandleB

\* A spawned task announces its resolution, and redirects only the export of its promise.
LEMMA TaskStraight ==
    ASSUME Sound, Sound', Straight, NEW t \in tasks, ResolveTask(t), ~ StrayRedirect
    PROVE  Straight'
<1>1. CASE DropTask(t) \/ SendException(t) \/ EntryNotFound(t)
  <2>1. /\ t.id \in Ids /\ UNCHANGED <<up, toB, fault, exports, res, importerVars>>
        /\ toA' = toA \/ toA' = Append(toA, [type |-> "Resolve", id |-> t.id, desc |-> None])
    BY <1>1, SoundFacts, TaskEndTables
  <2> DEFINE m == [type |-> "Resolve", id |-> t.id, desc |-> None]
  <2>2. m \in MessageA /\ ~ Announces(m)
    BY <2>1, AMessages DEF Announces
  <2> HIDE DEF m
  <2>3. toA' = toA \/ Longer(toA, toA', m)
    BY <2>1, <2>2, SoundFacts, LongerByAppend DEF m
  <2> QED
    BY <2>1, <2>2, <2>3, SameTargets, StraightQuiet DEF importerVars
<1>2. t \in Task
  BY SoundFacts DEF TypeOK
<1>3. t.id \in Ids /\ t.on \in Caps
  BY <1>2, ConstantFacts DEF Task
<1>4. ASSUME ReuseEntry(t) \/ SendResolve(t)
      PROVE  exports[t.id] # None /\ Target(t.id) = Ends[t.on] /\ Ends[Ends[t.on]] = Ends[t.on] /\ Ends' = Ends
             /\ UNCHANGED <<up, toB, fault, importerVars>>
  <2>1. exports[t.id] # None /\ UNCHANGED <<up, toB, fault, res, importerVars>>
    BY <1>4 DEF ReuseEntry, SendResolve
  <2>2. Resolved(exports[t.id].cap) = Resolved(t.on)
    BY <1>4 DEF StrayRedirect
  <2> QED
    BY <1>3, <2>1, <2>2, TargetType DEF Target, Ends
<1>5. CASE ReuseEntry(t)
  <2>1. \A id \in Ids : exports[id] # None => exports'[id].cap = IF id = t.id THEN Ends[t.on] ELSE exports[id].cap
    BY <1>5, SoundFacts, ReuseEntryTables
  <2>2. \A id \in Ids : exports[id] # None /\ exports'[id] # None => Target(id)' = Target(id)
    BY <1>4, <1>5, <2>1 DEF Target
  <2>3. Retargeted /\ toA' = toA
    BY <1>5, <2>2, NotRetargeted DEF ReuseEntry
  <2> QED
    BY <1>4, <1>5, <2>3, StraightQuiet DEF importerVars
<1>6. CASE SendResolve(t)
  <2>1. PICK d \in Desc : /\ toA' = Append(toA, [type |-> "Resolve", id |-> t.id, desc |-> d])
                          /\ Adds(Redirected(t), exports', d, Ends[t.on])
    BY <1>6, SoundFacts, SendResolveTables
  <2>2. \A id \in Ids : /\ Redirected(t)[id] # None <=> exports[id] # None
                        /\ exports[id] # None => Redirected(t)[id].cap =
                                IF id = t.id THEN Ends[t.on] ELSE exports[id].cap
    <3>1. res[t.on] # None /\ exports[t.id] # None
      BY <1>6 DEF SendResolve
    <3> QED
      BY <3>1, SoundFacts, RedirectedFacts
  <2>3. \A id \in Ids : exports[id] # None => Target(id)' = Target(id)
    <3>1. \A id \in Ids : exports[id] # None => exports'[id].cap = IF id = t.id THEN Ends[t.on] ELSE exports[id].cap
      BY <2>1, <2>2 DEF Adds
    <3> QED
      BY <1>4, <1>6, <3>1 DEF Target
  <2> DEFINE m == [type |-> "Resolve", id |-> t.id, desc |-> d]
  <2>4. m \in MessageA /\ m.id = t.id /\ m.desc = d
    BY <1>3, <2>1, AMessages
  <2> HIDE DEF m
  <2>5. Longer(toA, toA', m)
    BY <2>1, <2>4, SoundFacts, LongerByAppend DEF m
  <2>6. Target(m.id)' = Means(m.desc)'
    <3>1. Target(t.id)' = Ends[t.on]
      BY <1>3, <1>4, <1>6, <2>3
    <3>2. CASE d.kind = "receiverHosted"
      BY <2>1, <2>4, <3>1, <3>2 DEF Means, Adds
    <3>3. CASE d.kind # "receiverHosted"
      <4>1. d.id \in Ids /\ On(d, d.id)
        BY <2>1, <3>3, NoneFacts DEF On, Desc
      <4>2. Target(d.id)' = Ends[t.on]
        BY <1>4, <1>6, <2>1, <4>1 DEF Adds, Target
      <4> QED
        BY <2>4, <3>1, <3>3, <4>2 DEF Means
    <3> QED
      BY <3>2, <3>3
  <2>7. Retargeted
    BY <2>3, NotRetargeted
  <2> QED
    BY <1>4, <1>6, <2>5, <2>6, <2>7, StraightQuiet DEF importerVars
<1> QED
  BY <1>1, <1>5, <1>6 DEF ResolveTask

\* The exporter's part: its application and its tasks.
LEMMA ExporterStraight ==
    ASSUME Sound, Sound', Straight
    PROVE  /\ \A e : Reply(e) => Straight'
           /\ \A p \in Promises, c \in Caps : ResolvePromise(p, c) => Straight'
           /\ \A c \in Givable : Give(c) => Straight'
<1>1. ASSUME NEW e, Reply(e) PROVE Straight'
  <2>1. /\ e \in Refs /\ UNCHANGED <<up, toB, fault, exports, res, importerVars>>
        /\ toA' = toA \/ toA' = Append(toA, [type |-> "ReceiverLoopback", embargo |-> e])
    BY <1>1, SoundFacts DEF Reply, TypeOK
  <2> DEFINE m == [type |-> "ReceiverLoopback", embargo |-> e]
  <2>2. m \in MessageA /\ ~ Announces(m)
    BY <2>1, AMessages DEF Announces
  <2> HIDE DEF m
  <2>3. toA' = toA \/ Longer(toA, toA', m)
    BY <2>1, <2>2, SoundFacts, LongerByAppend DEF m
  <2> QED
    BY <2>1, <2>2, <2>3, SameTargets, StraightQuiet DEF importerVars
<1>2. ASSUME NEW p \in Promises, NEW c \in Caps, ResolvePromise(p, c) PROVE Straight'
  <2>1. /\ Forward(c, queued[p], [queued EXCEPT ![p] = <<>>])
        /\ UNCHANGED <<up, toB, fault, exports, byCap, tasks, replies, gives, importerVars, made>>
    BY <1>2 DEF ResolvePromise
  <2>2. queued[p] \in Seq(Calls)
    BY SoundFacts DEF TypeOK
  <2>3. toA' = toA \/ LongerBy(toA, toA', queued[p])
    <3>1. \A x : x = Sends(queued[p]) => LongerBy(toA, toA \o x, queued[p])
      BY <2>2, SoundFacts, CallsSent
    <3> QED
      BY <2>1, <3>1 DEF Forward
  <2>4. Retargeted
    <3> DEFINE f == [x \in Caps |-> IF x = p THEN Ends[c] ELSE x]
    <3>1. f \in [Caps -> Caps] /\ f[Peer] = Peer
      BY TargetType, CapsAssumption
    <3>2. \A x \in Caps : Ends'[x] = f[Ends[x]]
      <4>1. \A x \in Caps : Ends'[x] = IF Ends[x] = p THEN Ends[c] ELSE Ends[x]
        BY <1>2, SoundFacts, ResolvePromiseTables
      <4> QED
        BY <4>1, TargetType
    <3> HIDE DEF f
    <3>3. \A id \in Ids : exports[id] # None /\ exports'[id] # None => Target(id)' = f[Target(id)]
      BY <2>1, <3>2, TargetType DEF Target
    <3> QED
      BY <3>1, <3>3 DEF Retargeted
  <2> QED
    BY <2>1, <2>3, <2>4, StraightQuiet DEF importerVars
<1>3. ASSUME NEW c \in Givable, Give(c) PROVE Straight'
  <2>1. UNCHANGED <<up, toB, fault, res, importerVars>> /\ gives + 1 \in Refs
    BY <1>3, SoundFacts, ConstantFacts DEF Give, TypeOK, Refs
  <2>2. PICK d \in Desc : /\ toA' = Append(toA, [type |-> "Cap", desc |-> d, ref |-> gives + 1])
                          /\ Adds(exports, exports', d, Ends[c])
    BY <1>3, SoundFacts, GiveTables
  <2> DEFINE m == [type |-> "Cap", desc |-> d, ref |-> gives + 1]
  <2>3. m \in MessageA /\ ~ Announces(m)
    BY <2>1, <2>2, AMessages DEF Announces
  <2> HIDE DEF m
  <2>4. Longer(toA, toA', m)
    BY <2>2, <2>3, SoundFacts, LongerByAppend DEF m
  <2>5. \A id \in Ids : exports[id] # None => Target(id)' = Target(id)
    BY <2>1, <2>2 DEF Adds, Target, Ends
  <2>6. Retargeted
    BY <2>5, NotRetargeted
  <2> QED
    BY <2>1, <2>3, <2>4, <2>6, StraightQuiet DEF importerVars
<1> QED
  BY <1>1, <1>2, <1>3

-----------------------------------------------------------------------------
\* The importer's part.
LEMMA ClientStraight ==
    ASSUME Sound, Sound', Straight, UNCHANGED <<up, toA, exporterVars>>, fault' = fault,
           NEW m, m.type # "SenderLoopback", toB' = toB \/ Longer(toB, toB', m) \/ GivesUp(toB),
           \A id \in Ids : imports'[id] # None => imports[id] # None
    PROVE  Straight'
<1>1. Retargeted /\ Follows(toA, toA', {"Cap", "Resolve"})
  BY SoundFacts, SameTargets, FollowsFacts DEF exporterVars
<1>2. Follows(toB, toB', {"SenderLoopback"})
  <2>1. ASSUME NEW id \in Ids, NEW n \in Nat \ {0}, toB' = Append(toB, Release(id, n))
        PROVE  Follows(toB, toB', {"SenderLoopback"})
    <3>1. Release(id, n) \in MessageB /\ Release(id, n).type = "Release"
      BY BMessages DEF Release
    <3>2. Longer(toB, toB', Release(id, n))
      BY <2>1, <3>1, SoundFacts, LongerByAppend
    <3> QED
      BY <3>1, <3>2, SoundFacts, FollowsFacts
  <2> QED
    BY <2>1, SoundFacts, FollowsFacts DEF GivesUp
<1>3. BackInv' /\ ResolveInv'
  BY <1>1, <1>2, ResolveFrame, BackFrame DEF Straight
<1> QED
  BY <1>3 DEF Straight

\* The importer's application.
LEMMA ClientsStraight ==
    ASSUME Sound, Sound', Straight
    PROVE  /\ \A c \in Refs : DropOld(c) \/ DriveGate(c) \/ Abandon(c) => Straight'
           /\ \A r \in Refs : Call(r) \/ DropRef(r) => Straight'
<1> DEFINE x == [type |-> "Abort"]
<1>0. x.type # "SenderLoopback"
  OBVIOUS
<1> HIDE DEF x
<1>1. ASSUME UNCHANGED <<up, toA, fault, exporterVars, embargoes>>,
             \E refs, pcs, olds : Collect(imports, refs, pcs, olds, toB)
      PROVE  Straight'
  <2>1. GivesUp(toB) /\ \A id \in Ids : imports'[id] # None => imports[id] # None
    BY <1>1, SoundFacts, ImporterTypes, CollectGivesUp
  <2> QED
    BY <1>0, <1>1, <2>1, ClientStraight
<1>2. ASSUME NEW c \in Refs, DropOld(c) PROVE Straight'
  BY <1>1, <1>2 DEF DropOld
<1>3. ASSUME NEW r \in Refs, DropRef(r) PROVE Straight'
  <2>1. \E refs, pcs, olds : Collect(imports, refs, pcs, olds, toB)
    BY <1>3 DEF DropRef
  <2>2. UNCHANGED <<up, toA, fault, exporterVars, embargoes>>
    BY <1>3 DEF DropRef
  <2> QED
    BY <1>1, <2>1, <2>2
<1>4. ASSUME NEW c \in Refs, DriveGate(c) \/ Abandon(c) PROVE Straight'
  BY <1>0, <1>4, ClientStraight DEF DriveGate, Abandon
<1>5. ASSUME NEW r \in Refs, Call(r) PROVE Straight'
  <2>1. UNCHANGED <<up, toA, fault, exporterVars, imports>>
    BY <1>5 DEF Call
  <2>2. CASE toB' = toB
    BY <1>0, <2>1, <2>2, ClientStraight
  <2>3. ASSUME NEW id \in Live, NEW k \in Calls, toB' = Append(toB, [type |-> "Call", id |-> id, call |-> k])
        PROVE  Straight'
    <3> DEFINE m == [type |-> "Call", id |-> id, call |-> k]
    <3>1. m \in MessageB /\ m.type = "Call"
      BY BMessages DEF Live
    <3> HIDE DEF m
    <3>2. Longer(toB, toB', m)
      BY <2>3, <3>1, SoundFacts, LongerByAppend DEF m
    <3> QED
      BY <2>1, <3>1, <3>2, ClientStraight
  <2> QED
    BY <1>5, <2>2, <2>3, SoundFacts, CallNames
<1> QED
  BY <1>2, <1>3, <1>4, <1>5

\* A message read that sends nothing but what is given up.
LEMMA StraightRead ==
    ASSUME Sound, Sound', Straight, up["A"], toA # <<>>, toA' = Tail(toA), UNCHANGED <<up, exporterVars>>,
           fault'["B"] = fault["B"], toB' = toB \/ GivesUp(toB),
           \A id \in Ids : imports'[id] # None => imports[id] # None \/ Carries(Head(toA), id)
    PROVE  Straight'
<1>1. Shorter(toA, toA', Head(toA))
  BY SoundFacts, ShorterByTail
<1>2. ResolveInv'
  BY <1>1, ResolveRead DEF exporterVars, Straight
<1>3. Follows(toB, toB', {"SenderLoopback"})
  <2>1. ASSUME NEW id \in Ids, NEW n \in Nat \ {0}, toB' = Append(toB, Release(id, n))
        PROVE  Follows(toB, toB', {"SenderLoopback"})
    <3>1. Release(id, n) \in MessageB /\ Release(id, n).type = "Release"
      BY BMessages DEF Release
    <3>2. Longer(toB, toB', Release(id, n))
      BY <2>1, <3>1, SoundFacts, LongerByAppend
    <3> QED
      BY <3>1, <3>2, SoundFacts, FollowsFacts
  <2> QED
    BY <2>1, SoundFacts, FollowsFacts DEF GivesUp
<1>4. BackInv'
  BY <1>3, SameTargets, BackFrame DEF exporterVars, Straight
<1> QED
  BY <1>2, <1>4 DEF Straight

\* The importer reads a message: a Disembargo it sends names an export that points back.
LEMMA HandleAStraight ==
    ASSUME Sound, Sound', Straight, HandleA \/ LoseA
    PROVE  Straight'
<1> DEFINE m == Head(toA)
<1>1. fault'["B"] = fault["B"]
  BY SoundLiveNext, HandleAHandled
<1>2. ASSUME NEW what, NEW inbox, NEW out, Returns(out), DisconnectA(what, inbox, out) PROVE Straight'
  <2>1. ~ up'["A"] /\ up'["B"] = up["B"] /\ UNCHANGED exporterVars
        /\ toB' = Append(out, [type |-> "Abort"])
    BY <1>2, SoundFacts, ConstantFacts DEF DisconnectA, TypeOK
  <2>3. Follows(toB, toB', {"SenderLoopback"})
    BY <1>2, <2>1, SoundFacts, ReturnsFollow
  <2>4. BackInv'
    BY <2>1, <2>3, SameTargets, BackFrame DEF exporterVars, Straight
  <2> QED
    BY <1>1, <2>1, <2>4 DEF Straight, ResolveInv
<1>3. CASE LoseA \/ HandleAbortA(m)
  BY <1>2, <1>3 DEF LoseA, HandleAbortA, Returns
<1>4. CASE up["A"] /\ toA # <<>> /\ ReceiveCap(m)
  <2>1. toA' = Tail(toA) /\ UNCHANGED <<up, toB, exporterVars>>
    BY <1>4 DEF ReceiveCap
  <2>2. \A id \in Ids : imports'[id] # None => imports[id] # None \/ Carries(m, id)
    BY <1>4, SoundFacts, ReceiveCapBrings
  <2> QED
    BY <1>1, <1>4, <2>1, <2>2, StraightRead
<1>5. CASE up["A"] /\ toA # <<>> /\ HandleCallA(m)
  <2>1. toA' = Tail(toA) /\ UNCHANGED <<up, toB, exporterVars, imports>>
    BY <1>5 DEF HandleCallA, importerVars
  <2> QED
    BY <1>1, <1>5, <2>1, StraightRead
<1>6. CASE up["A"] /\ toA # <<>> /\ HandleReceiverLoopback(m)
  <2>1. CASE embargoes[m.embargo] = None
    BY <1>2, <1>6, <2>1 DEF HandleReceiverLoopback, Returns
  <2>2. CASE embargoes[m.embargo] # None
    <3>1. toA' = Tail(toA) /\ UNCHANGED <<up, toB, exporterVars, imports>>
      BY <1>6, <2>2 DEF HandleReceiverLoopback
    <3> QED
      BY <1>1, <1>6, <3>1, StraightRead
  <2> QED
    BY <2>1, <2>2
<1>7. CASE up["A"] /\ toA # <<>> /\ HandleResolve(m)
  <2>1. /\ m \in MessageA /\ m.type = "Resolve" /\ m.id \in Ids
        /\ \/ DisconnectA("not a promise", Tail(toA), HandedBack(m))
           \/ /\ UNCHANGED <<up, fault, exporterVars, held, made, initiated>> /\ toA' = Tail(toA)
              /\ (embargoes' = embargoes /\ GivesUp(toB)) \/ Embargoes(m)
              /\ \A id \in Ids : imports'[id] # None => imports[id] # None \/ Carries(m, id)
    BY <1>7, SoundFacts, ResolveEffect
  <2>2. CASE DisconnectA("not a promise", Tail(toA), HandedBack(m))
    BY <1>2, <1>7, <2>1, <2>2, SoundFacts, ReturnsHandedBack
  <2>3. CASE /\ UNCHANGED <<up, fault, exporterVars, held, made, initiated>> /\ toA' = Tail(toA)
             /\ GivesUp(toB)
             /\ \A id \in Ids : imports'[id] # None => imports[id] # None \/ Carries(m, id)
    BY <1>7, <2>3, StraightRead
  <2>4. CASE /\ UNCHANGED <<up, fault, exporterVars, held, made, initiated>> /\ toA' = Tail(toA)
             /\ Embargoes(m)
             /\ \A id \in Ids : imports'[id] # None => imports[id] # None \/ Carries(m, id)
    <3>1. PICK e \in Refs :
              imports[m.id] # None /\ With(m) = Local /\ GivesUp(Append(toB, Loopback(m.id, e)))
      BY <2>4 DEF Embargoes
    <3> DEFINE x == Loopback(m.id, e)
               ms == Append(toB, x)
    <3>2. x \in MessageB /\ x.id = m.id
      BY <2>1, BMessages DEF Loopback
    <3> HIDE DEF x
    <3>3. Longer(toB, ms, x) /\ ms \in Seq(MessageB)
      BY <3>2, SoundFacts, LongerByAppend
    <3>4. GivesUp(ms)
      BY <3>1 DEF x
    <3> HIDE DEF ms
    <3>5. Follows(ms, toB', {"SenderLoopback"})
      <4>1. ASSUME NEW id \in Ids, NEW n \in Nat \ {0}, toB' = Append(ms, Release(id, n))
            PROVE  Follows(ms, toB', {"SenderLoopback"})
        <5>1. Release(id, n) \in MessageB /\ Release(id, n).type = "Release"
          BY BMessages DEF Release
        <5>2. Longer(ms, toB', Release(id, n)) /\ Len(ms) \in Nat
          BY <3>3, <4>1, <5>1, LongerByAppend
        <5> QED
          BY <5>1, <5>2, FollowsFacts
      <4>2. toB' = ms => Follows(ms, toB', {"SenderLoopback"})
        BY <3>3, FollowsFacts
      <4> QED
        BY <3>4, <4>1, <4>2 DEF GivesUp
    <3>6. up["B"] => Target(m.id) = Peer
      <4>1. m.desc # None /\ m.desc.kind = "receiverHosted"
        BY <3>1, ClientKinds DEF With
      <4>2. toA[1] = m /\ 1 \in 1 .. Len(toA)
        <5>1. Shorter(toA, Tail(toA), m)
          BY <1>7, SoundFacts, ShorterByTail
        <5> QED
          BY <5>1 DEF Shorter
      <4>3. Announces(m) /\ Known(1, m.id)
        BY <2>1, <3>1, <4>1 DEF Announces, Known
      <4> HIDE DEF m
      <4> QED
        BY <1>7, <2>1, <4>1, <4>2, <4>3 DEF Straight, ResolveInv, Means
    <3>7. BackInv'
      BY <2>4, <3>2, <3>3, <3>5, <3>6, BackAsked DEF exporterVars, Straight
    <3>8. Shorter(toA, toA', m)
      BY <1>7, <2>4, SoundFacts, ShorterByTail
    <3>9. ResolveInv'
      BY <1>7, <2>4, <3>8, ResolveRead DEF exporterVars, Straight
    <3> QED
      BY <1>1, <3>7, <3>9 DEF Straight
  <2> QED
    BY <2>1, <2>2, <2>3, <2>4
<1> QED
  BY <1>3, <1>4, <1>5, <1>6, <1>7 DEF HandleA

-----------------------------------------------------------------------------
\* The inductive invariant of HandlersAccept.
Straightened == Sound /\ Straight

\* Nothing is announced at first.
LEMMA StraightInit == Init => Straightened
<1> SUFFICES ASSUME Init PROVE Straightened
  OBVIOUS
<1>1. toA = <<>> /\ toB = <<>> /\ fault["B"] = "none"
  BY ConstantFacts DEF Init
<1> QED
  BY <1>1, SoundInit DEF Straightened, Straight, ResolveInv, BackInv

\* Every action that redirects no export but its own promise's keeps Straightened.
LEMMA StraightNext == Straightened /\ [Next]_vars /\ [~ StrayRedirect]_vars => Straightened'
<1> SUFFICES ASSUME Sound, Straight, [Next]_vars, [~ StrayRedirect]_vars PROVE Straightened'
  BY DEF Straightened
<1>1. Sound'
  BY SoundNext
<1>2. CASE UNCHANGED vars
  <2>1. UNCHANGED <<up, toA, toB, fault, exporterVars, importerVars>>
    BY <1>2 DEF vars
  <2>2. Straight'
    BY <2>1 DEF Straight, ResolveInv, BackInv, Target, Means, Known, Ends, exporterVars, importerVars
  <2> QED
    BY <1>1, <2>2 DEF Straightened
<1>3. CASE HandleA \/ LoseA
  BY <1>1, <1>3, HandleAStraight DEF Straightened
<1>4. CASE HandleB \/ LoseB
  BY <1>1, <1>4, HandleBStraight DEF Straightened
<1>5. ASSUME NEW t \in tasks, ResolveTask(t), ~ StrayRedirect PROVE Straightened'
  BY <1>1, <1>5, TaskStraight DEF Straightened
<1>6. CASE \E e \in replies : Reply(e)
  BY <1>1, <1>6, ExporterStraight DEF Straightened
<1>7. CASE \E c \in Refs : DropOld(c) \/ DriveGate(c) \/ Abandon(c)
  BY <1>1, <1>7, ClientsStraight DEF Straightened
<1>8. CASE \E p \in Promises, c \in Caps : ResolvePromise(p, c)
  BY <1>1, <1>8, ExporterStraight DEF Straightened
<1>9. CASE \E c \in Givable : Give(c)
  BY <1>1, <1>9, ExporterStraight DEF Straightened
<1>10. CASE \E r \in Refs : Call(r) \/ DropRef(r)
  BY <1>1, <1>10, ClientsStraight DEF Straightened
<1> QED
  BY <1>2, <1>3, <1>4, <1>5, <1>6, <1>7, <1>8, <1>9, <1>10 DEF Next

\* If no task redirects an entry that is not its own promise's, as the comment
\* in resolve_exported_promise says, handle_disembargo never rejects what its
\* peer sends: the export that a Disembargo names still points back over the
\* connection, whatever was resolved, released or exported again meanwhile.
THEOREM HandlersAccept == Spec /\ NoStrayRedirect => []HandlersSucceed
<1>1. Init => Straightened
  BY StraightInit
<1>2. Straightened /\ [Next]_vars /\ [~ StrayRedirect]_vars => Straightened'
  BY StraightNext
<1>3. Straightened => HandlersSucceed
  BY SoundFacts DEF Straightened, Straight, FaultInv, HandlersSucceed
<1> QED
  BY <1>1, <1>2, <1>3, PTL DEF Spec, NoStrayRedirect

=============================================================================
