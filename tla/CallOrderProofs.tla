--------------------------- MODULE CallOrderProofs ---------------------------
(***************************************************************************)
(* Proof that calls made through one reference of PromiseResolution reach  *)
(* the capability it stands for, in either vat, in the order they were     *)
(* made in (CallsInOrder), for any number of promises, references, exports *)
(* and calls.                                                              *)
(*                                                                         *)
(* A call is at one of five stages: begun, on the channel back to the      *)
(* caller, queued at the exporter for a promise, on the channel to the     *)
(* exporter, or held by the embargo of its client. The invariant has four  *)
(* parts:                                                                  *)
(*   - Order: calls of one reference are in order within each stage and    *)
(*     from stage to stage;                                                *)
(*   - Flow: those that are on their way all end in the same capability,   *)
(*     the one the import of their reference stands for, so that none is   *)
(*     forwarded while an earlier one waits for another promise;           *)
(*   - Holders: what the state of a client says of them: an embargo that   *)
(*     is lifted has none left on its way, a client that was never called  *)
(*     has none at all;                                                    *)
(*   - FlushInv: none of them is behind the Disembargo of its client.      *)
(* CurrentInv, that what a reference stands for and where its calls end    *)
(* agree, needs that no task redirects an entry that is not its promise's  *)
(* (NoStrayRedirect): only then does the export a Resolve names lead where *)
(* the calls went.                                                         *)
(***************************************************************************)
EXTENDS PromiseProofs

-----------------------------------------------------------------------------
(* Calls on their way *)

\* A sequence of calls has k in it; a channel carries it, or carries it to an
\* export.
Has(s, k) == \E i \in 1 .. Len(s) : s[i] = k
CarriesCall(t, k) == \E i \in 1 .. Len(t) : t[i].type = "Call" /\ t[i].call = k
CarriesTo(t, k, id) == \E i \in 1 .. Len(t) : t[i].type = "Call" /\ t[i].call = k /\ t[i].id = id

\* Two calls are in order, unless they are of different references.
Less(k, l) == k[1] = l[1] => k[2] < l[2]
Sorted(s) == \A i, j \in 1 .. Len(s) : i < j => Less(s[i], s[j])
SortedCalls(t) ==
    \A i, j \in 1 .. Len(t) : i < j /\ t[i].type = "Call" /\ t[j].type = "Call" => Less(t[i].call, t[j].call)

\* A channel to which no call was added carries no new one.
LEMMA FollowsCalls ==
    ASSUME NEW t, NEW t2, Len(t) \in Nat, Len(t2) \in Nat, Follows(t, t2, {"Call"})
    PROVE  /\ \A k : CarriesCall(t2, k) => CarriesCall(t, k)
           /\ \A k, id : CarriesTo(t2, k, id) => CarriesTo(t, k, id)
           /\ SortedCalls(t) => SortedCalls(t2)
<1>1. PICK n \in {0, 1} : \A i \in 1 .. Len(t2) :
        t2[i].type \notin {"Call"} \/ (i + n \in 1 .. Len(t) /\ t2[i] = t[i + n])
  BY DEF Follows
<1>2. \A k : CarriesCall(t2, k) => CarriesCall(t, k)
  BY <1>1 DEF CarriesCall
<1>3. \A k, id : CarriesTo(t2, k, id) => CarriesTo(t, k, id)
  BY <1>1 DEF CarriesTo
<1>4. ASSUME SortedCalls(t), NEW i \in 1 .. Len(t2), NEW j \in 1 .. Len(t2), i < j,
             t2[i].type = "Call", t2[j].type = "Call"
      PROVE  Less(t2[i].call, t2[j].call)
  <2>1. i + n \in 1 .. Len(t) /\ t2[i] = t[i + n] /\ j + n \in 1 .. Len(t) /\ t2[j] = t[j + n] /\ i + n < j + n
    BY <1>1, <1>4
  <2> QED
    BY <1>4, <2>1 DEF SortedCalls
<1> QED
  BY <1>2, <1>3, <1>4 DEF SortedCalls

\* A channel that was extended by calls carries them, behind the others.
LEMMA LongerByCalls ==
    ASSUME NEW t, NEW t2, NEW calls, LongerBy(t, t2, calls)
    PROVE  /\ \A k : CarriesCall(t2, k) => CarriesCall(t, k) \/ Has(calls, k)
           /\ SortedCalls(t) /\ Sorted(calls) /\ (\A k, l : CarriesCall(t, k) /\ Has(calls, l) => Less(k, l))
                => SortedCalls(t2)
<1>1. /\ Len(t) \in Nat /\ Len(calls) \in Nat /\ Len(t2) = Len(t) + Len(calls)
      /\ \A i \in 1 .. Len(t2) : i <= Len(t) => t2[i] = t[i]
      /\ \A i \in 1 .. Len(t2) : i > Len(t) =>
            i - Len(t) \in 1 .. Len(calls) /\ t2[i].type = "Call" /\ t2[i].call = calls[i - Len(t)]
  BY DEF LongerBy
<1>2. \A i \in 1 .. Len(t2) : t2[i].type = "Call" =>
        \/ i \in 1 .. Len(t) /\ t2[i] = t[i] /\ CarriesCall(t, t2[i].call)
        \/ i > Len(t) /\ i - Len(t) \in 1 .. Len(calls) /\ t2[i].call = calls[i - Len(t)] /\ Has(calls, t2[i].call)
  BY <1>1 DEF CarriesCall, Has
<1>3. \A k : CarriesCall(t2, k) => CarriesCall(t, k) \/ Has(calls, k)
  BY <1>2 DEF CarriesCall
<1>4. ASSUME SortedCalls(t), Sorted(calls), \A k, l : CarriesCall(t, k) /\ Has(calls, l) => Less(k, l),
             NEW i \in 1 .. Len(t2), NEW j \in 1 .. Len(t2), i < j, t2[i].type = "Call", t2[j].type = "Call"
      PROVE  Less(t2[i].call, t2[j].call)
  <2>1. CASE j \in 1 .. Len(t)
    BY <1>1, <1>2, <1>4, <2>1 DEF SortedCalls
  <2>2. CASE j > Len(t) /\ i \in 1 .. Len(t)
    BY <1>1, <1>2, <1>4, <2>2
  <2>3. CASE i > Len(t)
    <3>1. /\ i - Len(t) < j - Len(t) /\ i - Len(t) \in 1 .. Len(calls) /\ j - Len(t) \in 1 .. Len(calls)
          /\ t2[i].call = calls[i - Len(t)] /\ t2[j].call = calls[j - Len(t)]
      BY <1>1, <1>4, <2>3
    <3> QED
      BY <1>4, <3>1 DEF Sorted
  <2> QED
    BY <1>1, <1>2, <1>4, <2>1, <2>2, <2>3
<1> QED
  BY <1>3, <1>4 DEF SortedCalls

\* A message appended to a channel.
LEMMA LongerCalls ==
    ASSUME NEW t, NEW t2, NEW m, Longer(t, t2, m)
    PROVE  /\ \A k : CarriesCall(t2, k) => CarriesCall(t, k) \/ (m.type = "Call" /\ m.call = k)
           /\ \A k, id : CarriesTo(t2, k, id) => CarriesTo(t, k, id) \/ (m.type = "Call" /\ m.call = k /\ m.id = id)
           /\ SortedCalls(t) /\ (\A k : m.type = "Call" /\ CarriesCall(t, k) => Less(k, m.call)) => SortedCalls(t2)
<1>1. /\ Len(t) \in Nat /\ Len(t2) = Len(t) + 1 /\ \A i \in 1 .. Len(t) : t2[i] = t[i]
      /\ t2[Len(t) + 1] = m
  BY DEF Longer
<1>2. \A i \in 1 .. Len(t2) : (i \in 1 .. Len(t) /\ t2[i] = t[i]) \/ (i = Len(t) + 1 /\ t2[i] = m)
  BY <1>1
<1>3. \A k : CarriesCall(t2, k) => CarriesCall(t, k) \/ (m.type = "Call" /\ m.call = k)
  BY <1>2 DEF CarriesCall
<1>4. \A k, id : CarriesTo(t2, k, id) => CarriesTo(t, k, id) \/ (m.type = "Call" /\ m.call = k /\ m.id = id)
  BY <1>2 DEF CarriesTo
<1>5. ASSUME SortedCalls(t), \A k : m.type = "Call" /\ CarriesCall(t, k) => Less(k, m.call),
             NEW i \in 1 .. Len(t2), NEW j \in 1 .. Len(t2), i < j, t2[i].type = "Call", t2[j].type = "Call"
      PROVE  Less(t2[i].call, t2[j].call)
  <2>1. i \in 1 .. Len(t) /\ t2[i] = t[i] /\ CarriesCall(t, t2[i].call)
    BY <1>1, <1>2, <1>5 DEF CarriesCall
  <2>2. CASE j \in 1 .. Len(t)
    BY <1>1, <1>5, <2>1, <2>2 DEF SortedCalls
  <2>3. CASE t2[j] = m
    BY <1>5, <2>1, <2>3
  <2> QED
    BY <1>2, <2>2, <2>3
<1> QED
  BY <1>3, <1>4, <1>5 DEF SortedCalls

\* A call read is ahead of those left.
LEMMA ShorterCalls ==
    ASSUME NEW t, NEW t2, NEW m, Shorter(t, t2, m)
    PROVE  /\ \A k : CarriesCall(t2, k) => CarriesCall(t, k)
           /\ \A k, id : CarriesTo(t2, k, id) => CarriesTo(t, k, id)
           /\ SortedCalls(t) => SortedCalls(t2)
           /\ m.type = "Call" => CarriesCall(t, m.call) /\ CarriesTo(t, m.call, m.id)
           /\ m.type = "Call" /\ SortedCalls(t) => \A k : CarriesCall(t2, k) => Less(m.call, k)
<1>1. Len(t2) \in Nat /\ Len(t) = Len(t2) + 1 /\ t[1] = m /\ \A i \in 1 .. Len(t2) : t2[i] = t[i + 1]
  BY DEF Shorter
<1>2. Len(t) \in Nat /\ Follows(t, t2, {"Call"})
  BY <1>1, FollowsFacts
<1>3. 1 \in 1 .. Len(t)
  BY <1>1
<1>4. m.type = "Call" => CarriesCall(t, m.call) /\ CarriesTo(t, m.call, m.id)
  BY <1>1, <1>3 DEF CarriesCall, CarriesTo
<1>5. ASSUME m.type = "Call", SortedCalls(t), NEW k, CarriesCall(t2, k) PROVE Less(m.call, k)
  <2>1. PICK i \in 1 .. Len(t2) : t2[i].type = "Call" /\ t2[i].call = k
    BY <1>5 DEF CarriesCall
  <2>2. i + 1 \in 1 .. Len(t) /\ 1 < i + 1 /\ t[i + 1] = t2[i]
    BY <1>1, <2>1
  <2> QED
    BY <1>1, <1>3, <1>5, <2>1, <2>2 DEF SortedCalls
<1> QED
  BY <1>1, <1>2, <1>4, <1>5, FollowsCalls

\* Sequences of calls: put together, extended, and with one taken out.
LEMMA CallSeqs ==
    ASSUME NEW s \in Seq(Calls)
    PROVE  /\ \A k : Has(<<>>, k) => FALSE
           /\ \A k \in Calls : Sorted(<<k>>) /\ \A l : Has(<<k>>, l) <=> l = k
           /\ Len(s) \in Nat /\ \A k : Has(s, k) => k \in Calls
           /\ Sorted(<<>>)
<1>1. Len(<<>>) = 0
  OBVIOUS
<1>2. \A k \in Calls : Len(<<k>>) = 1 /\ <<k>>[1] = k
  OBVIOUS
<1>3. \A k : Has(<<>>, k) => FALSE
  BY <1>1 DEF Has
<1>4. Sorted(<<>>)
  BY <1>1 DEF Sorted
<1>5. ASSUME NEW k \in Calls PROVE Sorted(<<k>>) /\ \A l : Has(<<k>>, l) <=> l = k
  <2> DEFINE u == <<k>>
  <2>1. Len(u) = 1 /\ u[1] = k
    BY <1>2
  <2> HIDE DEF u
  <2>2. 1 \in 1 .. Len(u) /\ \A i \in 1 .. Len(u) : i = 1
    BY <2>1
  <2>3. Sorted(u) /\ \A l : Has(u, l) <=> l = k
    BY <2>1, <2>2 DEF Sorted, Has
  <2> QED
    BY <2>3 DEF u
<1> QED
  BY <1>3, <1>4, <1>5 DEF Has

\* Two sequences put together, place by place.
LEMMA Joined ==
    ASSUME NEW s \in Seq(Calls), NEW u \in Seq(Calls)
    PROVE  /\ s \o u \in Seq(Calls) /\ Len(s \o u) = Len(s) + Len(u) /\ Len(s) \in Nat /\ Len(u) \in Nat
           /\ \A i \in 1 .. Len(s) + Len(u) : (s \o u)[i] = IF i <= Len(s) THEN s[i] ELSE u[i - Len(s)]
  OBVIOUS

\* They are in order, if every call of the first goes before those of the second.
LEMMA CallSeqsJoined ==
    ASSUME NEW s \in Seq(Calls), NEW u \in Seq(Calls)
    PROVE  /\ s \o u \in Seq(Calls)
           /\ \A k : Has(s \o u, k) <=> Has(s, k) \/ Has(u, k)
           /\ Sorted(s) /\ Sorted(u) /\ (\A k, l : Has(s, k) /\ Has(u, l) => Less(k, l)) => Sorted(s \o u)
<1> DEFINE w == s \o u
<1>1. /\ w \in Seq(Calls) /\ Len(w) = Len(s) + Len(u) /\ Len(s) \in Nat /\ Len(u) \in Nat
      /\ \A i \in 1 .. Len(w) : w[i] = IF i <= Len(s) THEN s[i] ELSE u[i - Len(s)]
  OBVIOUS
<1> HIDE DEF w
<1>2. \A i \in 1 .. Len(w) :
        \/ i \in 1 .. Len(s) /\ w[i] = s[i] /\ Has(s, w[i])
        \/ i > Len(s) /\ i - Len(s) \in 1 .. Len(u) /\ w[i] = u[i - Len(s)] /\ Has(u, w[i])
  BY <1>1 DEF Has
<1>3. \A i \in 1 .. Len(s) : i \in 1 .. Len(w) /\ w[i] = s[i]
  BY <1>1
<1>4. \A i \in 1 .. Len(u) : i + Len(s) \in 1 .. Len(w) /\ w[i + Len(s)] = u[i]
  BY <1>1
<1>5. \A k : Has(w, k) <=> Has(s, k) \/ Has(u, k)
  BY <1>2, <1>3, <1>4 DEF Has
<1>6. ASSUME Sorted(s), Sorted(u), \A k, l : Has(s, k) /\ Has(u, l) => Less(k, l),
             NEW i \in 1 .. Len(w), NEW j \in 1 .. Len(w), i < j
      PROVE  Less(w[i], w[j])
  <2>1. CASE j \in 1 .. Len(s)
    BY <1>1, <1>3, <1>6, <2>1 DEF Sorted
  <2>2. CASE j > Len(s) /\ i \in 1 .. Len(s)
    BY <1>1, <1>2, <1>6, <2>2
  <2>3. CASE i > Len(s)
    <3>1. /\ i - Len(s) < j - Len(s) /\ i - Len(s) \in 1 .. Len(u) /\ j - Len(s) \in 1 .. Len(u)
          /\ w[i] = u[i - Len(s)] /\ w[j] = u[j - Len(s)]
      BY <1>1, <1>2, <1>6, <2>3
    <3> QED
      BY <1>6, <3>1 DEF Sorted
  <2> QED
    BY <1>1, <1>2, <1>6, <2>1, <2>2, <2>3
<1>7. Sorted(s) /\ Sorted(u) /\ (\A k, l : Has(s, k) /\ Has(u, l) => Less(k, l)) => Sorted(w)
  BY <1>6 DEF Sorted
<1> QED
  BY <1>1, <1>5, <1>7 DEF w

\* The numbers of what is left when place n is taken out.
LEMMA CutPlaces ==
    ASSUME NEW N \in Nat, NEW n \in 1 .. N, NEW s, NEW a, NEW b, NEW w,
           \A i \in 1 .. n - 1 : a[i] = s[i],
           \A i \in 1 .. N - n : b[i] = s[i + n],
           \A i \in 1 .. N - 1 : w[i] = IF i <= n - 1 THEN a[i] ELSE b[i - (n - 1)]
    PROVE  \A i \in 1 .. N - 1 :
             \E j \in 1 .. N : w[i] = s[j] /\ j = IF i < n THEN i ELSE i + 1
<1> SUFFICES ASSUME NEW i \in 1 .. N - 1 PROVE \E j \in 1 .. N : w[i] = s[j] /\ j = IF i < n THEN i ELSE i + 1
  OBVIOUS
<1>1. CASE i < n
  <2>1. i \in 1 .. n - 1 /\ i \in 1 .. N /\ i <= n - 1
    BY <1>1
  <2> QED
    BY <1>1, <2>1
<1>2. CASE ~ i < n
  <2>1. i - (n - 1) \in 1 .. N - n /\ (i - (n - 1)) + n = i + 1 /\ ~ i <= n - 1 /\ i + 1 \in 1 .. N
    BY <1>2
  <2>2. b[i - (n - 1)] = s[i + 1]
    BY <2>1
  <2> QED
    BY <1>2, <2>1, <2>2
<1> QED
  BY <1>1, <1>2

\* Taking one call out leaves the others in order.
LEMMA CallSeqsCut ==
    ASSUME NEW s \in Seq(Calls), NEW n \in 1 .. Len(s), NEW w, w = SubSeq(s, 1, n - 1) \o SubSeq(s, n + 1, Len(s))
    PROVE  /\ w \in Seq(Calls)
           /\ \A k : Has(w, k) => Has(s, k)
           /\ Sorted(s) => Sorted(w)
<1> DEFINE a == SubSeq(s, 1, n - 1)
           b == SubSeq(s, n + 1, Len(s))
<1>1. Len(s) \in Nat /\ n \in Nat /\ n >= 1 /\ n <= Len(s)
  OBVIOUS
<1>2. a \in Seq(Calls) /\ Len(a) = n - 1 /\ \A i \in 1 .. n - 1 : a[i] = s[i]
  BY <1>1
<1>3. b \in Seq(Calls) /\ Len(b) = Len(s) - n /\ \A i \in 1 .. Len(s) - n : b[i] = s[i + n]
  BY <1>1
<1>4. w = a \o b
  OBVIOUS
<1> HIDE DEF a, b
<1>5. /\ a \o b \in Seq(Calls) /\ Len(a \o b) = Len(a) + Len(b)
      /\ \A i \in 1 .. Len(a) + Len(b) : (a \o b)[i] = IF i <= Len(a) THEN a[i] ELSE b[i - Len(a)]
  BY <1>2, <1>3, Joined
<1> DEFINE N == Len(s)
           len == Len(a) + Len(b)
<1>6. N \in Nat /\ n \in 1 .. N /\ len = N - 1
  BY <1>1, <1>2, <1>3
<1>7. /\ w \in Seq(Calls) /\ Len(w) = N - 1
      /\ \A i \in 1 .. N - 1 : w[i] = IF i <= n - 1 THEN a[i] ELSE b[i - (n - 1)]
  <2>1. Len(a) = n - 1
    BY <1>2
  <2>2. /\ w \in Seq(Calls) /\ Len(w) = len
        /\ \A i \in 1 .. len : w[i] = IF i <= Len(a) THEN a[i] ELSE b[i - Len(a)]
    BY <1>4, <1>5
  <2> HIDE DEF len
  <2> QED
    BY <1>6, <2>1, <2>2
<1> HIDE DEF N
<1>8. \A i \in 1 .. N - 1 : \E j \in 1 .. N : w[i] = s[j] /\ j = IF i < n THEN i ELSE i + 1
  <2>1. (\A i \in 1 .. n - 1 : a[i] = s[i]) /\ \A i \in 1 .. N - n : b[i] = s[i + n]
    BY <1>2, <1>3 DEF N
  <2>2. \A i \in 1 .. N - 1 : w[i] = IF i <= n - 1 THEN a[i] ELSE b[i - (n - 1)]
    BY <1>7
  <2> QED
    BY ONLY <1>6, <2>1, <2>2, CutPlaces
<1>9. \A k : Has(w, k) => Has(s, k)
  BY <1>7, <1>8 DEF Has, N
<1>10. ASSUME Sorted(s), NEW i \in 1 .. Len(w), NEW j \in 1 .. Len(w), i < j PROVE Less(w[i], w[j])
  <2>0. i \in 1 .. N - 1 /\ j \in 1 .. N - 1
    BY <1>7
  <2>1. PICK x \in 1 .. N : w[i] = s[x] /\ x = IF i < n THEN i ELSE i + 1
    BY <1>8, <2>0
  <2>2. PICK y \in 1 .. N : w[j] = s[y] /\ y = IF j < n THEN j ELSE j + 1
    BY <1>8, <2>0
  <2>3. x < y
    BY ONLY <1>6, <1>10, <2>0, <2>1, <2>2
  <2> QED
    BY <1>10, <2>1, <2>2, <2>3 DEF Sorted, N
<1> QED
  BY <1>7, <1>9, <1>10 DEF Sorted

-----------------------------------------------------------------------------
(* Where the calls of a reference are, and where they go *)

\* A call is on its way to the exporter, or waits there for a promise.
Passing(k) == CarriesCall(toB, k) \/ \E p \in Promises : Has(queued[p], k)

\* The calls of r that are on their way all end in d.
Heads(r, d) ==
    \A k \in Calls : k[1] = r =>
        /\ CarriesCall(toA, k) => d = Peer
        /\ \A p \in Promises : Has(queued[p], k) => p = d
        /\ up["B"] => \A id \in Ids : CarriesTo(toB, k, id) => Target(id) = d

\* None of them has yet to pass the exporter, none is on its way at all, or
\* waits for an embargo.
Arrived(r) == \A k \in Calls : k[1] = r => ~ Passing(k)
Idle(r) == Arrived(r) /\ \A k \in Calls : k[1] = r => ~ CarriesCall(toA, k)
Waits(r, c) == \E k \in Calls : k[1] = r /\ Has(gate[c].calls, k)
Resting(r) == Idle(r) /\ \A c \in Refs : ~ Waits(r, c)

\* A step that makes no call through r moves those there are towards their end.
Onward(r) ==
    \A k \in Calls : k[1] = r =>
        /\ Passing(k)' => Passing(k)
        /\ CarriesCall(toA', k) => CarriesCall(toA, k) \/ Passing(k)
        /\ \A c \in Refs : Has(gate'[c].calls, k) => Has(gate[c].calls, k)
\* One that moves none over the connection or out of a queue.
Fewer ==
    /\ \A k : CarriesCall(toA', k) => CarriesCall(toA, k)
    /\ \A k : CarriesCall(toB', k) => CarriesCall(toB, k)
    /\ \A k, id : CarriesTo(toB', k, id) => CarriesTo(toB, k, id)
    /\ queued' = queued
    /\ \A c \in Refs, k \in Calls : Has(gate'[c].calls, k) => Has(gate[c].calls, k)

\* Such a step moves every call of a reference onward, or not at all.
LEMMA FewerOnward == ASSUME Fewer, NEW r PROVE Onward(r)
  BY DEF Fewer, Onward, Passing

\* What has arrived, rests or does not wait stays so.
LEMMA OnwardFacts ==
    ASSUME NEW r, Onward(r)
    PROVE  /\ Arrived(r) => Arrived(r)'
           /\ Idle(r) => Idle(r)'
           /\ \A c \in Refs : Waits(r, c)' => Waits(r, c)
           /\ Resting(r) => Resting(r)'
<1>1. Arrived(r) => Arrived(r)'
  BY DEF Onward, Arrived
<1>2. Idle(r) => Idle(r)'
  BY <1>1 DEF Onward, Idle, Arrived
<1>3. \A c \in Refs : Waits(r, c)' => Waits(r, c)
  BY DEF Onward, Waits
<1> QED
  BY <1>1, <1>2, <1>3 DEF Resting

\* A channel to which nothing of the given types was added.
LEMMA FollowsFewer ==
    ASSUME NEW t, NEW t2, NEW T, Follows(t, t2, T), "Call" \in T
    PROVE  Follows(t, t2, {"Call"})
  BY DEF Follows

\* A call that is carried to an export is carried.
LEMMA CarriesToCall == \A t, k, id : CarriesTo(t, k, id) => CarriesCall(t, k)
  BY DEF CarriesTo, CarriesCall

\* Calls that are not there head anywhere.
LEMMA IdleHeads == ASSUME NEW r, Idle(r), NEW d PROVE Heads(r, d)
  BY CarriesToCall DEF Idle, Arrived, Passing, Heads

-----------------------------------------------------------------------------
(* The calls of a reference have one end *)

\* It is that of the import which the reference stands for.
FlowInv == \A r \in Refs : \E d \in Caps : Heads(r, d)
Current(r, id) == held[r] = Import(id) \/ \E c \in Refs : held[r] = Promised(c) /\ clients[c].cap = Import(id)
CurrentInv ==
    up["A"] /\ up["B"] => \A r \in Refs, id \in Ids : Current(r, id) => Heads(r, Target(id))
Flow == FlowInv /\ CurrentInv

\* No entry leads elsewhere.
Steady == \A id \in Ids : exports[id] # None /\ exports'[id] # None => Target(id)' = Target(id)

\* The exports that calls name are there, and so are those that references
\* stand for.
CalledAlive == up["B"] => \A id \in Ids, k \in Calls : CarriesTo(toB, k, id) => exports[id] # None
CurrentAlive == up["A"] /\ up["B"] => \A r \in Refs, id \in Ids : Current(r, id) => exports[id] # None

\* handle_call finds the export that a call names.
LEMMA CalledLive == Sound => CalledAlive
<1> SUFFICES ASSUME Sound, up["B"], NEW id \in Ids, NEW k \in Calls, CarriesTo(toB, k, id) PROVE exports[id] # None
  BY DEF CalledAlive
<1>1. PICK i \in 1 .. Len(toB) : toB[i].type = "Call" /\ toB[i].id = id
  BY DEF CarriesTo
<1>2. toB[i] \in MessageB
  BY SoundFacts
<1> QED
  BY <1>1, <1>2, SoundLive DEF NamedLive, Exported

\* An import that a reference stands for is in both tables.
LEMMA CurrentLive ==
    ASSUME Sound, up["A"], up["B"], NEW r \in Refs, NEW id \in Ids, Current(r, id)
    PROVE  imports[id] # None /\ exports[id] # None /\ Target(id) \in Caps
<1>1. Kept(id, held, clients, old)
  <2>1. ASSUME NEW c \in Refs, held[r] = Promised(c), clients[c].cap = Import(id) PROVE clients[c] # None
    BY <2>1, SoundFacts DEF Basic, Clients, ClientsInv
  <2> QED
    BY <2>1 DEF Current, Kept
<1>2. imports[id] # None
  BY <1>1, SoundFacts DEF Basic, Clients, KeptInv
<1> QED
  BY <1>2, KnownLive, TargetType

\* After the step as well as before it.
LEMMA AliveNext == Sound' => TypeOK' /\ CalledAlive' /\ CurrentAlive'
<1>1. Sound => TypeOK /\ CalledAlive /\ CurrentAlive
  BY SoundFacts, CalledLive, CurrentLive DEF CurrentAlive
<1> QED
  BY <1>1, PTL

\* Calls go on to where their end has moved.
LEMMA HeadsMove ==
    ASSUME Sound, Sound', NEW r, NEW d, Heads(r, d), NEW d2,
           \A k \in Calls : k[1] = r /\ CarriesCall(toA', k) => d2 = Peer,
           \A k \in Calls, p \in Promises : k[1] = r /\ Has(queued'[p], k) => p = d2,
           \A k \in Calls, id \in Ids : k[1] = r => (CarriesTo(toB', k, id) => CarriesTo(toB, k, id)),
           up'["B"] => up["B"],
           up'["B"] => \A id \in Ids : exports[id] # None /\ exports'[id] # None /\ Target(id) = d => Target(id)' = d2
    PROVE  Heads(r, d2)'
<1> SUFFICES ASSUME NEW k \in Calls, k[1] = r
             PROVE  /\ CarriesCall(toA', k) => d2 = Peer
                    /\ \A p \in Promises : Has(queued'[p], k) => p = d2
                    /\ up'["B"] => \A id \in Ids : CarriesTo(toB', k, id) => Target(id)' = d2
  BY DEF Heads
<1>1. ASSUME up'["B"], NEW id \in Ids, CarriesTo(toB', k, id) PROVE Target(id)' = d2
  <2>1. exports'[id] # None
    BY <1>1, AliveNext DEF CalledAlive
  <2>2. CarriesTo(toB, k, id) /\ up["B"]
    BY <1>1
  <2>3. exports[id] # None /\ Target(id) = d
    BY <2>2, CalledLive DEF CalledAlive, Heads
  <2> QED
    BY <1>1, <2>1, <2>3
<1> QED
  BY <1>1

\* Those that are not moved still head where they did.
LEMMA HeadsStay ==
    ASSUME Sound, Sound', NEW r, NEW d, Heads(r, d),
           \A k \in Calls : k[1] = r => (CarriesCall(toA', k) => CarriesCall(toA, k)),
           \A k \in Calls, id \in Ids : k[1] = r => (CarriesTo(toB', k, id) => CarriesTo(toB, k, id)),
           queued' = queued, up'["B"] => up["B"] /\ Steady
    PROVE  Heads(r, d)'
<1>1. \A k \in Calls : k[1] = r /\ CarriesCall(toA', k) => d = Peer
  BY DEF Heads
<1>2. \A k \in Calls, p \in Promises : k[1] = r /\ Has(queued'[p], k) => p = d
  BY DEF Heads
<1>3. up'["B"] => \A id \in Ids : exports[id] # None /\ exports'[id] # None /\ Target(id) = d => Target(id)' = d
  BY DEF Steady
<1> QED
  BY <1>1, <1>2, <1>3, HeadsMove

\* A step that moves no call keeps Flow, if what references stand for leads
\* where it did.
LEMMA FlowFewer ==
    ASSUME Sound, Sound', Flow, Fewer,
           up'["A"] => up["A"], up'["B"] => up["B"] /\ Steady,
           up'["A"] /\ up'["B"] => \A r \in Refs, id \in Ids : Current(r, id)' =>
                Idle(r) \/ \E j \in Ids : Current(r, j) /\ Target(id) = Target(j) /\ exports[id] # None
    PROVE  Flow'
<1>1. ASSUME NEW r \in Refs, NEW d, Heads(r, d) PROVE Heads(r, d)'
  BY <1>1, HeadsStay DEF Fewer
<1>2. FlowInv'
  BY <1>1 DEF Flow, FlowInv
<1>3. ASSUME up'["A"], up'["B"], NEW r \in Refs, NEW id \in Ids, Current(r, id)' PROVE Heads(r, Target(id))'
  <2>1. exports'[id] # None
    BY <1>3, AliveNext DEF CurrentAlive
  <2>2. ASSUME NEW j \in Ids, Current(r, j), Target(id) = Target(j), exports[id] # None PROVE Heads(r, Target(id))'
    <3>1. Heads(r, Target(j))
      BY <1>3, <2>2 DEF Flow, CurrentInv
    <3> DEFINE d == Target(j)
    <3>2. Target(id)' = d
      BY <1>3, <2>1, <2>2 DEF Steady
    <3>3. PICK x \in {d} : x = d
      OBVIOUS
    <3>4. Heads(r, x) /\ Target(id)' = x
      BY <3>1, <3>2, <3>3
    <3> HIDE DEF d
    <3>5. Heads(r, x)'
      BY <1>1, <3>4
    <3> QED
      BY <3>4, <3>5
  <2>3. CASE Idle(r)
    <3>1. Idle(r)'
      BY <2>3, FewerOnward, OnwardFacts
    <3>2. \A k \in Calls, j \in Ids : CarriesTo(toB', k, j) => CarriesCall(toB', k)
      BY CarriesToCall
    <3> QED
      BY <3>1, <3>2 DEF Idle, Arrived, Passing, Heads
  <2> QED
    BY <1>3, <2>2, <2>3
<1> QED
  BY <1>2, <1>3 DEF Flow, CurrentInv

-----------------------------------------------------------------------------
(* What the state of a client says of the calls made through it *)

\* No reference that is still to come was called.
Unborn(r) == r > gives \/ \E i \in 1 .. Len(toA) : Brings(toA[i], r)
UnbornInv == \A r \in Refs : Unborn(r) => Resting(r)

\* Calls wait behind the embargo of one client, the one their reference is to,
\* and only there.
WaitInv ==
    \A r, c \in Refs : Waits(r, c) =>
        /\ held[r] \in {Nothing, Promised(c)}
        /\ \A d \in Refs : Waits(r, d) => d = c
GateInv ==
    /\ \A c \in Refs, k \in Calls : Has(gate[c].calls, k) => gate[c].st \in {"embargoed", "released", "failed"}
    /\ \A c \in Refs : clients[c] # None => (clients[c].cap = Gated(c) <=> gate[c].st # "none")

\* No call is on its way through a reference to a capability of this vat, or
\* to a client that was never called.
RestInv ==
    /\ \A r \in Refs : held[r] = Local => Resting(r)
    /\ \A r, c \in Refs : held[r] = Promised(c) /\ clients[c] # None
            /\ (clients[c].cap = Local \/ ~ clients[c].called) => Resting(r)

\* Once the embargo of a client is lifted, none is on its way through it.
Through(r, c) == held[r] = Promised(c) \/ Waits(r, c)
ThroughInv ==
    \A r, c \in Refs : Through(r, c) /\ gate[c].st \in {"released", "open"} => Idle(r)

Holders == UnbornInv /\ WaitInv /\ GateInv /\ RestInv /\ ThroughInv

\* A step that leaves each client as it is, drops it, or resolves it, and lifts
\* an embargo when no call is on its way through it.
Kinder ==
    /\ \A r \in Refs : held'[r] \in {Nothing, held[r]}
    /\ \A c \in Refs : clients'[c] # None =>
        /\ clients[c] # None
        /\ clients'[c].cap = Local => clients[c].cap = Local \/ ~ clients[c].called
        /\ ~ clients'[c].called => ~ clients[c].called
        /\ clients'[c].cap = Gated(c) <=> gate'[c].st # "none"
    /\ \A c \in Refs : gate'[c].st \in {"released", "open"} =>
        gate[c].st \in {"released", "open"} \/ \A r \in Refs : Through(r, c) => Idle(r)
    /\ \A c \in Refs, k \in Calls : Has(gate'[c].calls, k) => gate'[c].st \in {"embargoed", "released", "failed"}

\* No reference begins to call through a client by such a step.
LEMMA ThroughLess ==
    ASSUME NEW r \in Refs, Onward(r), held'[r] \in {Nothing, held[r]}, NEW c \in Refs, Through(r, c)'
    PROVE  Through(r, c)
<1>1. Waits(r, c)' => Waits(r, c)
  BY OnwardFacts
<1>2. held'[r] = Promised(c) => held[r] = Promised(c)
  BY ClientKinds
<1> QED
  BY <1>1, <1>2 DEF Through

\* Such a step keeps what the clients say of the calls.
LEMMA HoldersFrame ==
    ASSUME Holders, \A r \in Refs : Onward(r), Kinder, \A r \in Refs : Unborn(r)' => Unborn(r)
    PROVE  Holders'
<1>1. UnbornInv'
  BY OnwardFacts DEF Holders, UnbornInv
<1>2. WaitInv'
  BY OnwardFacts DEF Holders, WaitInv, Kinder
<1>3. GateInv'
  BY DEF GateInv, Kinder
<1>4. RestInv'
  <2>1. ASSUME NEW r \in Refs, held'[r] = Local PROVE Resting(r)'
    <3>1. held[r] = Local
      BY <2>1, ClientKinds DEF Kinder
    <3> QED
      BY <3>1, OnwardFacts DEF Holders, RestInv
  <2>2. ASSUME NEW r \in Refs, NEW c \in Refs, held'[r] = Promised(c), clients'[c] # None,
               clients'[c].cap = Local \/ ~ clients'[c].called
        PROVE  Resting(r)'
    <3>1. held[r] = Promised(c) /\ clients[c] # None /\ (clients[c].cap = Local \/ ~ clients[c].called)
      BY <2>2, ClientKinds DEF Kinder
    <3> QED
      BY <3>1, OnwardFacts DEF Holders, RestInv
  <2> QED
    BY <2>1, <2>2 DEF RestInv
<1>5. ThroughInv'
  <2> SUFFICES ASSUME NEW r \in Refs, NEW c \in Refs, Through(r, c)', gate'[c].st \in {"released", "open"} PROVE Idle(r)'
    BY DEF ThroughInv
  <2>1. Through(r, c)
    BY ThroughLess DEF Kinder
  <2>2. Idle(r)
    BY <2>1 DEF Kinder, Holders, ThroughInv
  <2> QED
    BY <2>2, OnwardFacts
<1> QED
  BY <1>1, <1>2, <1>3, <1>4, <1>5 DEF Holders

-----------------------------------------------------------------------------
(* A Disembargo pushes the calls made before it to their end *)

NoneBehind(t, n, r) == \A i \in 1 .. Len(t) : n < i /\ t[i].type = "Call" => t[i].call[1] # r
Flushed(r, e) ==
    /\ up["B"] => \A i \in 1 .. Len(toB) : Asks(toB[i], e) => Heads(r, Peer) /\ NoneBehind(toB, i, r)
    /\ e \in replies => Arrived(r)
    /\ \A i \in 1 .. Len(toA) : Answers(toA[i], e) => Arrived(r) /\ NoneBehind(toA, i, r)
FlushInv == \A r, c, e \in Refs : Through(r, c) /\ embargoes[e] = c => Flushed(r, e)

\* Nothing gets behind a message by a step that sends neither calls nor such.
LEMMA BehindFollows ==
    ASSUME NEW t, NEW t2, Len(t) \in Nat, Len(t2) \in Nat, NEW T, Follows(t, t2, {"Call", T}),
           NEW r, NEW n \in 1 .. Len(t2), t2[n].type = T
    PROVE  \E j \in 1 .. Len(t) : t[j] = t2[n] /\ (NoneBehind(t, j, r) => NoneBehind(t2, n, r))
<1>1. PICK s \in {0, 1} : \A i \in 1 .. Len(t2) :
        t2[i].type \notin {"Call", T} \/ (i + s \in 1 .. Len(t) /\ t2[i] = t[i + s])
  BY DEF Follows
<1>2. n + s \in 1 .. Len(t) /\ t2[n] = t[n + s]
  BY <1>1
<1>3. ASSUME NoneBehind(t, n + s, r), NEW i \in 1 .. Len(t2), n < i, t2[i].type = "Call" PROVE t2[i].call[1] # r
  <2>1. i + s \in 1 .. Len(t) /\ t2[i] = t[i + s]
    BY <1>1, <1>3
  <2>2. n + s < i + s
    BY <1>3
  <2> QED
    BY <1>3, <2>1, <2>2 DEF NoneBehind
<1>4. NoneBehind(t, n + s, r) => NoneBehind(t2, n, r)
  BY <1>3 DEF NoneBehind
<1> QED
  BY <1>2, <1>4

\* Nor by calls of other references.
LEMMA BehindCalls ==
    ASSUME NEW t, NEW t2, NEW calls, LongerBy(t, t2, calls), NEW r, \A k : Has(calls, k) => k[1] # r,
           NEW n \in 1 .. Len(t2), t2[n].type # "Call"
    PROVE  n \in 1 .. Len(t) /\ t[n] = t2[n] /\ (NoneBehind(t, n, r) => NoneBehind(t2, n, r))
<1>1. /\ Len(t) \in Nat /\ Len(calls) \in Nat /\ Len(t2) = Len(t) + Len(calls)
      /\ \A i \in 1 .. Len(t2) : i <= Len(t) => t2[i] = t[i]
      /\ \A i \in 1 .. Len(t2) : i > Len(t) =>
            i - Len(t) \in 1 .. Len(calls) /\ t2[i].type = "Call" /\ t2[i].call = calls[i - Len(t)]
  BY DEF LongerBy
<1>2. n \in 1 .. Len(t) /\ t[n] = t2[n]
  BY <1>1
<1>3. ASSUME NoneBehind(t, n, r), NEW i \in 1 .. Len(t2), n < i, t2[i].type = "Call" PROVE t2[i].call[1] # r
  <2>1. CASE i <= Len(t)
    <3>1. i \in 1 .. Len(t) /\ t2[i] = t[i]
      BY <1>1, <2>1
    <3> QED
      BY <1>3, <3>1 DEF NoneBehind
  <2>2. CASE i > Len(t)
    <3>1. Has(calls, t2[i].call)
      BY <1>1, <2>2 DEF Has
    <3> QED
      BY <3>1
  <2> QED
    BY <1>1, <2>1, <2>2
<1> QED
  BY <1>2, <1>3 DEF NoneBehind

\* A Disembargo that was sent stays behind the same calls through r.
AsksLag(r, e) ==
    \A n \in 1 .. Len(toB') : Asks(toB'[n], e) =>
        \E j \in 1 .. Len(toB) : toB[j] = toB'[n] /\ (NoneBehind(toB, j, r) => NoneBehind(toB', n, r))

\* What a step may do to the calls through r, when an embargo e waits for them:
\* all but send a Disembargo or the answer to it.
LEMMA FlushedLag ==
    ASSUME Sound, Sound', NEW r, NEW e, Flushed(r, e), Onward(r),
           up'["B"] => up["B"] /\ (Heads(r, Peer) => Heads(r, Peer)'),
           e \in replies' => e \in replies,
           AsksLag(r, e),
           \/ Follows(toA, toA', {"Call", "ReceiverLoopback"})
           \/ \E calls : LongerBy(toA, toA', calls) /\ (Arrived(r) => \A k : Has(calls, k) => k[1] # r)
    PROVE  Flushed(r, e)'
<1> Len(toA) \in Nat /\ Len(toB) \in Nat /\ Len(toA') \in Nat /\ Len(toB') \in Nat
  BY SoundFacts, AliveNext DEF TypeOK
<1>1. Arrived(r) => Arrived(r)'
  BY OnwardFacts
<1>2. ASSUME up'["B"], NEW n \in 1 .. Len(toB'), Asks(toB'[n], e) PROVE Heads(r, Peer)' /\ NoneBehind(toB', n, r)
  <2>1. PICK j \in 1 .. Len(toB) : toB[j] = toB'[n] /\ (NoneBehind(toB, j, r) => NoneBehind(toB', n, r))
    BY <1>2 DEF AsksLag
  <2> QED
    BY <1>2, <2>1 DEF Flushed
<1>3. ASSUME NEW n \in 1 .. Len(toA'), Answers(toA'[n], e) PROVE Arrived(r)' /\ NoneBehind(toA', n, r)
  <2>1. CASE Follows(toA, toA', {"Call", "ReceiverLoopback"})
    <3>0. toA'[n].type = "ReceiverLoopback"
      BY <1>3 DEF Answers
    <3>1. PICK j \in 1 .. Len(toA) : toA[j] = toA'[n] /\ (NoneBehind(toA, j, r) => NoneBehind(toA', n, r))
      BY <2>1, <3>0, BehindFollows
    <3> QED
      BY <1>1, <1>3, <3>1 DEF Flushed
  <2>2. ASSUME NEW calls, LongerBy(toA, toA', calls), Arrived(r) => \A k : Has(calls, k) => k[1] # r
        PROVE  Arrived(r)' /\ NoneBehind(toA', n, r)
    <3>0. toA'[n].type # "Call"
      BY <1>3 DEF Answers
    <3>1. n \in 1 .. Len(toA) /\ toA[n] = toA'[n]
      <4>1. \A i \in 1 .. Len(toA') : i > Len(toA) => toA'[i].type = "Call"
        BY <2>2 DEF LongerBy
      <4>2. \A i \in 1 .. Len(toA') : i <= Len(toA) => toA'[i] = toA[i]
        BY <2>2 DEF LongerBy
      <4> QED
        BY <3>0, <4>1, <4>2
    <3>2. Arrived(r) /\ NoneBehind(toA, n, r)
      BY <1>3, <3>1 DEF Flushed
    <3>3. NoneBehind(toA', n, r)
      BY <2>2, <3>0, <3>2, BehindCalls
    <3> QED
      BY <1>1, <3>2, <3>3
  <2> QED
    BY <2>1, <2>2
<1>4. e \in replies' => Arrived(r)'
  BY <1>1 DEF Flushed
<1> QED
  BY <1>2, <1>3, <1>4 DEF Flushed

\* A step that sends no Disembargo at all, or does no more than answer one.
LEMMA FlushedStays ==
    ASSUME Sound, Sound', NEW r, NEW e, Flushed(r, e), Onward(r),
           up'["B"] => up["B"] /\ (Heads(r, Peer) => Heads(r, Peer)'),
           e \in replies' => e \in replies,
           Follows(toB, toB', {"Call", "SenderLoopback"}),
           \/ Follows(toA, toA', {"Call", "ReceiverLoopback"})
           \/ \E calls : LongerBy(toA, toA', calls) /\ (Arrived(r) => \A k : Has(calls, k) => k[1] # r)
    PROVE  Flushed(r, e)'
<1>1. ASSUME NEW n \in 1 .. Len(toB'), Asks(toB'[n], e)
      PROVE  \E j \in 1 .. Len(toB) : toB[j] = toB'[n] /\ (NoneBehind(toB, j, r) => NoneBehind(toB', n, r))
  <2>0. toB'[n].type = "SenderLoopback"
    BY <1>1 DEF Asks
  <2>1. n \in 1 .. Len(toB') /\ Len(toB) \in Nat /\ Len(toB') \in Nat /\ Follows(toB, toB', {"Call", "SenderLoopback"})
    BY <1>1, SoundFacts, AliveNext DEF TypeOK
  <2> QED
    BY ONLY <2>0, <2>1, BehindFollows
<1>2. AsksLag(r, e)
  BY <1>1 DEF AsksLag
<1> QED
  BY <1>2, FlushedLag

\* An embargo has nothing to wait for when no call is on its way.
LEMMA BehindIdle ==
    ASSUME NEW t, NEW r, \A k \in Calls : k[1] = r => ~ CarriesCall(t, k),
           \A i \in 1 .. Len(t) : t[i].type = "Call" => t[i].call \in Calls
    PROVE  \A n : NoneBehind(t, n, r)
  BY DEF NoneBehind, CarriesCall

IdleFlushed == \A r, e \in Refs : Idle(r) => Flushed(r, e)

\* A reference without calls on their way has nothing to wait for.
LEMMA FlushedIdle == Sound => TypeOK /\ IdleFlushed
<1> SUFFICES ASSUME Sound, NEW r \in Refs, NEW e \in Refs, Idle(r) PROVE TypeOK /\ Flushed(r, e)
  BY SoundFacts DEF IdleFlushed
<1>1. \A i \in 1 .. Len(toA) : toA[i].type = "Call" => toA[i].call \in Calls
  BY SoundFacts, MessageAFields
<1>2. \A i \in 1 .. Len(toB) : toB[i].type = "Call" => toB[i].call \in Calls
  BY SoundFacts, MessageBFields
<1>3. \A n : NoneBehind(toA, n, r)
  BY <1>1, BehindIdle DEF Idle
<1>4. \A k \in Calls : k[1] = r => ~ CarriesCall(toB, k)
  BY DEF Idle, Arrived, Passing
<1>5. \A n : NoneBehind(toB, n, r)
  BY <1>2, <1>4, BehindIdle
<1> QED
  BY <1>3, <1>5, IdleHeads, SoundFacts DEF Flushed, Idle

\* After the step as well.
LEMMA FlushedIdleNext == Sound' => TypeOK' /\ IdleFlushed'
  BY FlushedIdle, PTL

-----------------------------------------------------------------------------
(* The calls of a reference in line, from those at their end to those that *)
(* wait for an embargo *)

AtStage(n, k) ==
    \/ n = 1 /\ Has(initiated, k)
    \/ n = 2 /\ CarriesCall(toA, k)
    \/ n = 3 /\ \E p \in Promises : Has(queued[p], k)
    \/ n = 4 /\ CarriesCall(toB, k)
    \/ n = 5 /\ \E c \in Refs : Has(gate[c].calls, k)
LineInv ==
    \A n, j \in 1 .. 5, k, l \in Calls : n < j /\ AtStage(n, k) /\ AtStage(j, l) => Less(k, l)
NumberInv == \A n \in 1 .. 5, k \in Calls : AtStage(n, k) => k[2] <= made
SortInv ==
    /\ Sorted(initiated) /\ SortedCalls(toA) /\ SortedCalls(toB)
    /\ \A p \in Promises : Sorted(queued[p])
    /\ \A c \in Refs : Sorted(gate[c].calls)
Order == LineInv /\ NumberInv /\ SortInv

\* The calls K of stage j go to stage i, past nothing that is ahead of them.
LEMMA LineMoves ==
    ASSUME LineInv, NumberInv, made' = made, NEW i \in 1 .. 5, NEW j \in 1 .. 5, i <= j, NEW K,
           \A k \in Calls : k \in K => AtStage(j, k),
           \A n \in 1 .. 5, k \in Calls : AtStage(n, k)' => AtStage(n, k) \/ (n = i /\ k \in K),
           \A n \in 1 .. 5, k \in Calls, l \in Calls : k \in K /\ i < n /\ n <= j /\ AtStage(n, l)' => Less(k, l)
    PROVE  LineInv' /\ NumberInv'
<1>1. NumberInv'
  BY DEF NumberInv
<1>2. ASSUME NEW n \in 1 .. 5, NEW m \in 1 .. 5, NEW k \in Calls, NEW l \in Calls, n < m, AtStage(n, k)', AtStage(m, l)'
      PROVE  Less(k, l)
  <2>1. CASE AtStage(n, k) /\ AtStage(m, l)
    BY <1>2, <2>1 DEF LineInv
  <2>2. CASE AtStage(n, k) /\ m = i /\ l \in K
    <3>1. AtStage(j, l) /\ n < j
      BY <1>2, <2>2
    <3> QED
      BY <2>2, <3>1 DEF LineInv
  <2>3. CASE n = i /\ k \in K
    <3>1. CASE m <= j
      BY <1>2, <2>3, <3>1
    <3>2. CASE ~ m <= j
      <4>1. AtStage(j, k) /\ j < m /\ m # i
        BY <1>2, <2>3, <3>2
      <4>2. AtStage(m, l)
        BY <1>2, <4>1
      <4> QED
        BY <4>1, <4>2 DEF LineInv
    <3> QED
      BY <3>1, <3>2
  <2> QED
    BY <1>2, <2>1, <2>2, <2>3
<1> QED
  BY <1>1, <1>2 DEF LineInv

\* No call moves.
LEMMA LineStays ==
    ASSUME LineInv, NumberInv, made' = made, \A n \in 1 .. 5, k \in Calls : AtStage(n, k)' => AtStage(n, k)
    PROVE  LineInv' /\ NumberInv'
  BY DEF LineInv, NumberInv

\* A call is made, behind all others through its reference.
LEMMA LineNew ==
    ASSUME LineInv, NumberInv, made \in Nat, made' = made + 1, NEW i \in 1 .. 5, NEW r,
           \A n \in 1 .. 5, k \in Calls : AtStage(n, k)' => AtStage(n, k) \/ (n = i /\ k[1] = r /\ k[2] = made + 1),
           \A n \in 1 .. 5, l \in Calls : i < n /\ AtStage(n, l) => l[1] # r
    PROVE  LineInv' /\ NumberInv'
<1> \A k \in Calls : k[2] \in Nat
  BY DEF Calls
<1>1. NumberInv'
  BY DEF NumberInv
<1>2. ASSUME NEW n \in 1 .. 5, NEW m \in 1 .. 5, NEW k \in Calls, NEW l \in Calls, n < m, AtStage(n, k)', AtStage(m, l)'
      PROVE  Less(k, l)
  <2>1. CASE AtStage(n, k) /\ AtStage(m, l)
    BY <1>2, <2>1 DEF LineInv
  <2>2. CASE AtStage(n, k) /\ m = i /\ l[1] = r /\ l[2] = made + 1
    BY <2>2 DEF NumberInv, Less
  <2>3. CASE n = i /\ k[1] = r
    <3>1. AtStage(m, l)
      BY <1>2, <2>3
    <3> QED
      BY <1>2, <2>3, <3>1 DEF Less
  <2> QED
    BY <1>2, <2>1, <2>2, <2>3
<1> QED
  BY <1>1, <1>2 DEF LineInv

\* The stages, read out.
LEMMA StageFacts ==
    ASSUME NEW k
    PROVE  /\ AtStage(1, k) <=> Has(initiated, k)
           /\ AtStage(2, k) <=> CarriesCall(toA, k)
           /\ AtStage(3, k) <=> \E p \in Promises : Has(queued[p], k)
           /\ AtStage(4, k) <=> CarriesCall(toB, k)
           /\ AtStage(5, k) <=> \E c \in Refs : Has(gate[c].calls, k)
           /\ AtStage(1, k)' <=> Has(initiated', k)
           /\ AtStage(2, k)' <=> CarriesCall(toA', k)
           /\ AtStage(3, k)' <=> \E p \in Promises : Has(queued'[p], k)
           /\ AtStage(4, k)' <=> CarriesCall(toB', k)
           /\ AtStage(5, k)' <=> \E c \in Refs : Has(gate'[c].calls, k)
           /\ 1 .. 5 = {1, 2, 3, 4, 5}
<1>1. 1 .. 5 = {1, 2, 3, 4, 5}
  OBVIOUS
<1>2. /\ AtStage(1, k) <=> Has(initiated, k)
      /\ AtStage(2, k) <=> CarriesCall(toA, k)
      /\ AtStage(3, k) <=> \E p \in Promises : Has(queued[p], k)
      /\ AtStage(4, k) <=> CarriesCall(toB, k)
      /\ AtStage(5, k) <=> \E c \in Refs : Has(gate[c].calls, k)
  BY DEF AtStage
<1>3. /\ AtStage(1, k)' <=> Has(initiated', k)
      /\ AtStage(2, k)' <=> CarriesCall(toA', k)
      /\ AtStage(3, k)' <=> \E p \in Promises : Has(queued'[p], k)
      /\ AtStage(4, k)' <=> CarriesCall(toB', k)
      /\ AtStage(5, k)' <=> \E c \in Refs : Has(gate'[c].calls, k)
  BY DEF AtStage
<1> QED
  BY <1>1, <1>2, <1>3

\* A step that moves no call, or drops some, leaves the others in line.
LEMMA OrderFewer ==
    ASSUME TypeOK, TypeOK', Order, Fewer, UNCHANGED <<initiated, made>>,
           Follows(toA, toA', {"Call"}), Follows(toB, toB', {"Call"}),
           \A c \in Refs : Sorted(gate[c].calls) => Sorted(gate'[c].calls)
    PROVE  Order'
<1>1. Len(toA) \in Nat /\ Len(toA') \in Nat /\ Len(toB) \in Nat /\ Len(toB') \in Nat
  BY DEF TypeOK
<1>2. SortedCalls(toA') /\ SortedCalls(toB')
  BY <1>1, FollowsCalls DEF Order, SortInv
<1>3. SortInv'
  BY <1>2 DEF Order, SortInv, Fewer
<1>4. ASSUME NEW n \in 1 .. 5, NEW k \in Calls, AtStage(n, k)' PROVE AtStage(n, k)
  <2>1. n \in {1, 2, 3, 4, 5}
    OBVIOUS
  <2> QED
    BY <1>4, <2>1, StageFacts DEF Fewer
<1>5. LineInv' /\ NumberInv'
  BY <1>4, LineStays DEF Order
<1> QED
  BY <1>3, <1>5 DEF Order

-----------------------------------------------------------------------------
(* Steps that move no call *)

\* The exporter's channel to the importer is read, the other one extended by
\* something that is no call; the tables are kept in step.
Still == Fewer /\ Follows(toA, toA', {"Call"}) /\ Follows(toB, toB', {"Call"}) /\ UNCHANGED <<initiated, made>>

\* The steps of which both channels and the queues tell that they are such.
LEMMA StillFacts ==
    ASSUME TypeOK, TypeOK', Follows(toA, toA', {"Call"}), Follows(toB, toB', {"Call"}),
           UNCHANGED <<queued, initiated, made>>, \A c \in Refs : gate'[c].calls = gate[c].calls
    PROVE  Still /\ \A r : Onward(r)
<1>1. Len(toA) \in Nat /\ Len(toA') \in Nat /\ Len(toB) \in Nat /\ Len(toB') \in Nat
  BY DEF TypeOK
<1>2. Fewer
  BY <1>1, FollowsCalls DEF Fewer
<1> QED
  BY <1>2, FewerOnward DEF Still

Lined == Flow /\ Holders /\ FlushInv /\ Order

-----------------------------------------------------------------------------
(* The exporter *)

\* A step of the exporter that moves no call.
ExporterRests ==
    /\ UNCHANGED <<queued, initiated, made, importerVars>>
    /\ up'["A"] = up["A"] /\ (up'["B"] => up["B"] /\ Steady)
    /\ Follows(toB, toB', {"Call", "SenderLoopback"})
    /\ Follows(toA, toA', {"Call"})
    /\ \A r \in Refs : Unborn(r)' => Unborn(r)

\* It keeps all but the part about the Disembargos.
LEMMA ExporterStill ==
    ASSUME Sound, Sound', Lined, ExporterRests
    PROVE  Flow' /\ Holders' /\ Order' /\ \A r : Onward(r)
<1>1. UNCHANGED <<held, clients, imports, old, embargoes, gate>>
  BY DEF ExporterRests, importerVars
<1>2. TypeOK /\ TypeOK'
  BY SoundFacts, AliveNext
<1>3. Still /\ \A r : Onward(r)
  <2>1. Follows(toB, toB', {"Call"})
    BY FollowsFewer DEF ExporterRests
  <2> QED
    BY <1>1, <1>2, <2>1, StillFacts DEF ExporterRests
<1>4. Order'
  BY <1>1, <1>2, <1>3, OrderFewer DEF Still, Lined
<1>5. Kinder
  BY <1>1 DEF Kinder, Lined, Holders, GateInv
<1>6. Holders'
  BY <1>3, <1>5, HoldersFrame DEF Lined, ExporterRests
<1>7. ASSUME up'["A"], up'["B"], NEW r \in Refs, NEW id \in Ids, Current(r, id)'
      PROVE  Current(r, id) /\ exports[id] # None
  <2>1. up["A"] /\ up["B"] /\ Current(r, id)
    BY <1>1, <1>7 DEF Current, ExporterRests
  <2> QED
    BY <2>1, CurrentLive
<1>8. Flow'
  BY <1>3, <1>7, FlowFewer DEF Still, Lined, ExporterRests
<1> QED
  BY <1>3, <1>4, <1>6, <1>8

\* The calls through a client that waits for an embargo go on.
LEMMA FlushExporter ==
    ASSUME Sound, Sound', Lined, UNCHANGED importerVars, \A r : Onward(r),
           \A r \in Refs, e \in Refs : Flushed(r, e) => Flushed(r, e)'
    PROVE  FlushInv'
<1>1. UNCHANGED <<held, clients, imports, old, embargoes, gate>>
  BY DEF importerVars
<1>2. \A r, c \in Refs : Through(r, c)' => Through(r, c)
  BY <1>1 DEF Through, Waits
<1> QED
  BY <1>1, <1>2 DEF FlushInv, Lined

\* It leaves the calls their end.
LEMMA HeadsStill ==
    ASSUME Sound, Sound', ExporterRests, NEW r, NEW d, Heads(r, d)
    PROVE  Heads(r, d)'
<1>1. \A k : CarriesCall(toA', k) => CarriesCall(toA, k)
  <2>1. Len(toA) \in Nat /\ Len(toA') \in Nat
    BY SoundFacts, AliveNext DEF TypeOK
  <2> QED
    BY <2>1, FollowsCalls DEF ExporterRests
<1>2. \A k, id : CarriesTo(toB', k, id) => CarriesTo(toB, k, id)
  <2>1. Len(toB) \in Nat /\ Len(toB') \in Nat /\ Follows(toB, toB', {"Call"})
    BY SoundFacts, AliveNext, FollowsFewer DEF TypeOK, ExporterRests
  <2> QED
    BY <2>1, FollowsCalls
<1> QED
  BY <1>1, <1>2, HeadsStay DEF ExporterRests

\* Most neither take a Disembargo nor answer one.
LEMMA ExporterLined ==
    ASSUME Sound, Sound', Lined, ExporterRests, replies' \subseteq replies,
           Follows(toA, toA', {"Call", "ReceiverLoopback"})
    PROVE  Lined'
<1>1. Flow' /\ Holders' /\ Order' /\ \A r : Onward(r)
  BY ExporterStill
<1>2. ASSUME NEW r \in Refs, NEW e \in Refs, Flushed(r, e) PROVE Flushed(r, e)'
  <2>1. Heads(r, Peer) => Heads(r, Peer)'
    BY HeadsStill
  <2> QED
    BY <1>1, <1>2, <2>1, FlushedStays DEF ExporterRests
<1>3. FlushInv'
  BY <1>1, <1>2, FlushExporter DEF ExporterRests
<1> QED
  BY <1>1, <1>3 DEF Lined

\* A reference is still to come as long as it is not brought.
LEMMA UnbornFollows ==
    ASSUME gives' = gives, Follows(toA, toA', {"Cap"}), NEW r, Unborn(r)'
    PROVE  Unborn(r)
  BY DEF Unborn, Follows, Brings

\* A channel that is read, or extended by one message.
LEMMA ChannelMoves ==
    ASSUME NEW S, NEW t \in Seq(S), NEW t2, NEW T
    PROVE  /\ t2 = t \/ (t # <<>> /\ t2 = Tail(t)) => Follows(t, t2, T)
           /\ \A m \in S : t2 = Append(t, m) /\ m.type \notin T => Follows(t, t2, T)
<1>1. Len(t) \in Nat
  OBVIOUS
<1>2. ASSUME t # <<>>, t2 = Tail(t) PROVE Follows(t, t2, T)
  BY <1>1, <1>2, ShorterByTail, FollowsFacts
<1>3. ASSUME NEW m \in S, t2 = Append(t, m), m.type \notin T PROVE Follows(t, t2, T)
  BY <1>1, <1>3, LongerByAppend, FollowsFacts
<1> QED
  BY <1>1, <1>2, <1>3, FollowsFacts

\* The exporter loses the connection.
LEMMA DisconnectBLined ==
    ASSUME Sound, Sound', Lined, NEW what, NEW inbox, inbox = toB \/ (toB # <<>> /\ inbox = Tail(toB)),
           DisconnectB(what, inbox)
    PROVE  Lined'
<1>1. /\ UNCHANGED <<queued, initiated, made, importerVars, gives, replies>> /\ toB' = inbox
      /\ toA' = Append(toA, [type |-> "Abort"]) /\ up' = [up EXCEPT !["B"] = FALSE]
  BY DEF DisconnectB
<1>2. ~ up'["B"] /\ up'["A"] = up["A"]
  BY <1>1, SoundFacts, ConstantFacts DEF TypeOK
<1>3. Follows(toB, toB', {"Call", "SenderLoopback"})
  BY <1>1, SoundFacts, ChannelMoves
<1> DEFINE m == [type |-> "Abort"]
<1>4. m \in MessageA /\ m.type = "Abort" /\ toA' = Append(toA, m)
  BY <1>1, AMessages
<1> HIDE DEF m
<1>5. Follows(toA, toA', {"Call", "ReceiverLoopback"}) /\ Follows(toA, toA', {"Cap"}) /\ Follows(toA, toA', {"Call"})
  <2>1. \A T : m.type \notin T => Follows(toA, toA', T)
    BY <1>4, SoundFacts, ChannelMoves
  <2> QED
    BY <1>4, <2>1
<1>6. \A r \in Refs : Unborn(r)' => Unborn(r)
  BY <1>1, <1>5, UnbornFollows
<1>7. ExporterRests
  BY <1>1, <1>2, <1>3, <1>5, <1>6 DEF ExporterRests
<1> QED
  BY <1>1, <1>5, <1>7, ExporterLined

\* It reads a Release.
LEMMA HandleReleaseLined ==
    ASSUME Sound, Sound', Lined, up["B"], toB # <<>>, HandleRelease(Head(toB))
    PROVE  Lined'
<1> DEFINE m == Head(toB)
<1>1. CASE DisconnectB("invalid release", Tail(toB))
  BY <1>1, DisconnectBLined
<1>2. CASE ~ DisconnectB("invalid release", Tail(toB))
  <2>1. /\ m.id \in Ids /\ toB' = Tail(toB)
        /\ UNCHANGED <<up, fault, toA, res, queued, replies, gives, importerVars, made, initiated>>
        /\ exports'[m.id] # None => exports'[m.id].cap = exports[m.id].cap
        /\ \A id \in Ids : id # m.id => exports'[id] = exports[id]
    BY <1>2, SoundFacts, HandleReleaseTables
  <2>2. Steady
    BY <2>1 DEF Steady, Target, Ends
  <2>3. Follows(toB, toB', {"Call", "SenderLoopback"})
    BY <2>1, SoundFacts, ChannelMoves
  <2>4. \A T : Follows(toA, toA', T)
    BY <2>1, SoundFacts, ChannelMoves
  <2>5. ExporterRests
    BY <2>1, <2>2, <2>3, <2>4, UnbornFollows DEF ExporterRests
  <2> QED
    BY <2>1, <2>4, <2>5, ExporterLined
<1> QED
  BY <1>1, <1>2

\* A spawned task ends, or resolves an export of its promise's.
LEMMA TaskLined ==
    ASSUME Sound, Sound', Lined, NEW t \in tasks, ResolveTask(t), ~ StrayRedirect
    PROVE  Lined'
<1> USE DEF importerVars
<1>1. SUFFICES ASSUME UNCHANGED <<queued, initiated, made, importerVars, up, toB, gives, replies>>, Steady,
                      NEW m \in MessageA, m.type = "Resolve", toA' = toA \/ toA' = Append(toA, m)
               PROVE  Lined'
  <2>1. CASE DropTask(t) \/ SendException(t) \/ EntryNotFound(t)
    <3>1. /\ t.id \in Ids /\ UNCHANGED <<queued, initiated, made, importerVars, up, toB, gives, replies, exports, res>>
          /\ toA' = toA \/ toA' = Append(toA, [type |-> "Resolve", id |-> t.id, desc |-> None])
      BY <2>1, SoundFacts, TaskEndTables
    <3>2. Steady
      BY <3>1 DEF Steady, Target, Ends
    <3> DEFINE x == [type |-> "Resolve", id |-> t.id, desc |-> None]
    <3>3. x \in MessageA /\ x.type = "Resolve" /\ (toA' = toA \/ toA' = Append(toA, x))
      BY <3>1, AMessages
    <3> HIDE DEF x
    <3> QED
      BY <1>1, <3>1, <3>2, <3>3
  <2>2. t \in Task
    BY SoundFacts DEF TypeOK
  <2>3. t.id \in Ids /\ t.on \in Caps
    BY <2>2, ConstantFacts DEF Task
  <2>4. ASSUME ReuseEntry(t) \/ SendResolve(t)
        PROVE  exports[t.id] # None /\ Target(t.id) = Ends[t.on] /\ Ends[Ends[t.on]] = Ends[t.on] /\ Ends' = Ends
               /\ UNCHANGED <<queued, initiated, made, importerVars, up, toB, gives, replies>>
    <3>1. exports[t.id] # None /\ UNCHANGED <<res, queued, initiated, made, importerVars, up, toB, gives, replies>>
      BY <2>4 DEF ReuseEntry, SendResolve
    <3>2. Resolved(exports[t.id].cap) = Resolved(t.on)
      BY <2>4 DEF StrayRedirect
    <3> QED
      BY <2>3, <3>1, <3>2, TargetType DEF Target, Ends
  <2>5. CASE ReuseEntry(t)
    <3>1. \A id \in Ids : exports[id] # None => exports'[id].cap = IF id = t.id THEN Ends[t.on] ELSE exports[id].cap
      BY <2>5, SoundFacts, ReuseEntryTables
    <3>2. Steady
      BY <2>4, <2>5, <3>1 DEF Steady, Target
    <3>3. PICK x \in MessageA : x.type = "Resolve"
      <4> DEFINE y == [type |-> "Resolve", id |-> t.id, desc |-> None]
      <4>1. y \in MessageA /\ y.type = "Resolve"
        BY <2>3, AMessages
      <4> HIDE DEF y
      <4> QED
        BY <4>1
    <3>4. toA' = toA
      BY <2>5 DEF ReuseEntry
    <3> QED
      BY <1>1, <2>4, <2>5, <3>2, <3>3, <3>4
  <2>6. CASE SendResolve(t)
    <3>1. PICK d \in Desc : /\ toA' = Append(toA, [type |-> "Resolve", id |-> t.id, desc |-> d])
                            /\ Adds(Redirected(t), exports', d, Ends[t.on])
      BY <2>6, SoundFacts, SendResolveTables
    <3>2. \A id \in Ids : /\ Redirected(t)[id] # None <=> exports[id] # None
                          /\ exports[id] # None => Redirected(t)[id].cap =
                                  IF id = t.id THEN Ends[t.on] ELSE exports[id].cap
      <4>1. res[t.on] # None /\ exports[t.id] # None
        BY <2>6 DEF SendResolve
      <4> QED
        BY <4>1, SoundFacts, RedirectedFacts
    <3>3. \A id \in Ids : exports[id] # None => exports'[id].cap = IF id = t.id THEN Ends[t.on] ELSE exports[id].cap
      BY <3>1, <3>2 DEF Adds
    <3>4. Steady
      BY <2>4, <2>6, <3>3 DEF Steady, Target
    <3> DEFINE x == [type |-> "Resolve", id |-> t.id, desc |-> d]
    <3>5. x \in MessageA /\ x.type = "Resolve" /\ toA' = Append(toA, x)
      BY <2>3, <3>1, AMessages
    <3> HIDE DEF x
    <3> QED
      BY <1>1, <2>4, <2>6, <3>4, <3>5
  <2> QED
    BY <2>1, <2>5, <2>6 DEF ResolveTask
<1>2. \A T : "Resolve" \notin T => Follows(toA, toA', T)
  BY <1>1, SoundFacts, ChannelMoves
<1>3. \A T : Follows(toB, toB', T)
  BY <1>1, SoundFacts, ChannelMoves
<1>4. ExporterRests
  BY <1>1, <1>2, <1>3, UnbornFollows DEF ExporterRests
<1> QED
  BY <1>1, <1>2, <1>4, ExporterLined

\* The application gives the importer a capability, under a new reference.
LEMMA GiveLined ==
    ASSUME Sound, Sound', Lined, NEW c \in Givable, Give(c)
    PROVE  Lined'
<1>1. UNCHANGED <<up, toB, res, queued, replies, importerVars, made, initiated>> /\ gives' = gives + 1 /\ gives + 1 \in Refs /\ gives \in Nat
  BY SoundFacts, ConstantFacts DEF Give, TypeOK, Refs
<1>2. PICK d \in Desc : /\ toA' = Append(toA, [type |-> "Cap", desc |-> d, ref |-> gives + 1])
                        /\ Adds(exports, exports', d, Ends[c])
  BY SoundFacts, GiveTables
<1> DEFINE m == [type |-> "Cap", desc |-> d, ref |-> gives + 1]
<1>3. m \in MessageA /\ m.type = "Cap" /\ m.ref = gives + 1 /\ toA' = Append(toA, m)
  BY <1>1, <1>2, AMessages
<1> HIDE DEF m
<1>4. Longer(toA, toA', m) /\ \A T : "Cap" \notin T => Follows(toA, toA', T)
  <2>1. Longer(toA, toA', m)
    BY <1>3, SoundFacts, LongerByAppend
  <2>2. \A T : m.type \notin T => Follows(toA, toA', T)
    BY <1>3, SoundFacts, ChannelMoves
  <2> QED
    BY <1>3, <2>1, <2>2
<1>5. Steady
  BY <1>1, <1>2 DEF Adds, Steady, Target, Ends
<1>6. \A T : Follows(toB, toB', T)
  BY <1>1, SoundFacts, ChannelMoves
<1>7. ASSUME NEW r \in Refs, Unborn(r)' PROVE Unborn(r)
  <2>1. CASE r > gives'
    BY <1>1, <2>1, ConstantFacts DEF Unborn
  <2>2. CASE \E i \in 1 .. Len(toA') : Brings(toA'[i], r)
    <3>1. PICK i \in 1 .. Len(toA') : Brings(toA'[i], r)
      BY <2>2
    <3>2. (i \in 1 .. Len(toA) /\ toA'[i] = toA[i]) \/ toA'[i] = m
      BY <1>4 DEF Longer
    <3>3. CASE toA'[i] = m
      BY <1>1, <1>3, <3>1, <3>3, ConstantFacts DEF Unborn, Brings
    <3> QED
      BY <3>1, <3>2, <3>3 DEF Unborn
  <2> QED
    BY <1>7, <2>1, <2>2 DEF Unborn
<1>8. ExporterRests
  BY <1>1, <1>4, <1>5, <1>6, <1>7 DEF ExporterRests
<1> QED
  BY <1>1, <1>4, <1>8, ExporterLined

\* It takes a Disembargo, when the calls made before it have passed.
LEMMA HandleSenderLoopbackLined ==
    ASSUME Sound, Sound', Lined, up["B"], toB # <<>>, HandleSenderLoopback(Head(toB))
    PROVE  Lined'
<1> DEFINE m == Head(toB)
<1>1. CASE ~ exports[m.id] # None \/ ~ Resolved(exports[m.id].cap) = Peer
  BY <1>1, DisconnectBLined DEF HandleSenderLoopback
<1>2. CASE exports[m.id] # None /\ Resolved(exports[m.id].cap) = Peer
  <2>1. /\ toB' = Tail(toB) /\ replies' = replies \cup {m.embargo} /\ m.type = "SenderLoopback"
        /\ UNCHANGED <<up, toA, fault, res, queued, exports, byCap, tasks, gives, importerVars, made, initiated>>
    BY <1>2 DEF HandleSenderLoopback
  <2>2. Steady
    BY <2>1 DEF Steady, Target, Ends
  <2>3. Follows(toB, toB', {"Call", "SenderLoopback"}) /\ Shorter(toB, toB', m)
    BY <2>1, SoundFacts, ChannelMoves, ShorterByTail
  <2>4. \A T : Follows(toA, toA', T)
    BY <2>1, SoundFacts, ChannelMoves
  <2>5. ExporterRests
    BY <2>1, <2>2, <2>3, <2>4, UnbornFollows DEF ExporterRests
  <2>6. Flow' /\ Holders' /\ Order' /\ \A r : Onward(r)
    BY <2>5, ExporterStill
  <2>7. ASSUME NEW r \in Refs, NEW e \in Refs, Flushed(r, e), m.embargo = e PROVE Arrived(r)
    <3>1. 1 \in 1 .. Len(toB) /\ toB[1] = m /\ Len(toB) \in Nat
      BY <2>3, SoundFacts DEF Shorter
    <3>2. Heads(r, Peer) /\ NoneBehind(toB, 1, r)
      BY <2>1, <2>7, <3>1 DEF Flushed, Asks
    <3>3. ASSUME NEW k \in Calls, k[1] = r, CarriesCall(toB, k) PROVE FALSE
      <4>1. PICK i \in 1 .. Len(toB) : toB[i].type = "Call" /\ toB[i].call = k
        BY <3>3 DEF CarriesCall
      <4>2. i # 1
        BY <2>1, <3>1, <4>1
      <4> QED
        BY <3>1, <3>2, <3>3, <4>1, <4>2 DEF NoneBehind
    <3>4. ASSUME NEW k \in Calls, k[1] = r, NEW p \in Promises, Has(queued[p], k) PROVE FALSE
      BY <3>2, <3>4, CapsAssumption DEF Heads
    <3> QED
      BY <3>3, <3>4 DEF Arrived, Passing
  <2>8. ASSUME NEW r \in Refs, NEW e \in Refs, Flushed(r, e) PROVE Flushed(r, e)'
    <3>1. Heads(r, Peer) => Heads(r, Peer)'
      BY <2>5, HeadsStill
    <3>2. CASE m.embargo # e
      <4>1. e \in replies' => e \in replies
        BY <2>1, <3>2
      <4> QED
        BY <2>1, <2>3, <2>4, <2>6, <2>8, <3>1, <4>1, FlushedStays
    <3>3. CASE m.embargo = e
      <4>1. Arrived(r)'
        BY <2>6, <2>7, <2>8, <3>3, OnwardFacts
      <4>2. ASSUME NEW n \in 1 .. Len(toA'), Answers(toA'[n], e) PROVE NoneBehind(toA', n, r)
        BY <2>1, <2>8, <4>2 DEF Flushed
      <4>3. ASSUME up'["B"], NEW n \in 1 .. Len(toB'), Asks(toB'[n], e) PROVE Heads(r, Peer)' /\ NoneBehind(toB', n, r)
        <5>1. Len(toB) \in Nat /\ Len(toB') \in Nat /\ toB'[n].type = "SenderLoopback"
          BY <4>3, SoundFacts, AliveNext DEF TypeOK, Asks
        <5>2. PICK j \in 1 .. Len(toB) : toB[j] = toB'[n] /\ (NoneBehind(toB, j, r) => NoneBehind(toB', n, r))
          BY <2>3, <5>1, BehindFollows
        <5> QED
          BY <2>1, <2>8, <3>1, <4>3, <5>2 DEF Flushed
      <4> QED
        BY <4>1, <4>2, <4>3 DEF Flushed
    <3> QED
      BY <3>2, <3>3
  <2>9. FlushInv'
    BY <2>1, <2>6, <2>8, FlushExporter
  <2> QED
    BY <2>6, <2>9 DEF Lined
<1> QED
  BY <1>1, <1>2

\* It answers one, behind the calls that have passed.
LEMMA ReplyLined ==
    ASSUME Sound, Sound', Lined, NEW x, Reply(x)
    PROVE  Lined'
<1>1. /\ x \in Refs /\ x \in replies /\ replies' = replies \ {x}
      /\ UNCHANGED <<up, toB, fault, res, queued, exports, byCap, tasks, gives, importerVars, made, initiated>>
      /\ toA' = toA \/ toA' = Append(toA, [type |-> "ReceiverLoopback", embargo |-> x])
  BY SoundFacts DEF Reply, TypeOK
<1> DEFINE m == [type |-> "ReceiverLoopback", embargo |-> x]
<1>2. m \in MessageA /\ m.type = "ReceiverLoopback" /\ m.embargo = x /\ (toA' = toA \/ toA' = Append(toA, m))
  BY <1>1, AMessages
<1> HIDE DEF m
<1>3. \A T : "ReceiverLoopback" \notin T => Follows(toA, toA', T)
  BY <1>2, SoundFacts, ChannelMoves
<1>4. \A T : Follows(toB, toB', T)
  BY <1>1, SoundFacts, ChannelMoves
<1>5. Steady
  BY <1>1 DEF Steady, Target, Ends
<1>6. ExporterRests
  BY <1>1, <1>3, <1>4, <1>5, UnbornFollows DEF ExporterRests
<1>7. Flow' /\ Holders' /\ Order' /\ \A r : Onward(r)
  BY <1>6, ExporterStill
<1>8. ASSUME NEW r \in Refs, NEW e \in Refs, Flushed(r, e) PROVE Flushed(r, e)'
  <2>1. Heads(r, Peer) => Heads(r, Peer)'
    BY <1>6, HeadsStill
  <2>2. e \in replies' => e \in replies
    BY <1>1
  <2>3. CASE Follows(toA, toA', {"Call", "ReceiverLoopback"})
    BY <1>1, <1>4, <1>7, <1>8, <2>1, <2>2, <2>3, FlushedStays
  <2>4. CASE Longer(toA, toA', m)
    <3>1. Arrived(r) => Arrived(r)'
      BY <1>7, OnwardFacts
    <3>2. ASSUME NEW n \in 1 .. Len(toA'), Answers(toA'[n], e) PROVE Arrived(r)' /\ NoneBehind(toA', n, r)
      <4>1. Len(toA) \in Nat /\ Len(toA') = Len(toA) + 1 /\ toA'[Len(toA) + 1] = m
            /\ \A i \in 1 .. Len(toA) : toA'[i] = toA[i]
        BY <2>4 DEF Longer
      <4>2. CASE n = Len(toA) + 1
        <5>1. e \in replies
          BY <1>1, <1>2, <3>2, <4>1, <4>2 DEF Answers
        <5>2. NoneBehind(toA', n, r)
          BY <4>1, <4>2 DEF NoneBehind
        <5> QED
          BY <1>8, <3>1, <5>1, <5>2 DEF Flushed
      <4>3. CASE n \in 1 .. Len(toA)
        <5>1. toA[n] = toA'[n] /\ Arrived(r) /\ NoneBehind(toA, n, r)
          BY <1>8, <3>2, <4>1, <4>3 DEF Flushed
        <5>2. ASSUME NEW i \in 1 .. Len(toA'), n < i, toA'[i].type = "Call" PROVE toA'[i].call[1] # r
          <6>1. i \in 1 .. Len(toA) /\ toA'[i] = toA[i]
            BY <1>2, <4>1, <5>2
          <6> QED
            BY <5>1, <5>2, <6>1 DEF NoneBehind
        <5> QED
          BY <3>1, <5>1, <5>2 DEF NoneBehind
      <4> QED
        BY <4>1, <4>2, <4>3
    <3>3. ASSUME up'["B"], NEW n \in 1 .. Len(toB'), Asks(toB'[n], e) PROVE Heads(r, Peer)' /\ NoneBehind(toB', n, r)
      BY <1>1, <1>8, <2>1, <3>3 DEF Flushed
    <3>4. e \in replies' => Arrived(r)'
      BY <1>8, <2>2, <3>1 DEF Flushed
    <3> QED
      BY <3>2, <3>3, <3>4 DEF Flushed
  <2>5. toA' = toA \/ Longer(toA, toA', m)
    BY <1>2, SoundFacts, LongerByAppend
  <2>6. toA' = toA => Follows(toA, toA', {"Call", "ReceiverLoopback"})
    BY SoundFacts, FollowsFacts
  <2> QED
    BY <2>3, <2>4, <2>5, <2>6
<1>9. FlushInv'
  BY <1>1, <1>7, <1>8, FlushExporter
<1> QED
  BY <1>7, <1>9 DEF Lined

\* The calls join those that are at d, their end, or wait there.
Forwarded(q, calls, d) ==
    /\ \A k : CarriesCall(toA', k) => CarriesCall(toA, k) \/ (d = Peer /\ Has(calls, k))
    /\ \A p \in Promises : \A k : Has(queued'[p], k) => Has(q[p], k) \/ (p = d /\ Has(calls, k))
    /\ \A k : Has(initiated', k) => Has(initiated, k) \/ (d = Own /\ Has(calls, k))
    /\ SortedCalls(toA) /\ (d = Peer => \A k, l : CarriesCall(toA, k) /\ Has(calls, l) => Less(k, l))
         => SortedCalls(toA')
    /\ (\A p \in Promises : Sorted(q[p])) /\ (d \in Promises => \A k, l : Has(q[d], k) /\ Has(calls, l) => Less(k, l))
         => \A p \in Promises : Sorted(queued'[p])
    /\ Sorted(initiated) /\ (d = Own => \A k, l : Has(initiated, k) /\ Has(calls, l) => Less(k, l))
         => Sorted(initiated')
    /\ toA' = toA \/ LongerBy(toA, toA', calls)

\* Calls forwarded to where c leads are added there, behind the others.
LEMMA ForwardCalls ==
    ASSUME Sound, NEW c \in Caps, NEW calls \in Seq(Calls), Sorted(calls),
           NEW q \in [Promises -> Seq(Calls)], Forward(c, calls, q), NEW d, d = Ends[c]
    PROVE  Forwarded(q, calls, d)
<1>1. /\ queued' = IF d \in Promises THEN [q EXCEPT ![d] = @ \o calls] ELSE q
      /\ toA' = IF d = Peer /\ up["B"] THEN toA \o Sends(calls) ELSE toA
      /\ initiated' = IF d = Own THEN initiated \o calls ELSE initiated
  BY SoundFacts, ForwardType DEF Tables
<1>3. /\ \A k : CarriesCall(toA', k) => CarriesCall(toA, k) \/ (d = Peer /\ Has(calls, k))
      /\ SortedCalls(toA) /\ (d = Peer => \A k, l : CarriesCall(toA, k) /\ Has(calls, l) => Less(k, l))
           => SortedCalls(toA')
      /\ (toA' = toA \/ LongerBy(toA, toA', calls))
  <2>1. CASE toA' = toA
    BY <2>1
  <2>2. CASE d = Peer /\ toA' = toA \o Sends(calls)
    <3>1. LongerBy(toA, toA', calls)
      BY <2>2, SoundFacts, CallsSent
    <3> QED
      BY ONLY <2>2, <3>1, LongerByCalls, Sorted(calls)
  <2> QED
    BY <1>1, <2>1, <2>2
<1>4. /\ \A k : Has(initiated', k) => Has(initiated, k) \/ (d = Own /\ Has(calls, k))
      /\ Sorted(initiated) /\ (d = Own => \A k, l : Has(initiated, k) /\ Has(calls, l) => Less(k, l))
           => Sorted(initiated')
  <2>1. CASE initiated' = initiated
    BY <2>1
  <2>2. CASE d = Own /\ initiated' = initiated \o calls
    <3>1. initiated \in Seq(Calls)
      BY SoundFacts DEF TypeOK
    <3>2. /\ \A k : Has(initiated', k) <=> Has(initiated, k) \/ Has(calls, k)
          /\ Sorted(initiated) /\ Sorted(calls) /\ (\A k, l : Has(initiated, k) /\ Has(calls, l) => Less(k, l)) => Sorted(initiated')
      BY <2>2, <3>1, CallSeqsJoined
    <3> QED
      BY ONLY <2>2, <3>2, Sorted(calls)
  <2> QED
    BY <1>1, <2>1, <2>2
<1>5. ASSUME NEW p \in Promises
      PROVE  /\ \A k : Has(queued'[p], k) => Has(q[p], k) \/ (p = d /\ Has(calls, k))
             /\ Sorted(q[p]) /\ (p = d => \A k, l : Has(q[d], k) /\ Has(calls, l) => Less(k, l)) => Sorted(queued'[p])
  <2>1. CASE queued'[p] = q[p]
    BY <2>1
  <2>2. CASE p = d /\ queued'[p] = q[p] \o calls
    <3>1. q[p] \in Seq(Calls)
      OBVIOUS
    <3>2. /\ \A k : Has(queued'[p], k) <=> Has(q[p], k) \/ Has(calls, k)
          /\ Sorted(q[p]) /\ Sorted(calls) /\ (\A k, l : Has(q[p], k) /\ Has(calls, l) => Less(k, l)) => Sorted(queued'[p])
      BY <2>2, <3>1, CallSeqsJoined
    <3> QED
      BY ONLY <2>2, <3>2, Sorted(calls)
  <2>3. queued'[p] = IF p = d THEN q[p] \o calls ELSE q[p]
    BY <1>1
  <2> QED
    BY <2>1, <2>2, <2>3
<1> QED
  BY <1>3, <1>4, <1>5 DEF Forwarded

\* What is common to the two ways in which the exporter forwards calls.
LEMMA ForwardLined ==
    ASSUME Sound, Sound', Lined, UNCHANGED <<up, gives, replies, importerVars>>,
           NEW calls, toA' = toA \/ LongerBy(toA, toA', calls), \A k : Has(calls, k) => Passing(k) /\ k \in Calls,
           toB' = toB \/ (toB # <<>> /\ toB' = Tail(toB)),
           \A r : Onward(r),
           NEW f, f[Peer] = Peer, \A d \in Caps : f[d] \in Caps,
           up["B"] => \A id \in Ids : exports[id] # None /\ exports'[id] # None => Target(id)' = f[Target(id)],
           \A r \in Refs, d \in Caps : Heads(r, d) => Heads(r, f[d])',
           Order'
    PROVE  Lined'
<1>1. UNCHANGED <<held, clients, imports, old, embargoes, gate>>
  BY DEF importerVars
<1>2. FlowInv'
  BY DEF Lined, Flow, FlowInv
<1>3. ASSUME up'["A"], up'["B"], NEW r \in Refs, NEW id \in Ids, Current(r, id)' PROVE Heads(r, Target(id))'
  <2>1. exports'[id] # None
    BY <1>3, AliveNext DEF CurrentAlive
  <2>2. up["A"] /\ up["B"] /\ Current(r, id)
    BY <1>1, <1>3 DEF Current
  <2>3. exports[id] # None /\ Target(id) \in Caps /\ Heads(r, Target(id))
    BY <2>2, CurrentLive DEF Lined, Flow, CurrentInv
  <2> DEFINE d == Target(id)
  <2>4. Target(id)' = f[d]
    BY <2>1, <2>2, <2>3
  <2>5. PICK x \in Caps : x = d
    BY <2>3
  <2>6. Heads(r, x) /\ Target(id)' = f[x]
    BY <2>3, <2>4, <2>5
  <2> HIDE DEF d
  <2>7. PICK y \in {f[x]} : y = f[x]
    OBVIOUS
  <2>8. Heads(r, y)' /\ Target(id)' = y
    BY <2>6, <2>7
  <2> QED
    BY <2>8
<1>4. Flow'
  BY <1>2, <1>3 DEF Flow, CurrentInv
<1>5. Kinder
  BY <1>1 DEF Kinder, Lined, Holders, GateInv
<1>6. \A r \in Refs : Unborn(r)' => Unborn(r)
  <2>1. Follows(toA, toA', {"Cap"})
    BY SoundFacts, FollowsFacts
  <2> QED
    BY <2>1, UnbornFollows
<1>7. Holders'
  BY <1>5, <1>6, HoldersFrame DEF Lined
<1>8. ASSUME NEW r \in Refs, NEW e \in Refs, Flushed(r, e) PROVE Flushed(r, e)'
  <2>1. Heads(r, Peer) => Heads(r, Peer)'
    BY ConstantFacts
  <2>2. Follows(toB, toB', {"Call", "SenderLoopback"})
    BY SoundFacts, ChannelMoves
  <2>3. \/ Follows(toA, toA', {"Call", "ReceiverLoopback"})
        \/ LongerBy(toA, toA', calls) /\ (Arrived(r) => \A k : Has(calls, k) => k[1] # r)
    BY SoundFacts, FollowsFacts DEF Arrived
  <2> QED
    BY <1>8, <2>1, <2>2, <2>3, FlushedStays
<1>9. FlushInv'
  BY <1>8, FlushExporter
<1> QED
  BY <1>4, <1>7, <1>9 DEF Lined

\* The call it reads goes to the end of the calls made before it.
LEMMA HandleCallLined ==
    ASSUME Sound, Sound', Lined, up["B"], toB # <<>>, HandleCall(Head(toB))
    PROVE  Lined'
<1> DEFINE m == Head(toB)
<1>1. m.type = "Call" /\ m \in MessageB /\ Shorter(toB, Tail(toB), m)
  BY SoundFacts, HeadB, ShorterByTail DEF HandleCall
<1>2. m.id \in Ids /\ m.call \in Calls
  BY <1>1, MessageBFields
<1>3. CASE exports[m.id] = None
  BY <1>3, DisconnectBLined DEF HandleCall
<1>4. CASE exports[m.id] # None
  <2>1. /\ toB' = Tail(toB) /\ Forward(exports[m.id].cap, <<m.call>>, queued)
        /\ UNCHANGED <<up, fault, res, exports, byCap, tasks, replies, gives, importerVars, made>>
    BY <1>4 DEF HandleCall
  <2>2. exports[m.id].cap \in Caps
    BY <1>2, <1>4, TargetType
  <2>3. PICK k \in Calls : k = m.call
    BY <1>2
  <2>4. PICK calls \in Seq(Calls) : calls = <<k>>
    <3>1. <<k>> \in Seq(Calls)
      BY <2>3
    <3> QED
      BY <3>1
  <2>5. Sorted(calls) /\ \A l : Has(calls, l) <=> l = k
    BY <2>4, CallSeqs
  <2>6. PICK d \in Caps : d = Ends[exports[m.id].cap]
    BY <1>2, <1>4, TargetType DEF Target
  <2>7. queued \in [Promises -> Seq(Calls)]
    BY SoundFacts DEF TypeOK
  <2>8. /\ \A l : CarriesCall(toA', l) => CarriesCall(toA, l) \/ (d = Peer /\ l = k)
        /\ \A p \in Promises : \A l : Has(queued'[p], l) => Has(queued[p], l) \/ (p = d /\ l = k)
        /\ \A l : Has(initiated', l) => Has(initiated, l) \/ (d = Own /\ l = k)
        /\ SortedCalls(toA) /\ (d = Peer => \A l : CarriesCall(toA, l) => Less(l, k))
                => SortedCalls(toA')
        /\ (\A p \in Promises : Sorted(queued[p])) /\ (d \in Promises => \A l : Has(queued[d], l) => Less(l, k))
                => \A p \in Promises : Sorted(queued'[p])
        /\ Sorted(initiated) /\ (d = Own => \A l : Has(initiated, l) => Less(l, k)) => Sorted(initiated')
        /\ (toA' = toA \/ LongerBy(toA, toA', calls))
    <3>1. Forward(exports[m.id].cap, calls, queued)
      BY <2>1, <2>3, <2>4
    <3>2. Forwarded(queued, calls, d)
      BY <2>2, <2>5, <2>6, <2>7, <3>1, ForwardCalls
    <3>3. \A l : Has(calls, l) <=> l = k
      BY <2>5
    <3> QED
      BY ONLY <3>2, <3>3 DEF Forwarded
  <2>9. /\ \A l : CarriesCall(toB', l) => CarriesCall(toB, l)
        /\ \A l, id : CarriesTo(toB', l, id) => CarriesTo(toB, l, id)
        /\ SortedCalls(toB) => SortedCalls(toB')
        /\ CarriesCall(toB, k) /\ CarriesTo(toB, k, m.id)
        /\ SortedCalls(toB) => \A l : CarriesCall(toB', l) => Less(k, l)
    BY <1>1, <2>1, <2>3, ShorterCalls
  <2>10. ASSUME NEW r \in Refs, NEW x \in Caps, Heads(r, x), k[1] = r PROVE x = d
    BY <1>2, <2>6, <2>9, <2>10 DEF Heads, Target
  <2>11. k[1] \in Refs
    BY DEF Calls
  <2>12. PICK x \in Caps : Heads(k[1], x)
    BY <2>11 DEF Lined, Flow, FlowInv
  <2>13. ASSUME NEW l \in Calls, l[1] = k[1]
         PROVE  (CarriesCall(toA, l) => d = Peer) /\ \A p \in Promises : Has(queued[p], l) => p = d
    BY <2>10, <2>11, <2>12, <2>13 DEF Heads
  <2>14. gate' = gate
    BY <2>1 DEF importerVars
  <2>15. \A r : Onward(r)
    BY <2>8, <2>9, <2>14 DEF Onward, Passing
  <2>16. ASSUME NEW r \in Refs, NEW y \in Caps, Heads(r, y) PROVE Heads(r, y)'
    <3>0. k[1] = r => y = d
      BY <2>10, <2>16
    <3>1. ASSUME NEW l \in Calls, l[1] = r, CarriesCall(toA', l) PROVE y = Peer
      <4>1. CarriesCall(toA, l) \/ (d = Peer /\ l = k)
        BY <2>8, <3>1
      <4> QED
        BY <2>16, <3>0, <3>1, <4>1 DEF Heads
    <3>2. ASSUME NEW l \in Calls, NEW p \in Promises, l[1] = r, Has(queued'[p], l) PROVE p = y
      <4>1. Has(queued[p], l) \/ (p = d /\ l = k)
        BY <2>8, <3>2
      <4> QED
        BY <2>16, <3>0, <3>2, <4>1 DEF Heads
    <3>3. \A id \in Ids : Target(id)' = Target(id)
      BY <2>1 DEF Target, Ends
    <3> QED
      BY <2>1, <2>9, <2>16, <3>1, <3>2, <3>3, HeadsMove
  <2>17. Order'
    <3>1. \A l \in Calls : CarriesCall(toA, l) => Less(l, k)
      BY <2>9, StageFacts DEF Lined, Order, LineInv
    <3>2. \A p \in Promises, l \in Calls : Has(queued[p], l) => Less(l, k)
      BY <2>9, StageFacts DEF Lined, Order, LineInv
    <3>3. \A l \in Calls : Has(initiated, l) => Less(l, k)
      BY <2>9, StageFacts DEF Lined, Order, LineInv
    <3>4. /\ \A l : CarriesCall(toA, l) => l \in Calls
          /\ \A l : Has(initiated, l) => l \in Calls
          /\ \A p \in Promises : \A l : Has(queued[p], l) => l \in Calls
      <4>1. \A l : CarriesCall(toA, l) => l \in Calls
        BY SoundFacts, MessageAFields DEF CarriesCall
      <4>2. initiated \in Seq(Calls)
        BY SoundFacts DEF TypeOK
      <4> QED
        BY <2>7, <4>1, <4>2, CallSeqs
    <3>5. SortInv'
      BY <2>8, <2>9, <2>14, <3>1, <3>2, <3>3, <3>4 DEF Lined, Order, SortInv
    <3>6. ASSUME NEW i \in 1 .. 5, i <= 4,
                 i # 3 => d \notin Promises, i = 1 => d # Peer,
                 \A n \in 1 .. 5, l \in Calls : AtStage(n, l)' => AtStage(n, l) \/ (n = i /\ l \in {k})
          PROVE  LineInv' /\ NumberInv'
      <4>1. AtStage(4, k)
        BY <2>9, StageFacts
      <4>2. ASSUME NEW n \in 1 .. 5, NEW l \in Calls, i < n, n <= 4, AtStage(n, l)' PROVE Less(k, l)
        <5>1. CASE n = 4
          BY <2>9, <4>2, <5>1, StageFacts DEF Lined, Order, SortInv
        <5>2. CASE n = 3
          <6>1. i # 3 /\ AtStage(3, l)
            BY <3>6, <4>2, <5>2
          <6> QED
            BY <2>13, <3>6, <6>1, StageFacts DEF Less
        <5>3. CASE n = 2
          <6>1. i = 1 /\ AtStage(2, l)
            BY <3>6, <4>2, <5>3
          <6> QED
            BY <2>13, <3>6, <6>1, StageFacts DEF Less
        <5> QED
          BY <4>2, <5>1, <5>2, <5>3
      <4>3. LineInv /\ NumberInv /\ made' = made /\ 4 \in 1 .. 5
        BY <2>1 DEF Lined, Order
      <4> DEFINE K == {k}
      <4>4. \A x1 \in Calls : x1 \in K => AtStage(4, x1)
        BY <4>1
      <4>6. \A n \in 1 .. 5, x1 \in Calls, l \in Calls : x1 \in K /\ i < n /\ n <= 4 /\ AtStage(n, l)' => Less(x1, l)
        BY <4>2
      <4>5. \A n \in 1 .. 5, l \in Calls : AtStage(n, l)' => AtStage(n, l) \/ (n = i /\ l \in K)
        BY <3>6
      <4> HIDE DEF K
      <4> QED
        BY ONLY <3>6, <4>3, <4>4, <4>5, <4>6, LineMoves
    <3>7. \A l \in Calls : /\ AtStage(1, l)' => AtStage(1, l) \/ (d = Own /\ l \in {k})
                           /\ AtStage(2, l)' => AtStage(2, l) \/ (d = Peer /\ l \in {k})
                           /\ AtStage(3, l)' => AtStage(3, l) \/ (d \in Promises /\ l \in {k})
                           /\ AtStage(4, l)' => AtStage(4, l)
                           /\ AtStage(5, l)' => AtStage(5, l)
      BY <2>8, <2>9, <2>14, StageFacts
    <3>8. LineInv' /\ NumberInv'
      <4>0. \A n \in 1 .. 5 : n \in {1, 2, 3, 4, 5}
        OBVIOUS
      <4>1. CASE d \in Promises
        <5>1. \A n \in 1 .. 5, l \in Calls : AtStage(n, l)' => AtStage(n, l) \/ (n = 3 /\ l \in {k})
          BY <3>7, <4>0, <4>1, CapsAssumption
        <5> QED
          BY <3>6, <5>1
      <4>2. CASE d = Peer
        <5>1. \A n \in 1 .. 5, l \in Calls : AtStage(n, l)' => AtStage(n, l) \/ (n = 2 /\ l \in {k})
          BY <3>7, <4>0, <4>2, CapsAssumption
        <5> QED
          BY <3>6, <4>2, <5>1, CapsAssumption
      <4>3. CASE d \notin Promises /\ d # Peer
        <5>1. \A n \in 1 .. 5, l \in Calls : AtStage(n, l)' => AtStage(n, l) \/ (n = 1 /\ l \in {k})
          BY <3>7, <4>0, <4>3
        <5> QED
          BY <3>6, <4>3, <5>1
      <4> QED
        BY <4>1, <4>2, <4>3
    <3> QED
      BY <3>5, <3>8 DEF Order
  <2>18. \A l : Has(calls, l) => Passing(l) /\ l \in Calls
    BY <2>5, <2>9 DEF Passing
  <2> DEFINE f == [x1 \in Caps |-> x1]
  <2>19. f[Peer] = Peer /\ \A x1 \in Caps : f[x1] = x1
    BY ConstantFacts
  <2> HIDE DEF f
  <2>20. \A id \in Ids : exports[id] # None /\ exports'[id] # None => Target(id)' = f[Target(id)]
    <3>1. \A id \in Ids : Target(id)' = Target(id)
      BY <2>1 DEF Target, Ends
    <3> QED
      BY <2>19, <3>1, TargetType
  <2>21. \A r \in Refs, y \in Caps : Heads(r, y) => Heads(r, f[y])'
    <3>1. ASSUME NEW r \in Refs, NEW y \in Caps, Heads(r, y) PROVE Heads(r, f[y])'
      <4>1. Heads(r, y)' /\ f[y] = y
        BY <2>16, <2>19, <3>1
      <4> QED
        BY <4>1
    <3> QED
      BY <3>1
  <2> QED
    BY <2>1, <2>8, <2>15, <2>17, <2>18, <2>19, <2>20, <2>21, ForwardLined
<1> QED
  BY <1>3, <1>4

\* The calls that wait for a promise go where it was resolved to.
LEMMA ResolvePromiseLined ==
    ASSUME Sound, Sound', Lined, NEW p \in Promises, NEW c \in Caps, ResolvePromise(p, c)
    PROVE  Lined'
<1>1. /\ res[p] = None /\ c # p /\ Resolved(c) # p
      /\ Forward(c, queued[p], [queued EXCEPT ![p] = <<>>])
      /\ UNCHANGED <<up, toB, fault, exports, byCap, tasks, replies, gives, importerVars, made>>
  BY DEF ResolvePromise
<1>2. PICK calls \in Seq(Calls) : calls = queued[p]
  BY SoundFacts DEF TypeOK
<1>3. PICK q \in [Promises -> Seq(Calls)] :
        q = [queued EXCEPT ![p] = <<>>] /\ \A x \in Promises : (x = p => q[x] = <<>>) /\ (x # p => q[x] = queued[x])
  <2> DEFINE q0 == [queued EXCEPT ![p] = <<>>]
  <2>1. queued \in [Promises -> Seq(Calls)] /\ <<>> \in Seq(Calls)
    BY SoundFacts DEF TypeOK
  <2>2. q0 \in [Promises -> Seq(Calls)] /\ \A x \in Promises : (x = p => q0[x] = <<>>) /\ (x # p => q0[x] = queued[x])
    BY <2>1
  <2> HIDE DEF q0
  <2>3. PICK q1 \in [Promises -> Seq(Calls)] : q1 = q0
    BY <2>2
  <2> QED
    BY <2>2, <2>3 DEF q0
<1>4. PICK d \in Caps : d = Ends[c] /\ d # p
  BY <1>1, TargetType
<1>5. Sorted(calls)
  BY <1>2 DEF Lined, Order, SortInv
<1>6. Forwarded(q, calls, d)
  <2>1. Forward(c, calls, q)
    BY <1>1, <1>2, <1>3
  <2> QED
    BY <1>4, <1>5, <2>1, ForwardCalls
<1>7. /\ \A x \in Promises : \A k : Has(q[x], k) => x # p /\ Has(queued[x], k)
      /\ \A x \in Promises : Sorted(q[x])
  <2>1. ASSUME NEW x \in Promises PROVE (\A k : Has(q[x], k) => x # p /\ Has(queued[x], k)) /\ Sorted(q[x])
    <3>1. CASE x = p
      <4>1. q[x] = <<>> /\ Len(<<>>) = 0
        BY <1>3, <3>1
      <4> QED
        BY <4>1 DEF Has, Sorted
    <3>2. CASE x # p
      BY <1>3, <3>2 DEF Lined, Order, SortInv
    <3> QED
      BY <3>1, <3>2
  <2> QED
    BY <2>1
\* The calls of one reference that wait for p are all that are on their way.
<1>8. ASSUME NEW r \in Refs, NEW y \in Caps, Heads(r, y), NEW k \in Calls, k[1] = r, Has(calls, k) PROVE y = p
  BY <1>2, <1>8 DEF Heads
<1>9. ASSUME NEW k \in Calls, NEW l \in Calls, k[1] = l[1], Has(calls, k)
      PROVE  /\ ~ CarriesCall(toA, l)
             /\ \A x \in Promises : Has(queued[x], l) => x = p
  <2>1. k[1] \in Refs
    BY DEF Calls
  <2>2. PICK y \in Caps : Heads(k[1], y)
    BY <2>1 DEF Lined, Flow, FlowInv
  <2>3. y = p
    BY <1>8, <1>9, <2>1, <2>2
  <2> QED
    BY <1>9, <2>2, <2>3, CapsAssumption DEF Heads
<1>10. gate' = gate
  BY <1>1 DEF importerVars
<1>11. \A k : Has(calls, k) => Passing(k) /\ k \in Calls
  <2>1. \A k : Has(calls, k) => k \in Calls
    BY CallSeqs
  <2> QED
    BY <1>2, <2>1 DEF Passing
<1>12. ASSUME NEW r PROVE Onward(r)
  <2>1. ASSUME NEW k \in Calls
        PROVE  /\ Passing(k)' => Passing(k)
               /\ CarriesCall(toA', k) => CarriesCall(toA, k) \/ Passing(k)
    <3>1. ASSUME NEW x \in Promises, Has(queued'[x], k) PROVE Passing(k)
      <4>1. Has(q[x], k) \/ Has(calls, k)
        BY <1>6, <3>1 DEF Forwarded
      <4>2. ASSUME Has(q[x], k) PROVE Passing(k)
        BY <1>7, <4>2 DEF Passing
      <4> QED
        BY <1>11, <4>1, <4>2
    <3>2. Passing(k)' => Passing(k)
      BY <1>1, <3>1 DEF Passing
    <3>3. CarriesCall(toA', k) => CarriesCall(toA, k) \/ Passing(k)
      BY <1>6, <1>11 DEF Forwarded
    <3> QED
      BY <3>2, <3>3
  <2> QED
    BY <1>10, <2>1 DEF Onward
<1> DEFINE f == [x \in Caps |-> IF x = p THEN d ELSE x]
<1>13. f[Peer] = Peer /\ \A x \in Caps : f[x] \in Caps /\ (x = p => f[x] = d) /\ (x # p => f[x] = x)
  BY ConstantFacts, CapsAssumption
<1> HIDE DEF f
<1>14. \A id \in Ids : exports[id] # None /\ exports'[id] # None => Target(id)' = f[Target(id)]
  <2>1. \A x \in Caps : Ends'[x] = IF Ends[x] = p THEN Ends[c] ELSE Ends[x]
    BY SoundFacts, ResolvePromiseTables
  <2>2. \A x \in Caps : Ends'[x] = f[Ends[x]]
    BY <1>4, <1>13, <2>1, TargetType
  <2> QED
    BY <1>1, <2>2, TargetType DEF Target
<1>15. ASSUME NEW r \in Refs, NEW y \in Caps, Heads(r, y) PROVE Heads(r, f[y])'
  <2>1. PICK z \in Caps : z = f[y]
    BY <1>13
  <2>2. ASSUME NEW l \in Calls, l[1] = r, CarriesCall(toA', l) PROVE z = Peer
    <3>1. CarriesCall(toA, l) \/ (d = Peer /\ Has(calls, l))
      BY <1>6, <2>2 DEF Forwarded
    <3>2. CASE CarriesCall(toA, l)
      BY <1>13, <1>15, <2>1, <2>2, <3>2 DEF Heads
    <3>3. CASE d = Peer /\ Has(calls, l)
      BY <1>8, <1>13, <1>15, <2>1, <2>2, <3>3
    <3> QED
      BY <3>1, <3>2, <3>3
  <2>3. ASSUME NEW l \in Calls, NEW x \in Promises, l[1] = r, Has(queued'[x], l) PROVE x = z
    <3>1. Has(q[x], l) \/ (x = d /\ Has(calls, l))
      BY <1>6, <2>3 DEF Forwarded
    <3>2. CASE Has(q[x], l)
      <4>1. x # p /\ Has(queued[x], l)
        BY <1>7, <3>2
      <4>2. x = y
        BY <1>15, <2>3, <4>1 DEF Heads
      <4> QED
        BY <1>13, <2>1, <4>1, <4>2
    <3>3. CASE x = d /\ Has(calls, l)
      BY <1>8, <1>13, <1>15, <2>1, <2>3, <3>3
    <3> QED
      BY <3>1, <3>2, <3>3
  <2>4. \A id \in Ids : exports[id] # None /\ exports'[id] # None /\ Target(id) = y => Target(id)' = z
    BY <1>14, <2>1
  <2>5. Heads(r, z)'
    <3>1. /\ \A k \in Calls : k[1] = r /\ CarriesCall(toA', k) => z = Peer
          /\ \A k \in Calls, x \in Promises : k[1] = r /\ Has(queued'[x], k) => x = z
      BY <2>2, <2>3
    <3>2. toB' = toB /\ up' = up
      BY <1>1
    <3> QED
      BY <1>15, <2>4, <3>1, <3>2, HeadsMove
  <2> QED
    BY <2>1, <2>5
<1>16. SortInv'
  <2>1. \A k, l : CarriesCall(toA, k) /\ Has(calls, l) => Less(k, l)
    <3>1. \A k : CarriesCall(toA, k) => k \in Calls
      BY SoundFacts, MessageAFields DEF CarriesCall
    <3> QED
      BY <1>9, <1>11, <3>1 DEF Less
  <2>2. \A k, l : Has(initiated, k) /\ Has(calls, l) => Less(k, l)
    <3>1. \A k : Has(initiated, k) => k \in Calls
      BY SoundFacts, CallSeqs DEF TypeOK
    <3>2. \A k \in Calls, l \in Calls : Has(initiated, k) /\ Has(queued[p], l) => Less(k, l)
      BY StageFacts DEF Lined, Order, LineInv
    <3> QED
      BY <1>2, <1>11, <3>1, <3>2
  <2>3. d \in Promises => \A k, l : Has(q[d], k) /\ Has(calls, l) => Less(k, l)
    <3>1. ASSUME d \in Promises, NEW k, NEW l, Has(q[d], k), Has(calls, l) PROVE Less(k, l)
      <4>1. Has(queued[d], k) /\ l \in Calls
        BY <1>7, <1>11, <3>1
      <4>2. queued[d] \in Seq(Calls)
        BY <3>1, SoundFacts DEF TypeOK
      <4>3. k \in Calls
        BY <4>1, <4>2, CallSeqs
      <4>4. k[1] # l[1]
        BY <1>4, <1>9, <3>1, <4>1, <4>3
      <4> QED
        BY <4>4 DEF Less
    <3> QED
      BY <3>1
  <2>4. SortedCalls(toA) /\ Sorted(initiated) /\ SortedCalls(toB) /\ \A x \in Refs : Sorted(gate[x].calls)
    BY DEF Lined, Order, SortInv
  <2>5. SortedCalls(toA') /\ Sorted(initiated') /\ \A x \in Promises : Sorted(queued'[x])
    BY ONLY <1>6, <1>7, <2>1, <2>2, <2>3, <2>4 DEF Forwarded
  <2> QED
    BY <1>1, <1>10, <2>4, <2>5 DEF SortInv
<1>17. LineInv' /\ NumberInv'
  <2>1. LineInv /\ NumberInv /\ made' = made /\ 3 \in 1 .. 5 /\ \A n \in 1 .. 5 : n \in {1, 2, 3, 4, 5}
    BY <1>1 DEF Lined, Order
  <2>2. \A l : /\ AtStage(1, l)' => AtStage(1, l) \/ (d = Own /\ Has(calls, l))
               /\ AtStage(2, l)' => AtStage(2, l) \/ (d = Peer /\ Has(calls, l))
               /\ AtStage(3, l)' => AtStage(3, l)
               /\ AtStage(4, l)' => AtStage(4, l)
               /\ AtStage(5, l)' => AtStage(5, l)
    <3>1. ASSUME NEW l PROVE AtStage(3, l)' => AtStage(3, l)
      <4>1. ASSUME NEW x \in Promises, Has(queued'[x], l) PROVE \E y \in Promises : Has(queued[y], l)
        <5>1. Has(q[x], l) \/ Has(calls, l)
          BY <1>6, <4>1 DEF Forwarded
        <5> QED
          BY <1>2, <1>7, <5>1
      <4> QED
        BY <4>1, StageFacts
    <3>2. \A l : /\ AtStage(1, l)' => AtStage(1, l) \/ (d = Own /\ Has(calls, l))
                 /\ AtStage(2, l)' => AtStage(2, l) \/ (d = Peer /\ Has(calls, l))
      BY <1>6, StageFacts DEF Forwarded
    <3>3. \A l : /\ AtStage(4, l)' => AtStage(4, l)
                 /\ AtStage(5, l)' => AtStage(5, l)
      BY <1>1, <1>10, StageFacts
    <3> QED
      BY <3>1, <3>2, <3>3
  <2>3. CASE d # Own /\ d # Peer
    <3>1. \A n \in 1 .. 5, l \in Calls : AtStage(n, l)' => AtStage(n, l)
      BY <2>1, <2>2, <2>3
    <3> QED
      BY <2>1, <3>1, LineStays
  <2>4. ASSUME NEW i \in {1, 2}, d \notin Promises, i = 1 => d # Peer,
               \A n \in 1 .. 5, l \in Calls : AtStage(n, l)' => AtStage(n, l) \/ (n = i /\ Has(calls, l))
        PROVE  LineInv' /\ NumberInv'
    <3> DEFINE K == {l \in Calls : Has(calls, l)}
    <3>1. \A l \in Calls : l \in K <=> Has(calls, l)
      OBVIOUS
    <3> HIDE DEF K
    <3>2. \A k \in Calls : k \in K => AtStage(3, k)
      BY <1>2, <3>1, StageFacts
    <3>3. \A n \in 1 .. 5, k \in Calls : AtStage(n, k)' => AtStage(n, k) \/ (n = i /\ k \in K)
      BY <2>4, <3>1
    <3>4. ASSUME NEW n \in 1 .. 5, NEW k \in Calls, NEW l \in Calls, k \in K, i < n, n <= 3, AtStage(n, l)' PROVE Less(k, l)
      <4>1. Has(calls, k)
        BY <3>1, <3>4
      <4>2. CASE n = 3
        <5>1. PICK x \in Promises : Has(queued'[x], l)
          BY <3>4, <4>2, StageFacts
        <5>2. x # p /\ Has(queued[x], l)
          <6>1. Has(q[x], l)
            BY <1>6, <2>4, <5>1 DEF Forwarded
          <6> QED
            BY <1>7, <6>1
        <5>3. k[1] # l[1]
          BY <1>9, <4>1, <5>2
        <5> QED
          BY <5>3 DEF Less
      <4>3. CASE n = 2
        <5>1. CarriesCall(toA, l)
          BY <2>4, <3>4, <4>3, StageFacts
        <5>2. k[1] # l[1]
          BY <1>9, <4>1, <5>1
        <5> QED
          BY <5>2 DEF Less
      <4>4. n = 2 \/ n = 3
        BY <3>4
      <4> QED
        BY <4>2, <4>3, <4>4
    <3>5. i \in 1 .. 5 /\ i <= 3
      OBVIOUS
    <3>6. \A n \in 1 .. 5, k \in Calls, l \in Calls : k \in K /\ i < n /\ n <= 3 /\ AtStage(n, l)' => Less(k, l)
      BY <3>4
    <3> QED
      BY ONLY <2>1, <3>2, <3>3, <3>5, <3>6, LineMoves
  <2>5. CASE d = Own
    <3>1. \A n \in 1 .. 5, l \in Calls : AtStage(n, l)' => AtStage(n, l) \/ (n = 1 /\ Has(calls, l))
      BY <2>1, <2>2, <2>5, CapsAssumption
    <3> QED
      BY <2>4, <2>5, <3>1, CapsAssumption
  <2>6. CASE d = Peer
    <3>1. \A n \in 1 .. 5, l \in Calls : AtStage(n, l)' => AtStage(n, l) \/ (n = 2 /\ Has(calls, l))
      BY <2>1, <2>2, <2>6, CapsAssumption
    <3> QED
      BY <2>4, <2>6, <3>1, CapsAssumption
  <2> QED
    BY <2>3, <2>5, <2>6
<1>18. Order'
  BY <1>16, <1>17 DEF Order
<1>19. toA' = toA \/ LongerBy(toA, toA', calls)
  BY <1>6 DEF Forwarded
<1>20. \A x \in Caps : f[x] \in Caps
  BY <1>13
<1>21. \A r \in Refs, y \in Caps : Heads(r, y) => Heads(r, f[y])'
  BY <1>15
<1> QED
  BY <1>1, <1>11, <1>12, <1>13, <1>14, <1>18, <1>19, <1>20, <1>21, ForwardLined

-----------------------------------------------------------------------------
(* The importer *)

\* A step of the importer that makes no call and starts none; what a reference
\* stands for leads where it did.
ImporterRests ==
    /\ UNCHANGED <<exporterVars, made, initiated>>
    /\ (up'["A"] => up["A"]) /\ up'["B"] = up["B"]
    /\ \A c \in Refs : gate'[c].calls = gate[c].calls
    /\ \A T : Follows(toA, toA', T)
    /\ Follows(toB, toB', {"Call"})
    /\ up'["A"] /\ up'["B"] => \A r \in Refs, id \in Ids : Current(r, id)' =>
            Idle(r) \/ \E j \in Ids : Current(r, j) /\ Target(id) = Target(j) /\ exports[id] # None

\* It keeps the calls, their ends and their line.
LEMMA ImporterStill ==
    ASSUME Sound, Sound', Lined, ImporterRests
    PROVE  /\ Flow' /\ Order' /\ Steady /\ \A r : Onward(r)
           /\ \A r \in Refs : Unborn(r)' => Unborn(r)
           /\ \A r \in Refs, d \in Caps : Heads(r, d) => Heads(r, d)'
<1>1. UNCHANGED <<res, queued, exports, byCap, tasks, replies, gives>> /\ UNCHANGED <<made, initiated>>
  BY DEF ImporterRests, exporterVars
<1>2. TypeOK /\ TypeOK'
  BY SoundFacts, AliveNext
<1>3. Still /\ \A r : Onward(r)
  BY <1>1, <1>2, StillFacts DEF ImporterRests
<1>4. Order'
  BY <1>1, <1>2, <1>3, OrderFewer DEF Still, Lined, ImporterRests
<1>5. Steady
  BY <1>1 DEF Steady, Target, Ends
<1>6. Flow'
  BY <1>3, <1>5, FlowFewer DEF Still, Lined, ImporterRests
<1>7. \A r \in Refs : Unborn(r)' => Unborn(r)
  BY <1>1, UnbornFollows DEF ImporterRests
<1>8. \A r \in Refs, d \in Caps : Heads(r, d) => Heads(r, d)'
  BY <1>3, <1>5, HeadsStay DEF Still, Fewer, ImporterRests
<1> QED
  BY <1>3, <1>4, <1>5, <1>6, <1>7, <1>8

\* One that sends no Disembargo either.
LEMMA ImporterLined ==
    ASSUME Sound, Sound', Lined, ImporterRests, Kinder,
           Follows(toB, toB', {"Call", "SenderLoopback"}),
           \A e \in Refs : embargoes'[e] \in {None, embargoes[e]}
    PROVE  Lined'
<1>1. /\ Flow' /\ Order' /\ Steady /\ \A r : Onward(r)
      /\ \A r \in Refs : Unborn(r)' => Unborn(r)
      /\ \A r \in Refs, d \in Caps : Heads(r, d) => Heads(r, d)'
  BY ImporterStill
<1>2. Holders'
  BY <1>1, HoldersFrame DEF Lined
<1>3. FlushInv'
  <2> SUFFICES ASSUME NEW r \in Refs, NEW c \in Refs, NEW e \in Refs, Through(r, c)', embargoes'[e] = c PROVE Flushed(r, e)'
    BY DEF FlushInv
  <2>1. Through(r, c)
    BY <1>1, ThroughLess DEF Kinder
  <2>2. embargoes[e] = c
    BY ConstantFacts
  <2>3. Flushed(r, e)
    BY <2>1, <2>2 DEF Lined, FlushInv
  <2>4. up'["B"] => up["B"] /\ (Heads(r, Peer) => Heads(r, Peer)')
    BY <1>1, ConstantFacts DEF ImporterRests
  <2>5. e \in replies' => e \in replies
    BY DEF ImporterRests, exporterVars
  <2>6. Follows(toA, toA', {"Call", "ReceiverLoopback"})
    BY DEF ImporterRests
  <2> QED
    BY <1>1, <2>3, <2>4, <2>5, <2>6, FlushedStays
<1> QED
  BY <1>1, <1>2, <1>3 DEF Lined

\* What the importer knows of its clients, also after the step.
LEMMA ClientsNext == Sound' => RefsInv' /\ ClientsInv' /\ PromiseInv' /\ EmbargoInv'
<1>1. Sound => RefsInv /\ ClientsInv /\ PromiseInv /\ EmbargoInv
  BY SoundFacts DEF Basic, Clients
<1> QED
  BY <1>1, PTL

\* Dropping clients sends nothing but a Release.
LEMMA GivesUpFollows ==
    ASSUME NEW ms \in Seq(MessageB), GivesUp(ms), NEW T, "Release" \notin T
    PROVE  Follows(ms, toB', T)
<1>1. ASSUME NEW id \in Ids, NEW n \in Nat \ {0}, toB' = Append(ms, Release(id, n))
      PROVE  Follows(ms, toB', T)
  <2>1. Release(id, n) \in MessageB /\ Release(id, n).type = "Release"
    BY BMessages DEF Release
  <2> QED
    BY <1>1, <2>1, ChannelMoves
<1>2. toB' = ms => Follows(ms, toB', T)
  BY ChannelMoves
<1> QED
  BY <1>1, <1>2 DEF GivesUp

\* A step that only drops clients, or hands them what they already had.
LEMMA DropsLined ==
    ASSUME Sound, Sound', Lined, UNCHANGED <<up, exporterVars, embargoes, gate, made, initiated>>,
           toA' = toA \/ (toA # <<>> /\ toA' = Tail(toA)), GivesUp(toB),
           \A r \in Refs : held'[r] \in {Nothing, held[r]},
           \A c \in Refs : clients'[c] \in {None, clients[c]}
    PROVE  Lined'
<1>1. \A T : Follows(toA, toA', T)
  BY SoundFacts, ChannelMoves
<1>2. Follows(toB, toB', {"Call"}) /\ Follows(toB, toB', {"Call", "SenderLoopback"})
  BY SoundFacts, GivesUpFollows
<1>3. ASSUME up["A"], up["B"], NEW r \in Refs, NEW id \in Ids, Current(r, id)' PROVE Current(r, id) /\ exports[id] # None
  <2>1. CASE held'[r] = Import(id)
    <3>1. Current(r, id)
      BY <2>1, ClientKinds DEF Current
    <3> QED
      BY <1>3, <3>1, CurrentLive
  <2>2. ASSUME NEW c \in Refs, held'[r] = Promised(c), clients'[c].cap = Import(id) PROVE Current(r, id) /\ exports[id] # None
    <3>1. held[r] = Promised(c)
      BY <2>2, ClientKinds
    <3>2. clients'[c] # None
      <4>1. ClientsInv'
        BY ClientsNext
      <4> QED
        BY <2>2, <4>1 DEF ClientsInv
    <3>3. Current(r, id)
      BY <2>2, <3>1, <3>2 DEF Current
    <3> QED
      BY <1>3, <3>3, CurrentLive
  <2> QED
    BY <1>3, <2>1, <2>2 DEF Current
<1>4. ImporterRests
  BY <1>1, <1>2, <1>3 DEF ImporterRests
<1>5. Kinder
  BY DEF Kinder, Lined, Holders, GateInv
<1> QED
  BY <1>2, <1>4, <1>5, ImporterLined

\* The cap a PromiseClient pointed to before is dropped.
LEMMA DropOldLined ==
    ASSUME Sound, Sound', Lined, NEW c \in Refs, DropOld(c)
    PROVE  Lined'
<1> DEFINE olds == [old EXCEPT ![c] = Nothing]
<1>1. /\ Collect(imports, held, clients, olds, toB)
      /\ UNCHANGED <<up, toA, fault, exporterVars, embargoes, gate, made, initiated>>
  BY DEF DropOld
<1> HIDE DEF olds
<1>2. imports \in ImportTable
  BY SoundFacts, ImporterTypes
<1>3. GivesUp(toB) /\ held' = held /\ clients' = clients
  BY <1>1, <1>2, SoundFacts, CollectGivesUp DEF Collect
<1> QED
  BY <1>1, <1>3, DropsLined

\* The application drops a reference.
LEMMA DropRefLined ==
    ASSUME Sound, Sound', Lined, NEW r \in Refs, DropRef(r)
    PROVE  Lined'
<1> DEFINE left == [held EXCEPT ![r] = Nothing]
           pcs == Used(clients, left)
<1>1. /\ Collect(imports, left, pcs, old, toB)
      /\ UNCHANGED <<up, toA, fault, exporterVars, embargoes, gate, made, initiated>>
  BY DEF DropRef
<1>2. imports \in ImportTable /\ held \in HeldTable
  BY SoundFacts, ImporterTypes
<1>3. \A s \in Refs : left[s] \in {Nothing, held[s]}
  BY <1>2 DEF HeldTable
<1>4. \A c \in Refs : pcs[c] \in {None, clients[c]}
  BY DEF Used
<1> HIDE DEF left, pcs
<1>5. GivesUp(toB) /\ held' = left /\ clients' = pcs
  BY <1>1, <1>2, SoundFacts, CollectGivesUp DEF Collect
<1> QED
  BY <1>1, <1>3, <1>4, <1>5, DropsLined

\* The importer loses the connection: clients that wait for a resolution are
\* broken, and those that wait for an embargo fail.
LEMMA DisconnectALined ==
    ASSUME Sound, Sound', Lined, NEW what, NEW inbox, inbox = toA \/ (toA # <<>> /\ inbox = Tail(toA)),
           NEW out, Returns(out), DisconnectA(what, inbox, out)
    PROVE  Lined'
<1> DEFINE hit == {c \in Refs : clients[c] # None /\ \E id \in Ids :
                    imports[id] # None /\ imports[id].promise = c}
<1>1. /\ up' = [up EXCEPT !["A"] = FALSE] /\ toA' = inbox /\ toB' = Append(out, [type |-> "Abort"])
      /\ clients' = [c \in Refs |-> IF c \in hit THEN [clients[c] EXCEPT !.cap = Broken] ELSE clients[c]]
      /\ gate' = LiftAll /\ embargoes' = [e \in Refs |-> None]
      /\ UNCHANGED <<held, exporterVars, made, initiated>>
  BY DEF DisconnectA
<1>2. ~ up'["A"] /\ up'["B"] = up["B"]
  BY <1>1, SoundFacts, ConstantFacts DEF TypeOK
<1>3. \A T : Follows(toA, toA', T)
  BY <1>1, SoundFacts, ChannelMoves
<1>4. Follows(toB, toB', {"Call"}) /\ Follows(toB, toB', {"Call", "SenderLoopback"})
  BY <1>1, SoundFacts, ReturnsFollow
<1>5. /\ gate \in GateTable /\ clients \in ClientTable /\ EmbargoInv /\ PromiseInv
      /\ \A c \in Refs : clients[c] # None => clients[c] \in Client
  BY SoundFacts, ImporterTypes DEF Basic, Clients, ClientTable
<1>6. ASSUME NEW c \in Refs
      PROVE  /\ gate'[c].calls = gate[c].calls
             /\ gate'[c].st \in {gate[c].st, "failed"}
             /\ gate'[c].st # gate[c].st => gate[c].st = "embargoed"
  <2>1. gate'[c] = IF \E e \in Refs : embargoes[e] = c THEN [gate[c] EXCEPT !.st = "failed"] ELSE gate[c]
    BY <1>1 DEF LiftAll
  <2>2. gate[c] \in Gate
    BY <1>5 DEF GateTable
  <2>3. [gate[c] EXCEPT !.st = "failed"].calls = gate[c].calls /\ [gate[c] EXCEPT !.st = "failed"].st = "failed"
    BY <2>2 DEF Gate
  <2>4. (\E e \in Refs : embargoes[e] = c) => gate[c].st = "embargoed"
    BY <1>5, ConstantFacts DEF EmbargoInv
  <2> QED
    BY <2>1, <2>3, <2>4
<1>7. ASSUME NEW c \in Refs, clients'[c] # None
      PROVE  /\ clients[c] # None
             /\ clients'[c].called = clients[c].called
             /\ clients'[c].cap = clients[c].cap \/ (clients'[c].cap = Broken /\ gate[c].st = "none" /\ gate'[c].st = "none")
  <2>1. CASE c \notin hit
    BY <1>1, <1>7, <2>1
  <2>2. CASE c \in hit
    <3>1. PICK id \in Ids : imports[id] # None /\ imports[id].promise = c /\ clients[c] # None
      BY <2>2
    <3>2. gate[c] = NoGate
      BY <1>5, <3>1, ConstantFacts DEF PromiseInv
    <3>3. gate[c].st = "none"
      BY <3>2 DEF NoGate
    <3>4. clients[c] \in Client /\ clients'[c] = [clients[c] EXCEPT !.cap = Broken]
      BY <1>1, <1>5, <2>2, <3>1
    <3>5. clients'[c].called = clients[c].called /\ clients'[c].cap = Broken
      BY <3>4 DEF Client
    <3> QED
      BY <1>6, <3>1, <3>3, <3>5
  <2> QED
    BY <2>1, <2>2
<1> HIDE DEF hit
<1>8. ImporterRests
  BY <1>1, <1>2, <1>3, <1>4, <1>6 DEF ImporterRests
<1>9. Kinder
  <2>1. \A c \in Refs : clients'[c] # None =>
        /\ clients[c] # None
        /\ clients'[c].cap = Local => clients[c].cap = Local \/ ~ clients[c].called
        /\ ~ clients'[c].called => ~ clients[c].called
        /\ clients'[c].cap = Gated(c) <=> gate'[c].st # "none"
    <3> SUFFICES ASSUME NEW c \in Refs, clients'[c] # None
                 PROVE  /\ clients[c] # None
                        /\ clients'[c].cap = Local => clients[c].cap = Local \/ ~ clients[c].called
                        /\ ~ clients'[c].called => ~ clients[c].called
                        /\ clients'[c].cap = Gated(c) <=> gate'[c].st # "none"
      OBVIOUS
    <3>1. clients[c] # None /\ (clients[c].cap = Gated(c) <=> gate[c].st # "none")
      BY <1>7 DEF Lined, Holders, GateInv
    <3>2. Broken # Local /\ Broken # Gated(c)
      BY ClientKinds
    <3> QED
      BY <1>6, <1>7, <3>1, <3>2
  <2>2. \A c \in Refs : gate'[c].st \in {"released", "open"} => gate[c].st \in {"released", "open"}
    BY <1>6
  <2>3. \A c \in Refs, k \in Calls : Has(gate'[c].calls, k) => gate'[c].st \in {"embargoed", "released", "failed"}
    BY <1>6 DEF Lined, Holders, GateInv
  <2> QED
    BY <1>1, <2>1, <2>2, <2>3 DEF Kinder
<1>10. \A e \in Refs : embargoes'[e] \in {None, embargoes[e]}
  BY <1>1
<1> QED
  BY <1>4, <1>8, <1>9, <1>10, ImporterLined

\* The Disembargo comes back: the calls made before it have passed.
LEMMA HandleReceiverLoopbackLined ==
    ASSUME Sound, Sound', Lined, up["A"], toA # <<>>, HandleReceiverLoopback(Head(toA))
    PROVE  Lined'
<1> DEFINE m == Head(toA)
<1>1. m \in MessageA /\ m.type = "ReceiverLoopback" /\ m.embargo \in Refs /\ Shorter(toA, Tail(toA), m)
  BY SoundFacts, HeadA, MessageAFields DEF HandleReceiverLoopback
<1>2. CASE embargoes[m.embargo] = None
  BY <1>2, DisconnectALined DEF HandleReceiverLoopback, Returns
<1>3. CASE embargoes[m.embargo] # None
  <2>1. PICK x \in Refs : x = m.embargo
    BY <1>1
  <2>2. PICK b \in Refs : b = embargoes[x]
    BY <1>3, <2>1, SoundFacts, ImporterTypes DEF EmbargoTable
  <2>3. /\ gate' = [gate EXCEPT ![b].st = "released"]
        /\ embargoes' = [embargoes EXCEPT ![x] = None]
        /\ toA' = Tail(toA)
        /\ UNCHANGED <<up, toB, fault, exporterVars, held, clients, imports, old, made, initiated>>
    BY <1>3, <2>1, <2>2 DEF HandleReceiverLoopback
  <2>4. gate \in GateTable /\ embargoes \in EmbargoTable /\ gate[b].st = "embargoed"
    BY <2>2, SoundFacts, ImporterTypes, ConstantFacts DEF Basic, Clients, EmbargoInv
  <2>5. \A c \in Refs : /\ gate'[c].calls = gate[c].calls
                        /\ gate'[c].st = IF c = b THEN "released" ELSE gate[c].st
    BY <2>3, <2>4 DEF GateTable, Gate
  <2>6. \A e \in Refs : embargoes'[e] \in {None, embargoes[e]}
    BY <2>3, <2>4 DEF EmbargoTable
  <2>7. ASSUME NEW r \in Refs, Through(r, b) PROVE Idle(r)
    <3>1. Flushed(r, x)
      BY <2>2, <2>7 DEF Lined, FlushInv
    <3>2. 1 \in 1 .. Len(toA) /\ toA[1] = m /\ Len(toA) \in Nat
      BY <1>1, SoundFacts DEF Shorter
    <3>3. Arrived(r) /\ NoneBehind(toA, 1, r)
      BY <1>1, <2>1, <3>1, <3>2 DEF Flushed, Answers
    <3>4. ASSUME NEW k \in Calls, k[1] = r, CarriesCall(toA, k) PROVE FALSE
      <4>1. PICK i \in 1 .. Len(toA) : toA[i].type = "Call" /\ toA[i].call = k
        BY <3>4 DEF CarriesCall
      <4>2. i # 1
        BY <1>1, <3>2, <4>1
      <4> QED
        BY <3>2, <3>3, <3>4, <4>1, <4>2 DEF NoneBehind
    <3> QED
      BY <3>3, <3>4 DEF Idle
  <2>8. \A T : Follows(toA, toA', T)
    BY <2>3, SoundFacts, ChannelMoves
  <2>9. \A T : Follows(toB, toB', T)
    BY <2>3, SoundFacts, ChannelMoves
  <2>10. ASSUME up["A"], up["B"], NEW r \in Refs, NEW id \in Ids, Current(r, id)' PROVE Current(r, id) /\ exports[id] # None
    <3>1. Current(r, id)
      BY <2>3, <2>10 DEF Current
    <3> QED
      BY <2>10, <3>1, CurrentLive
  <2>11. ImporterRests
    BY <2>3, <2>5, <2>8, <2>9, <2>10 DEF ImporterRests
  <2>12. Kinder
    <3>1. \A c \in Refs : gate'[c].st # "none" <=> gate[c].st # "none"
      BY <2>4, <2>5
    <3>2. \A c \in Refs, k \in Calls : Has(gate'[c].calls, k) => gate'[c].st \in {"embargoed", "released", "failed"}
      BY <2>5 DEF Lined, Holders, GateInv
    <3>3. \A c \in Refs : gate'[c].st \in {"released", "open"} =>
        gate[c].st \in {"released", "open"} \/ \A r \in Refs : Through(r, c) => Idle(r)
      BY <2>5, <2>7
    <3> QED
      BY <2>3, <3>1, <3>2, <3>3 DEF Kinder, Lined, Holders, GateInv
  <2> QED
    BY <2>6, <2>9, <2>11, <2>12, ImporterLined
<1> QED
  BY <1>2, <1>3

\* Calls are begun that were held back, or come back from the exporter.
LEMMA BegunLined ==
    ASSUME Sound, Sound', Lined, UNCHANGED <<up, toB, exporterVars, held, clients, embargoes>>,
           toA' = toA \/ (toA # <<>> /\ toA' = Tail(toA)),
           \A c \in Refs, k \in Calls : Has(gate'[c].calls, k) => Has(gate[c].calls, k),
           Kinder, Order'
    PROVE  Lined'
<1>1. \A T : Follows(toA, toA', T)
  BY SoundFacts, ChannelMoves
<1>2. Follows(toB, toB', {"Call"}) /\ Follows(toB, toB', {"Call", "SenderLoopback"})
  BY SoundFacts, ChannelMoves
<1>3. Fewer
  <2>1. Len(toA) \in Nat /\ Len(toA') \in Nat /\ Len(toB) \in Nat /\ Len(toB') \in Nat
    BY SoundFacts, AliveNext DEF TypeOK
  <2> QED
    BY <1>1, <1>2, <2>1, FollowsCalls DEF Fewer, exporterVars
<1>4. \A r : Onward(r)
  BY <1>3, FewerOnward
<1>5. Steady
  BY DEF Steady, Target, Ends, exporterVars
<1>6. ASSUME up["A"], up["B"], NEW r \in Refs, NEW id \in Ids, Current(r, id)' PROVE Current(r, id) /\ exports[id] # None
  <2>1. Current(r, id)
    BY <1>6 DEF Current
  <2> QED
    BY <1>6, <2>1, CurrentLive
<1>7. Flow'
  BY <1>3, <1>5, <1>6, FlowFewer DEF Lined
<1>8. \A r \in Refs : Unborn(r)' => Unborn(r)
  BY <1>1, UnbornFollows DEF exporterVars
<1>9. Holders'
  BY <1>4, <1>8, HoldersFrame DEF Lined
<1>10. FlushInv'
  <2> SUFFICES ASSUME NEW r \in Refs, NEW c \in Refs, NEW e \in Refs, Through(r, c)', embargoes'[e] = c PROVE Flushed(r, e)'
    BY DEF FlushInv
  <2>1. Through(r, c)
    BY <1>4, ThroughLess
  <2>2. Flushed(r, e)
    BY <2>1 DEF Lined, FlushInv
  <2>3. Heads(r, Peer) => Heads(r, Peer)'
    BY <1>3, <1>5, HeadsStay DEF Fewer
  <2>4. e \in replies' => e \in replies
    BY DEF exporterVars
  <2> QED
    BY <1>1, <1>2, <1>4, <2>2, <2>3, <2>4, FlushedStays
<1> QED
  BY <1>7, <1>9, <1>10 DEF Lined

\* A call comes back to a capability of the importer.
LEMMA HandleCallALined ==
    ASSUME Sound, Sound', Lined, up["A"], toA # <<>>, HandleCallA(Head(toA))
    PROVE  Lined'
<1> DEFINE m == Head(toA)
<1>1. m \in MessageA /\ m.type = "Call" /\ Shorter(toA, Tail(toA), m)
  BY SoundFacts, HeadA DEF HandleCallA
<1>2. PICK k \in Calls : k = m.call
  BY <1>1, MessageAFields
<1>3. PICK calls \in Seq(Calls) : calls = <<k>>
  <2>1. <<k>> \in Seq(Calls)
    OBVIOUS
  <2> QED
    BY <2>1
<1>4. /\ initiated \in Seq(Calls) /\ initiated' = initiated \o calls /\ toA' = Tail(toA)
      /\ UNCHANGED <<up, toB, fault, exporterVars, importerVars, made>>
  <2>1. /\ initiated \in Seq(Calls) /\ initiated' = Append(initiated, k) /\ toA' = Tail(toA)
        /\ UNCHANGED <<up, toB, fault, exporterVars, importerVars, made>>
    BY <1>2, SoundFacts DEF HandleCallA, TypeOK
  <2>2. \A s \in Seq(Calls) : Append(s, k) = s \o <<k>>
    OBVIOUS
  <2> QED
    BY <1>3, <2>1, <2>2
<1>5. UNCHANGED <<held, clients, imports, old, embargoes, gate>>
  BY <1>4 DEF importerVars
<1>6. /\ \A l : CarriesCall(toA', l) => CarriesCall(toA, l)
      /\ SortedCalls(toA) => SortedCalls(toA')
      /\ CarriesCall(toA, k)
      /\ SortedCalls(toA) => \A l : CarriesCall(toA', l) => Less(k, l)
  BY <1>1, <1>2, <1>4, ShorterCalls
<1>7. Sorted(calls) /\ \A l : Has(calls, l) <=> l = k
  BY <1>3, CallSeqs
<1>8. \A l : Has(initiated, l) => Less(l, k)
  <2>1. \A l : Has(initiated, l) => l \in Calls
    BY <1>4, CallSeqs
  <2> QED
    BY <1>6, <2>1, StageFacts DEF Lined, Order, LineInv
<1>9. /\ \A l : Has(initiated', l) <=> Has(initiated, l) \/ l = k
      /\ Sorted(initiated')
  BY <1>4, <1>7, <1>8, CallSeqsJoined DEF Lined, Order, SortInv
<1>10. SortInv'
  BY <1>4, <1>5, <1>6, <1>9 DEF Lined, Order, SortInv, exporterVars
<1>11. LineInv' /\ NumberInv'
  <2> DEFINE K == {k}
  <2>0. LineInv /\ NumberInv /\ made' = made /\ 1 \in 1 .. 5 /\ 2 \in 1 .. 5 /\ 1 <= 2
    BY <1>4 DEF Lined, Order
  <2>1. \A l \in Calls : l \in K => AtStage(2, l)
    BY <1>6, StageFacts
  <2>2. ASSUME NEW n \in 1 .. 5, NEW l \in Calls, AtStage(n, l)' PROVE AtStage(n, l) \/ (n = 1 /\ l \in K)
    <3>1. n \in {1, 2, 3, 4, 5}
      OBVIOUS
    <3>2. CASE n = 1
      BY <1>9, <2>2, <3>2, StageFacts
    <3>3. CASE n = 2
      BY <1>6, <2>2, <3>3, StageFacts
    <3>4. CASE n \in {3, 4, 5}
      BY <1>4, <1>5, <2>2, <3>4, StageFacts DEF exporterVars
    <3> QED
      BY <3>1, <3>2, <3>3, <3>4
  <2>3. \A n \in 1 .. 5, x \in Calls, l \in Calls : x \in K /\ 1 < n /\ n <= 2 /\ AtStage(n, l)' => Less(x, l)
    BY <1>6, StageFacts DEF Lined, Order, SortInv
  <2>4. \A n \in 1 .. 5, l \in Calls : AtStage(n, l)' => AtStage(n, l) \/ (n = 1 /\ l \in K)
    BY <2>2
  <2> HIDE DEF K
  <2> QED
    BY ONLY <2>0, <2>1, <2>3, <2>4, LineMoves
<1>12. Kinder
  BY <1>5 DEF Kinder, Lined, Holders, GateInv
<1>13. Order'
  BY <1>10, <1>11 DEF Order
<1> QED
  BY <1>4, <1>5, <1>12, <1>13, BegunLined

\* The caller takes a call back that waits for an embargo.
LEMMA AbandonLined ==
    ASSUME Sound, Sound', Lined, NEW c \in Refs, Abandon(c)
    PROVE  Lined'
<1>1. gate \in GateTable /\ gate[c] \in Gate
  BY SoundFacts, ImporterTypes DEF GateTable
<1>2. PICK i \in DOMAIN gate[c].calls :
          gate' = [gate EXCEPT ![c].calls = SubSeq(gate[c].calls, 1, i - 1) \o SubSeq(gate[c].calls, i + 1, Len(gate[c].calls))]
  BY <1>1 DEF Abandon, GateTable, Gate
<1> DEFINE s == gate[c].calls
           w == SubSeq(s, 1, i - 1) \o SubSeq(s, i + 1, Len(s))
<1>3. (\A k : Has(w, k) => Has(s, k)) /\ (Sorted(s) => Sorted(w))
  <2>1. s \in Seq(Calls) /\ i \in 1 .. Len(s)
    BY <1>1, <1>2 DEF Gate
  <2> HIDE DEF s
  <2>2. PICK x \in {w} : x = SubSeq(s, 1, i - 1) \o SubSeq(s, i + 1, Len(s))
    OBVIOUS
  <2>3. PICK j \in 1 .. Len(s) : j = i
    BY <2>1
  <2>4. x = SubSeq(s, 1, j - 1) \o SubSeq(s, j + 1, Len(s))
    BY <2>2, <2>3
  <2> HIDE DEF w
  <2>5. (\A k : Has(x, k) => Has(s, k)) /\ (Sorted(s) => Sorted(x))
    BY ONLY <2>1, <2>3, <2>4, CallSeqsCut
  <2> QED
    BY <2>2, <2>5
<1>4. gate' = [gate EXCEPT ![c].calls = w]
  BY <1>2
<1> HIDE DEF w
<1>5. \A d \in Refs : gate'[d].st = gate[d].st /\ gate'[d].calls = IF d = c THEN w ELSE gate[d].calls
  BY <1>1, <1>4 DEF GateTable, Gate
<1>6. UNCHANGED <<up, toA, toB, fault, exporterVars, held, clients, imports, old, embargoes, made, initiated>>
  BY DEF Abandon
<1>7. \A d \in Refs, k \in Calls : Has(gate'[d].calls, k) => Has(gate[d].calls, k)
  BY <1>3, <1>5
<1>8. Order'
  <2>1. SortInv'
    BY <1>3, <1>5, <1>6 DEF Lined, Order, SortInv, exporterVars
  <2>2. ASSUME NEW n \in 1 .. 5, NEW k \in Calls, AtStage(n, k)' PROVE AtStage(n, k)
    <3>1. n \in {1, 2, 3, 4, 5}
      OBVIOUS
    <3>2. CASE n \in {1, 2, 3, 4}
      BY <1>6, <2>2, <3>2, StageFacts DEF exporterVars
    <3>3. CASE n = 5
      BY <1>7, <2>2, <3>3, StageFacts
    <3> QED
      BY <3>1, <3>2, <3>3
  <2>3. LineInv' /\ NumberInv'
    BY <1>6, <2>2, LineStays DEF Lined, Order
  <2> QED
    BY <2>1, <2>3 DEF Order
<1>9. Kinder
  BY <1>5, <1>6, <1>7 DEF Kinder, Lined, Holders, GateInv
<1> QED
  BY <1>6, <1>7, <1>8, <1>9, BegunLined

\* The calls that waited for an embargo are begun, or fail.
LEMMA DriveGateLined ==
    ASSUME Sound, Sound', Lined, NEW c \in Refs, DriveGate(c)
    PROVE  Lined'
<1>1. gate \in GateTable /\ initiated \in Seq(Calls)
  BY SoundFacts, ImporterTypes DEF TypeOK
<1>2. PICK calls \in Seq(Calls) : calls = gate[c].calls
  BY <1>1 DEF GateTable, Gate
<1>3. /\ gate[c].st \in {"released", "failed"}
      /\ initiated' = IF gate[c].st = "released" THEN initiated \o calls ELSE initiated
      /\ gate' = [gate EXCEPT ![c] = [calls |-> <<>>, st |-> IF gate[c].st = "released" THEN "open" ELSE "broken"]]
      /\ UNCHANGED <<up, toA, toB, fault, exporterVars, held, clients, imports, old, embargoes, made>>
  BY <1>1, <1>2 DEF DriveGate, GateTable
<1>4. \A d \in Refs : d # c => gate'[d] = gate[d]
  BY <1>1, <1>3 DEF GateTable
<1>5. gate'[c].calls = <<>> /\ gate'[c].st = IF gate[c].st = "released" THEN "open" ELSE "broken"
  BY <1>1, <1>3 DEF GateTable
<1>6. \A d \in Refs, k \in Calls : Has(gate'[d].calls, k) => d # c /\ Has(gate[d].calls, k)
  BY <1>4, <1>5, CallSeqs
<1>7. Kinder
  <2>1. gate[c].st # "none" /\ gate'[c].st # "none"
    BY <1>3, <1>5
  <2>2. \A d \in Refs : gate'[d].st # "none" <=> gate[d].st # "none"
    BY <1>4, <2>1
  <2>3. \A d \in Refs : gate'[d].st \in {"released", "open"} => gate[d].st \in {"released", "open"}
    BY <1>3, <1>4, <1>5
  <2>4. \A d \in Refs, k \in Calls : Has(gate'[d].calls, k) => gate'[d].st \in {"embargoed", "released", "failed"}
    BY <1>4, <1>6 DEF Lined, Holders, GateInv
  <2> QED
    BY <1>3, <2>2, <2>3, <2>4 DEF Kinder, Lined, Holders, GateInv
<1>8. Sorted(calls) /\ \A k : Has(calls, k) => k \in Calls
  BY <1>2, CallSeqs DEF Lined, Order, SortInv
<1>9. \A k, l : Has(initiated, k) /\ Has(calls, l) => Less(k, l)
  <2>1. \A k : Has(initiated, k) => k \in Calls
    BY <1>1, CallSeqs
  <2>2. \A k \in Calls : Has(calls, k) => AtStage(5, k)
    BY <1>2, StageFacts
  <2> QED
    BY <1>8, <2>1, <2>2, StageFacts DEF Lined, Order, LineInv
<1>10. /\ \A k : Has(initiated', k) => Has(initiated, k) \/ (gate[c].st = "released" /\ Has(calls, k))
       /\ Sorted(initiated')
  <2>1. CASE gate[c].st = "released"
    <3>1. initiated' = initiated \o calls
      BY <1>3, <2>1
    <3>2. Sorted(initiated)
      BY DEF Lined, Order, SortInv
    <3> QED
      BY <1>1, <1>8, <1>9, <2>1, <3>1, <3>2, CallSeqsJoined
  <2>2. CASE gate[c].st # "released"
    BY <1>3, <2>2 DEF Lined, Order, SortInv
  <2> QED
    BY <2>1, <2>2
<1>11. SortInv'
  <2>1. \A d \in Refs : Sorted(gate'[d].calls)
    BY <1>4, <1>5, CallSeqs DEF Lined, Order, SortInv
  <2> QED
    BY <1>3, <1>10, <2>1 DEF Lined, Order, SortInv, exporterVars
<1>12. LineInv' /\ NumberInv'
  <2> DEFINE K == {l \in Calls : gate[c].st = "released" /\ Has(calls, l)}
  <2>1. \A l \in Calls : l \in K <=> gate[c].st = "released" /\ Has(calls, l)
    OBVIOUS
  <2> HIDE DEF K
  <2>2. LineInv /\ NumberInv /\ made' = made /\ 1 \in 1 .. 5 /\ 5 \in 1 .. 5 /\ 1 <= 5
    BY <1>3 DEF Lined, Order
  <2>3. \A l \in Calls : l \in K => AtStage(5, l)
    BY <1>2, <2>1, StageFacts
  <2>4. ASSUME NEW n \in 1 .. 5, NEW l \in Calls, AtStage(n, l)' PROVE AtStage(n, l) \/ (n = 1 /\ l \in K)
    <3>1. n \in {1, 2, 3, 4, 5}
      OBVIOUS
    <3>2. CASE n = 1
      BY <1>10, <2>1, <2>4, <3>2, StageFacts
    <3>3. CASE n \in {2, 3, 4}
      BY <1>3, <2>4, <3>3, StageFacts DEF exporterVars
    <3>4. CASE n = 5
      BY <1>6, <2>4, <3>4, StageFacts
    <3> QED
      BY <3>1, <3>2, <3>3, <3>4
  <2>5. ASSUME NEW n \in 1 .. 5, NEW k \in Calls, NEW l \in Calls, k \in K, 1 < n, n <= 5, AtStage(n, l)' PROVE Less(k, l)
    <3>1. gate[c].st = "released" /\ Has(gate[c].calls, k)
      BY <1>2, <2>1, <2>5
    <3>2. k[1] \in Refs
      BY DEF Calls
    <3>3. Waits(k[1], c)
      BY <3>1 DEF Waits
    <3>4. Idle(k[1]) /\ \A d \in Refs : Waits(k[1], d) => d = c
      BY <3>1, <3>2, <3>3 DEF Lined, Holders, ThroughInv, WaitInv, Through
    <3>5. ASSUME l[1] = k[1] PROVE FALSE
      <4>1. ~ CarriesCall(toA, l) /\ ~ Passing(l)
        BY <3>4, <3>5 DEF Idle, Arrived
      <4>2. \A d \in Refs : Has(gate[d].calls, l) => d = c
        BY <3>4, <3>5 DEF Waits
      <4>3. n \in {2, 3, 4, 5}
        BY <2>5
      <4>4. CASE n \in {2, 3, 4}
        <5>1. AtStage(n, l)
          BY <2>4, <2>5
        <5> QED
          BY <4>1, <4>4, <5>1, StageFacts DEF Passing
      <4>5. CASE n = 5
        BY <1>6, <2>5, <4>2, <4>5, StageFacts
      <4> QED
        BY <4>3, <4>4, <4>5
    <3> QED
      BY <3>5 DEF Less
  <2>6. \A n \in 1 .. 5, l \in Calls : AtStage(n, l)' => AtStage(n, l) \/ (n = 1 /\ l \in K)
    BY <2>4
  <2>7. \A n \in 1 .. 5, k \in Calls, l \in Calls : k \in K /\ 1 < n /\ n <= 5 /\ AtStage(n, l)' => Less(k, l)
    BY <2>5
  <2> QED
    BY ONLY <2>2, <2>3, <2>6, <2>7, LineMoves
<1>13. Order'
  BY <1>11, <1>12 DEF Order
<1> QED
  BY <1>3, <1>6, <1>7, <1>13, BegunLined

\* The application receives a capability under a reference that is still to
\* come, and was never called.
LEMMA ReceiveCapLined ==
    ASSUME Sound, Sound', Lined, up["A"], toA # <<>>, ReceiveCap(Head(toA))
    PROVE  Lined'
<1> DEFINE m == Head(toA)
<1>1. m \in MessageA /\ m.type = "Cap" /\ m.ref \in Refs /\ m.desc \in Desc /\ Shorter(toA, Tail(toA), m)
  BY SoundFacts, HeadA, MessageAFields DEF ReceiveCap
<1>2. m.desc.id \in Ids
  BY <1>1 DEF Desc
<1>3. PICK b \in Refs : b = m.ref
  BY <1>1
<1>4. toA' = Tail(toA) /\ UNCHANGED <<up, toB, exporterVars, old, embargoes, gate, made, initiated>>
  BY DEF ReceiveCap
<1>5. held \in HeldTable /\ clients \in ClientTable
  BY SoundFacts, ImporterTypes
<1>6. \A s \in Refs : s # b => held'[s] = held[s]
  <2>1. \E h : held' = [held EXCEPT ![b] = h]
    BY <1>3 DEF ReceiveCap
  <2> QED
    BY <1>5, <2>1 DEF HeldTable
<1>7. /\ \A c \in Refs : c # b => clients'[c] = clients[c]
      /\ clients'[b] = clients[b] \/ \E id \in Ids : clients'[b] = [cap |-> Import(id), called |-> FALSE]
  <2>1. clients' = clients \/ clients' = [clients EXCEPT ![b] = [cap |-> Import(m.desc.id), called |-> FALSE]]
    BY <1>3 DEF ReceiveCap
  <2> QED
    BY <1>2, <1>5, <2>1 DEF ClientTable
<1>8. Unborn(b) /\ b \in Unused /\ Resting(b)
  <2>1. 1 \in 1 .. Len(toA) /\ Brings(toA[1], b)
    BY <1>1, <1>3, SoundFacts DEF Shorter, Brings
  <2> QED
    BY <2>1, SoundFacts DEF Unborn, Lined, Holders, UnbornInv, Basic, Clients, RefsInv
<1>9. \A T : Follows(toA, toA', T)
  BY <1>4, SoundFacts, ChannelMoves
<1>10. \A T : Follows(toB, toB', T)
  BY <1>4, SoundFacts, ChannelMoves
<1>11. clients[b] = None /\ gate[b] = NoGate /\ \A s \in Refs : held[s] # Promised(b)
  BY <1>8 DEF Unused
<1>12. ASSUME up["A"], up["B"], NEW r \in Refs, NEW id \in Ids, Current(r, id)'
       PROVE  Idle(r) \/ (Current(r, id) /\ exports[id] # None)
  <2>1. CASE r = b
    BY <1>8, <2>1 DEF Resting
  <2>2. CASE r # b
    <3>1. held'[r] = held[r]
      BY <1>6, <2>2
    <3>2. \A c \in Refs : held[r] = Promised(c) => clients'[c] = clients[c]
      BY <1>7, <1>11
    <3>3. Current(r, id)
      BY <1>12, <3>1, <3>2 DEF Current
    <3> QED
      BY <1>12, <3>3, CurrentLive
  <2> QED
    BY <2>1, <2>2
<1>13. ImporterRests
  BY <1>4, <1>9, <1>10, <1>12 DEF ImporterRests
<1>14. /\ Flow' /\ Order' /\ Steady /\ \A r : Onward(r)
       /\ \A r \in Refs : Unborn(r)' => Unborn(r)
       /\ \A r \in Refs, d \in Caps : Heads(r, d) => Heads(r, d)'
  BY <1>13, ImporterStill
<1>15. Resting(b)' /\ Idle(b)' /\ \A c \in Refs : ~ Waits(b, c)
  BY <1>8, <1>14, OnwardFacts DEF Resting
<1>16. ASSUME NEW r \in Refs, NEW c \in Refs, Through(r, c)', r # b PROVE Through(r, c)
  BY <1>6, <1>14, <1>16, OnwardFacts DEF Through
<1>17. Holders'
  <2>1. UnbornInv'
    BY <1>14, OnwardFacts DEF Lined, Holders, UnbornInv
  <2>2. WaitInv'
    <3> SUFFICES ASSUME NEW r \in Refs, NEW c \in Refs, Waits(r, c)'
                 PROVE  held'[r] \in {Nothing, Promised(c)} /\ \A d \in Refs : Waits(r, d)' => d = c
      BY DEF WaitInv
    <3>1. Waits(r, c) /\ \A d \in Refs : Waits(r, d)' => Waits(r, d)
      BY <1>14, OnwardFacts
    <3>2. r # b
      BY <1>15, <3>1
    <3> QED
      BY <1>6, <3>1, <3>2 DEF Lined, Holders, WaitInv
  <2>3. GateInv'
    <3>1. \A c \in Refs, k \in Calls : Has(gate'[c].calls, k) => gate'[c].st \in {"embargoed", "released", "failed"}
      BY <1>4 DEF Lined, Holders, GateInv
    <3>2. ASSUME NEW c \in Refs, clients'[c] # None PROVE clients'[c].cap = Gated(c) <=> gate'[c].st # "none"
      <4>1. CASE clients'[c] = clients[c]
        BY <1>4, <3>2, <4>1 DEF Lined, Holders, GateInv
      <4>2. ASSUME NEW id \in Ids, c = b, clients'[b] = [cap |-> Import(id), called |-> FALSE]
            PROVE  clients'[c].cap = Gated(c) <=> gate'[c].st # "none"
        BY <1>4, <1>11, <4>2, ClientKinds DEF NoGate
      <4> QED
        BY <1>7, <4>1, <4>2
    <3> QED
      BY <3>1, <3>2 DEF GateInv
  <2>4. RestInv'
    <3>1. ASSUME NEW r \in Refs, held'[r] = Local PROVE Resting(r)'
      BY <1>6, <1>14, <1>15, <3>1, OnwardFacts DEF Lined, Holders, RestInv
    <3>2. ASSUME NEW r \in Refs, NEW c \in Refs, held'[r] = Promised(c), clients'[c] # None,
                 clients'[c].cap = Local \/ ~ clients'[c].called
          PROVE  Resting(r)'
      <4>1. CASE r = b
        BY <1>15, <4>1
      <4>2. CASE r # b
        <5>1. held[r] = Promised(c) /\ clients'[c] = clients[c]
          BY <1>6, <1>7, <1>11, <3>2, <4>2
        <5> QED
          BY <1>14, <3>2, <5>1, OnwardFacts DEF Lined, Holders, RestInv
      <4> QED
        BY <4>1, <4>2
    <3> QED
      BY <3>1, <3>2 DEF RestInv
  <2>5. ThroughInv'
    <3> SUFFICES ASSUME NEW r \in Refs, NEW c \in Refs, Through(r, c)', gate'[c].st \in {"released", "open"} PROVE Idle(r)'
      BY DEF ThroughInv
    <3>1. CASE r = b
      BY <1>15, <3>1
    <3>2. CASE r # b
      <4>1. Through(r, c) /\ gate[c].st \in {"released", "open"}
        BY <1>4, <1>16, <3>2
      <4>2. Idle(r)
        BY <4>1 DEF Lined, Holders, ThroughInv
      <4> QED
        BY <1>14, <4>2, OnwardFacts
    <3> QED
      BY <3>1, <3>2
  <2> QED
    BY <2>1, <2>2, <2>3, <2>4, <2>5 DEF Holders
<1>18. FlushInv'
  <2> SUFFICES ASSUME NEW r \in Refs, NEW c \in Refs, NEW e \in Refs, Through(r, c)', embargoes'[e] = c PROVE Flushed(r, e)'
    BY DEF FlushInv
  <2>1. CASE r = b
    BY <1>15, <2>1, FlushedIdleNext DEF IdleFlushed
  <2>2. CASE r # b
    <3>1. Through(r, c) /\ embargoes[e] = c
      BY <1>4, <1>16, <2>2
    <3>2. Flushed(r, e)
      BY <3>1 DEF Lined, FlushInv
    <3>3. up'["B"] => up["B"] /\ (Heads(r, Peer) => Heads(r, Peer)')
      BY <1>4, <1>14, ConstantFacts
    <3>4. e \in replies' => e \in replies
      BY <1>4 DEF exporterVars
    <3>5. Follows(toA, toA', {"Call", "ReceiverLoopback"}) /\ Follows(toB, toB', {"Call", "SenderLoopback"})
      BY <1>9, <1>10
    <3> QED
      BY <1>14, <3>2, <3>3, <3>4, <3>5, FlushedStays
  <2> QED
    BY <2>1, <2>2
<1> QED
  BY <1>14, <1>17, <1>18 DEF Lined

\* The PromiseClient c, of the import a Resolve names, now points to x.
TurnsTo(m, c, x) ==
    /\ imports[m.id] # None /\ gate[c] = NoGate /\ clients[c] # None /\ clients[c].cap = Import(m.id)
    /\ clients'[c] # None /\ clients'[c].cap = x /\ clients'[c].called = clients[c].called
    /\ \A d \in Refs : d # c => clients'[d] = clients[d]
TurnsAtOnce(m, c) ==
    /\ TurnsTo(m, c, With(m)) /\ (With(m) = Local => ~ clients[c].called)
    /\ UNCHANGED <<embargoes, gate>> /\ GivesUp(toB)
TurnsLater(m, c, e) ==
    /\ TurnsTo(m, c, Gated(c)) /\ With(m) = Local
    /\ embargoes[e] = None /\ embargoes' = [embargoes EXCEPT ![e] = c]
    /\ gate' = [gate EXCEPT ![c].st = "embargoed"] /\ GivesUp(Append(toB, Loopback(m.id, e)))

\* What handle_resolve does to the clients.
LEMMA ResolveTurns ==
    ASSUME Sound, up["A"], toA # <<>>, NEW m, m = Head(toA), HandleResolve(m)
    PROVE  /\ m \in MessageA /\ m.type = "Resolve" /\ m.id \in Ids
           /\ \/ DisconnectA("not a promise", Tail(toA), HandedBack(m))
              \/ /\ UNCHANGED <<up, fault, exporterVars, held, made, initiated>> /\ toA' = Tail(toA)
                 /\ \/ UNCHANGED <<clients, embargoes, gate>> /\ GivesUp(toB)
                    \/ \E c \in Refs : TurnsAtOnce(m, c) \/ \E e \in Refs : TurnsLater(m, c, e)
<1> DEFINE c == Received(m)[m.id].promise
<1>1. TypeOK /\ Basic /\ m \in MessageA /\ m.type = "Resolve" /\ m.id \in Ids
      /\ UNCHANGED <<made, initiated>> /\ toB \in Seq(MessageB)
  BY SoundFacts, HeadA, MessageAFields DEF HandleResolve
<1>2. \/ /\ Received(m)[m.id] = None
         /\ Collect(Received(m), held, clients, old, toB)
         /\ UNCHANGED <<up, fault, embargoes, gate, exporterVars>>
         /\ toA' = Tail(toA)
      \/ /\ Received(m)[m.id] # None /\ c = None
         /\ DisconnectA("not a promise", Tail(toA), HandedBack(m))
      \/ /\ Received(m)[m.id] # None /\ c # None /\ clients[c] = None
         /\ Collect(Taken(m), held, clients, old, toB)
         /\ UNCHANGED <<up, fault, embargoes, gate, exporterVars>>
         /\ toA' = Tail(toA)
      \/ /\ Received(m)[m.id] # None /\ c # None /\ clients[c] # None
         /\ ResolveClient(c, With(m), Taken(m))
         /\ UNCHANGED <<up, fault, exporterVars>>
         /\ toA' = Tail(toA)
  BY DEF HandleResolve, Received, With, Taken, WithApp, WithPromise
<1>3. Received(m) \in ImportTable /\ (Received(m)[m.id] # None => Taken(m) \in ImportTable)
  BY <1>1, ReceivedFacts, TakenFacts
<1>4. ASSUME NEW imps \in ImportTable, Collect(imps, held, clients, old, toB)
      PROVE  held' = held /\ clients' = clients /\ GivesUp(toB)
  <2>1. held' = held /\ clients' = clients
    BY <1>4 DEF Collect
  <2>2. Collect(imps, held, clients, old, toB)
    BY <1>4
  <2>3. GivesUp(toB)
    BY ONLY <1>1, <2>2, imps \in ImportTable, CollectGivesUp
  <2> QED
    BY <2>1, <2>3
<1>5. CASE /\ Received(m)[m.id] # None /\ c # None /\ clients[c] # None
           /\ ResolveClient(c, With(m), Taken(m))
           /\ UNCHANGED <<up, fault, exporterVars>>
           /\ toA' = Tail(toA)
  <2>1. imports[m.id] # None /\ c = imports[m.id].promise
    BY <1>1, <1>5, ReceivedFacts
  <2>2. c \in Refs
    BY <1>1, <1>5, <2>1, ImporterTypes DEF ImportTable, ImportEntry
  <2>3. clients[c].cap = Import(m.id) /\ gate[c] = NoGate
    BY <1>1, <1>5, <2>1 DEF PromiseInv, Basic, Clients
  <2>4. PICK d \in Refs : d = c
    BY <2>2
  <2> HIDE DEF c
  <2>5. clients[d] # None /\ clients[d].cap = Import(m.id) /\ gate[d] = NoGate /\ clients \in ClientTable
        /\ ResolveClient(d, With(m), Taken(m)) /\ clients[d] \in Client
    BY <1>1, <1>5, <2>3, <2>4, ImporterTypes DEF ClientTable
  <2> DEFINE e0 == Lowest({x \in Refs : embargoes[x] = None})
  <2>6. e0 \in {x \in Refs : embargoes[x] = None}
    BY <1>1, <2>5, EmbargoFree
  <2>7. PICK e \in Refs : e = e0 /\ embargoes[e] = None
    BY <2>6
  <2>8. Disembargo(d, e) = Loopback(m.id, e) /\ Loopback(m.id, e) \in MessageB
    <3>1. Disembargo(d, e) = Loopback(m.id, e)
      BY <2>5, ClientKinds DEF Disembargo, Loopback
    <3> QED
      BY <1>1, <3>1, BMessages DEF Loopback
  <2> DEFINE embargo == NeedsEmbargo(d, With(m))
             x == IF embargo THEN Gated(d) ELSE With(m)
             pcs == [clients EXCEPT ![d].cap = x]
             olds == [old EXCEPT ![d] = clients[d].cap]
             ms == IF embargo THEN Append(toB, Loopback(m.id, e)) ELSE toB
  <2>9. /\ embargoes' = IF embargo THEN [embargoes EXCEPT ![e] = d] ELSE embargoes
        /\ gate' = IF embargo THEN [gate EXCEPT ![d].st = "embargoed"] ELSE gate
        /\ Collect(Taken(m), held, pcs, olds, ms)
    BY <2>5, <2>7, <2>8 DEF ResolveClient
  <2> HIDE DEF e0
  <2>10. held' = held /\ clients' = pcs
    BY <2>9 DEF Collect
  <2>11. GivesUp(ms)
    <3>1. ms \in Seq(MessageB)
      BY <1>1, <2>8
    <3>2. Taken(m) \in ImportTable /\ Collect(Taken(m), held, pcs, olds, ms)
      BY <1>3, <1>5, <2>9
    <3> HIDE DEF ms, pcs, olds
    <3> QED
      BY ONLY <3>1, <3>2, CollectGivesUp
  <2>12. TurnsTo(m, d, x)
    <3> HIDE DEF x
    <3>1. [clients[d] EXCEPT !.cap = x].cap = x /\ [clients[d] EXCEPT !.cap = x].called = clients[d].called
      BY <2>5 DEF Client
    <3>2. clients'[d] = [clients[d] EXCEPT !.cap = x] /\ \A f \in Refs : f # d => clients'[f] = clients[f]
      BY <2>5, <2>10 DEF ClientTable
    <3>3. clients'[d] # None
      <4>1. held' = held
        BY <2>10
      <4>2. ClientsInv
        BY <1>1 DEF Basic, Clients
      <4>3. x \in {Local, Broken} \cup Imports \cup {Gated(f) : f \in Refs}
        BY <1>1, <2>4, WithKinds DEF x
      <4>4. [clients[d] EXCEPT !.cap = x] \in Client
        BY <2>5, <4>3 DEF Client
      <4> QED
        BY <3>2, <4>4, NoneFacts
    <3> QED
      BY <2>1, <2>5, <3>1, <3>2, <3>3 DEF TurnsTo
  <2>13. CASE embargo
    <3>1. With(m) = Local
      BY <2>13 DEF NeedsEmbargo
    <3>2. TurnsTo(m, d, Gated(d)) /\ GivesUp(Append(toB, Loopback(m.id, e)))
      BY <2>11, <2>12, <2>13
    <3>3. TurnsLater(m, d, e)
      BY <2>7, <2>9, <2>13, <3>1, <3>2 DEF TurnsLater
    <3> QED
      BY <1>1, <1>5, <2>10, <3>3
  <2>14. CASE ~ embargo
    <3>1. With(m) = Local => ~ clients[d].called
      BY <2>14 DEF NeedsEmbargo
    <3>2. TurnsTo(m, d, With(m)) /\ GivesUp(toB)
      BY <2>11, <2>12, <2>14
    <3>3. TurnsAtOnce(m, d)
      BY <2>9, <2>14, <3>1, <3>2 DEF TurnsAtOnce
    <3> QED
      BY <1>1, <1>5, <2>10, <3>3
  <2> QED
    BY <2>13, <2>14
<1> QED
  BY <1>1, <1>2, <1>3, <1>4, <1>5

\* What a Resolve says of an import: the export it names leads where the other
\* one does, or back to the importer.
LEMMA Announced ==
    ASSUME Sound, Straight, up["A"], up["B"], toA # <<>>, NEW m \in MessageA, m = Head(toA), m.type = "Resolve",
           imports[m.id] # None
    PROVE  /\ With(m) = Local => Target(m.id) = Peer
           /\ \A id \in Ids : With(m) = Import(id) => Target(id) = Target(m.id) /\ exports[id] # None
<1>1. toA[1] = m /\ 1 \in 1 .. Len(toA)
  <2>1. Shorter(toA, Tail(toA), m)
    BY SoundFacts, ShorterByTail
  <2> QED
    BY <2>1 DEF Shorter
<1>2. CASE m.desc # None
  <2>1. Announces(m) /\ Known(1, m.id)
    BY <1>2 DEF Announces, Known
  <2>2. Target(m.id) = Means(m.desc) /\ (m.desc.kind # "receiverHosted" => Exported(m.desc.id))
    BY <1>1, <2>1, SoundLive DEF Straight, ResolveInv, AnnouncedLive
  <2>3. With(m) = IF m.desc.kind = "receiverHosted" THEN Local ELSE Import(m.desc.id)
    BY <1>2 DEF With
  <2> QED
    BY <2>2, <2>3, ClientKinds DEF Means, Exported
<1>3. CASE m.desc = None
  BY <1>3, ClientKinds DEF With
<1> QED
  BY <1>2, <1>3

\* The client is told where the promise leads, and its calls go there.
LEMMA TurnsAtOnceLined ==
    ASSUME Sound, Sound', Lined, Straight, up["A"], toA # <<>>, NEW m \in MessageA, m = Head(toA),
           m.type = "Resolve", m.id \in Ids, toA' = Tail(toA),
           UNCHANGED <<up, fault, exporterVars, held, made, initiated>>,
           NEW c \in Refs, TurnsAtOnce(m, c)
    PROVE  Lined'
<1>1. /\ TurnsTo(m, c, With(m)) /\ (With(m) = Local => ~ clients[c].called)
      /\ UNCHANGED <<embargoes, gate>> /\ GivesUp(toB)
  BY DEF TurnsAtOnce
<1>2. \A T : Follows(toA, toA', T)
  BY SoundFacts, ChannelMoves
<1>3. Follows(toB, toB', {"Call"}) /\ Follows(toB, toB', {"Call", "SenderLoopback"})
  BY <1>1, SoundFacts, GivesUpFollows
<1>4. ASSUME up["A"], up["B"], NEW r \in Refs, NEW id \in Ids, Current(r, id)'
      PROVE  \E j \in Ids : Current(r, j) /\ Target(id) = Target(j) /\ exports[id] # None
  <2>1. CASE Current(r, id)
    BY <1>4, <2>1, CurrentLive
  <2>2. CASE held[r] = Promised(c) /\ clients'[c].cap = Import(id)
    <3>1. With(m) = Import(id) /\ imports[m.id] # None /\ Current(r, m.id)
      BY <1>1, <2>2 DEF TurnsTo, Current
    <3>2. Target(id) = Target(m.id) /\ exports[id] # None
      BY <1>4, <3>1, Announced
    <3> QED
      BY <3>1, <3>2
  <2> QED
    BY <1>1, <1>4, <2>1, <2>2 DEF Current, TurnsTo
<1>5. ImporterRests
  BY <1>1, <1>2, <1>3, <1>4 DEF ImporterRests
<1>6. Kinder
  <2>1. ASSUME NEW d \in Refs, clients'[d] # None
        PROVE  /\ clients[d] # None
               /\ clients'[d].cap = Local => clients[d].cap = Local \/ ~ clients[d].called
               /\ ~ clients'[d].called => ~ clients[d].called
               /\ clients'[d].cap = Gated(d) <=> gate'[d].st # "none"
    <3>1. CASE d # c
      BY <1>1, <2>1, <3>1 DEF TurnsTo, Lined, Holders, GateInv
    <3>2. CASE d = c
      <4>1. With(m) # Gated(c)
        BY WithKinds, ClientKinds DEF Imports
      <4> QED
        BY <1>1, <3>2, <4>1 DEF TurnsTo, NoGate
    <3> QED
      BY <3>1, <3>2
  <2> QED
    BY <1>1, <2>1 DEF Kinder, Lined, Holders, GateInv
<1> QED
  BY <1>1, <1>3, <1>5, <1>6, ImporterLined

\* A channel with a Disembargo behind what it had, and then at most a Release.
LEMMA LoopbackSent ==
    ASSUME NEW t \in Seq(MessageB), NEW x \in MessageB, x.type = "SenderLoopback", GivesUp(Append(t, x))
    PROVE  /\ Len(t) \in Nat /\ Len(t) + 1 <= Len(toB') /\ Len(toB') \in Nat
           /\ \A i \in 1 .. Len(t) : toB'[i] = t[i]
           /\ toB'[Len(t) + 1] = x
           /\ \A i \in 1 .. Len(toB') : i > Len(t) + 1 => toB'[i].type = "Release"
<1> DEFINE ms == Append(t, x)
<1>1. Len(t) \in Nat /\ ms \in Seq(MessageB) /\ Longer(t, ms, x)
  BY LongerByAppend
<1>2. GivesUp(ms)
  OBVIOUS
<1> HIDE DEF ms
<1>3. Len(ms) = Len(t) + 1 /\ (\A i \in 1 .. Len(t) : ms[i] = t[i]) /\ ms[Len(t) + 1] = x
  BY <1>1 DEF Longer
<1>4. CASE toB' = ms
  BY <1>1, <1>3, <1>4
<1>5. ASSUME NEW id \in Ids, NEW n \in Nat \ {0}, toB' = Append(ms, Release(id, n))
      PROVE  /\ Len(t) + 1 <= Len(toB') /\ Len(toB') \in Nat
             /\ \A i \in 1 .. Len(t) : toB'[i] = t[i]
             /\ toB'[Len(t) + 1] = x
             /\ \A i \in 1 .. Len(toB') : i > Len(t) + 1 => toB'[i].type = "Release"
  <2>1. Release(id, n) \in MessageB /\ Release(id, n).type = "Release"
    BY BMessages DEF Release
  <2>2. Longer(ms, toB', Release(id, n))
    BY <1>1, <1>5, <2>1, LongerByAppend
  <2>3. Len(toB') = Len(ms) + 1 /\ (\A i \in 1 .. Len(ms) : toB'[i] = ms[i]) /\ toB'[Len(ms) + 1].type = "Release"
    BY <2>1, <2>2 DEF Longer
  <2> QED
    BY <1>1, <1>3, <2>3
<1> QED
  BY <1>1, <1>2, <1>4, <1>5 DEF GivesUp

\* The client waits until the calls made through it have come back.
LEMMA TurnsLaterLined ==
    ASSUME Sound, Sound', Lined, Straight, up["A"], toA # <<>>, NEW m \in MessageA, m = Head(toA),
           m.type = "Resolve", m.id \in Ids, toA' = Tail(toA),
           UNCHANGED <<up, fault, exporterVars, held, made, initiated>>,
           NEW c \in Refs, NEW e \in Refs, TurnsLater(m, c, e)
    PROVE  Lined'
<1>1. /\ TurnsTo(m, c, Gated(c)) /\ With(m) = Local
      /\ embargoes[e] = None /\ embargoes' = [embargoes EXCEPT ![e] = c]
      /\ gate' = [gate EXCEPT ![c].st = "embargoed"] /\ GivesUp(Append(toB, Loopback(m.id, e)))
  BY DEF TurnsLater
<1>2. gate \in GateTable /\ embargoes \in EmbargoTable /\ gate[c] = NoGate
  BY <1>1, SoundFacts, ImporterTypes DEF TurnsTo
<1>3. /\ \A d \in Refs : gate'[d].calls = gate[d].calls /\ gate'[d].st = IF d = c THEN "embargoed" ELSE gate[d].st
      /\ \A f \in Refs : embargoes'[f] = IF f = e THEN c ELSE embargoes[f]
      /\ \A k : ~ Has(gate[c].calls, k)
  <2>1. gate[c].calls = <<>>
    BY <1>2 DEF NoGate
  <2> QED
    BY <1>1, <1>2, <2>1, CallSeqs DEF GateTable, Gate, EmbargoTable
<1> DEFINE x == Loopback(m.id, e)
<1>4. x \in MessageB /\ x.type = "SenderLoopback" /\ x.embargo = e
  BY BMessages DEF Loopback
<1> HIDE DEF x
<1>5. /\ Len(toB) \in Nat /\ Len(toB) + 1 <= Len(toB') /\ Len(toB') \in Nat
      /\ \A i \in 1 .. Len(toB) : toB'[i] = toB[i]
      /\ toB'[Len(toB) + 1] = x
      /\ \A i \in 1 .. Len(toB') : i > Len(toB) + 1 => toB'[i].type = "Release"
  <2>1. GivesUp(Append(toB, x))
    BY <1>1 DEF x
  <2> QED
    BY <1>4, <2>1, SoundFacts, LoopbackSent
<1>6. \A i \in 1 .. Len(toB') :
        \/ i \in 1 .. Len(toB) /\ toB'[i] = toB[i]
        \/ i = Len(toB) + 1 /\ toB'[i] = x
        \/ i > Len(toB) + 1 /\ toB'[i].type = "Release"
  BY <1>5
<1>7. \A T : Follows(toA, toA', T)
  BY SoundFacts, ChannelMoves
<1>8. Follows(toB, toB', {"Call"})
  <2>1. \A i \in 1 .. Len(toB') : toB'[i].type \notin {"Call"} \/ (i + 0 \in 1 .. Len(toB) /\ toB'[i] = toB[i + 0])
    BY <1>4, <1>5, <1>6
  <2> QED
    BY <2>1 DEF Follows
<1>9. ASSUME up["A"], up["B"], NEW r \in Refs, NEW id \in Ids, Current(r, id)' PROVE Current(r, id) /\ exports[id] # None
  <2>1. Gated(c) # Import(id)
    BY ClientKinds
  <2>2. Current(r, id)
    BY <1>1, <1>9, <2>1 DEF Current, TurnsTo
  <2> QED
    BY <1>9, <2>2, CurrentLive
<1>10. ImporterRests
  BY <1>3, <1>7, <1>8, <1>9 DEF ImporterRests
<1>11. /\ Flow' /\ Order' /\ Steady /\ \A r : Onward(r)
       /\ \A r \in Refs : Unborn(r)' => Unborn(r)
       /\ \A r \in Refs, d \in Caps : Heads(r, d) => Heads(r, d)'
  BY <1>10, ImporterStill
<1>12. Kinder
  <2>1. ASSUME NEW d \in Refs, clients'[d] # None
        PROVE  /\ clients[d] # None
               /\ clients'[d].cap = Local => clients[d].cap = Local \/ ~ clients[d].called
               /\ ~ clients'[d].called => ~ clients[d].called
               /\ clients'[d].cap = Gated(d) <=> gate'[d].st # "none"
    <3>1. CASE d # c
      BY <1>1, <1>3, <2>1, <3>1 DEF TurnsTo, Lined, Holders, GateInv
    <3>2. CASE d = c
      BY <1>1, <1>3, <3>2, ClientKinds DEF TurnsTo
    <3> QED
      BY <3>1, <3>2
  <2>2. \A d \in Refs, k \in Calls : Has(gate'[d].calls, k) => gate'[d].st \in {"embargoed", "released", "failed"}
    BY <1>3 DEF Lined, Holders, GateInv
  <2>3. \A d \in Refs : gate'[d].st \in {"released", "open"} => gate[d].st \in {"released", "open"}
    BY <1>3
  <2> QED
    BY <2>1, <2>2, <2>3 DEF Kinder
<1>13. Holders'
  BY <1>11, <1>12, HoldersFrame DEF Lined
<1>14. ASSUME NEW r \in Refs, NEW d \in Refs, NEW f \in Refs, Through(r, d)', embargoes'[f] = d, f # e
       PROVE  Flushed(r, f)'
  <2>1. Through(r, d)
    BY <1>11, <1>12, <1>14, ThroughLess DEF Kinder
  <2>2. Flushed(r, f)
    BY <1>3, <1>14, <2>1 DEF Lined, FlushInv
  <2>3. ASSUME NEW n \in 1 .. Len(toB'), Asks(toB'[n], f)
        PROVE  \E j \in 1 .. Len(toB) : toB[j] = toB'[n] /\ (NoneBehind(toB, j, r) => NoneBehind(toB', n, r))
    <3>1. n \in 1 .. Len(toB) /\ toB'[n] = toB[n]
      BY <1>4, <1>6, <1>14, <2>3 DEF Asks
    <3>2. ASSUME NoneBehind(toB, n, r), NEW i \in 1 .. Len(toB'), n < i, toB'[i].type = "Call" PROVE toB'[i].call[1] # r
      <4>1. i \in 1 .. Len(toB) /\ toB'[i] = toB[i]
        BY <1>4, <1>6, <3>2
      <4> QED
        BY <3>2, <4>1 DEF NoneBehind
    <3> QED
      BY <3>1, <3>2 DEF NoneBehind
  <2>4. AsksLag(r, f)
    BY <2>3 DEF AsksLag
  <2>5. up'["B"] => up["B"] /\ (Heads(r, Peer) => Heads(r, Peer)')
    BY <1>11, ConstantFacts
  <2>6. f \in replies' => f \in replies
    BY DEF exporterVars
  <2>7. Follows(toA, toA', {"Call", "ReceiverLoopback"})
    BY <1>7
  <2> QED
    BY <1>11, <2>2, <2>4, <2>5, <2>6, <2>7, FlushedLag
<1>15. Free(e)
  BY <1>1, SoundFacts DEF TokenInv
<1>16. ASSUME NEW r \in Refs, Through(r, c)' PROVE Flushed(r, e)'
  <2>1. held[r] = Promised(c)
    BY <1>3, <1>16 DEF Through, Waits
  <2>2. e \notin replies'
    BY <1>15 DEF Free, exporterVars
  <2>3. ASSUME NEW n \in 1 .. Len(toA') PROVE ~ Answers(toA'[n], e)
    <3>1. Shorter(toA, toA', m)
      BY SoundFacts, ShorterByTail
    <3>2. n + 1 \in 1 .. Len(toA) /\ toA'[n] = toA[n + 1]
      BY <2>3, <3>1 DEF Shorter
    <3> QED
      BY <1>15, <3>2 DEF Free
  <2>4. ASSUME up'["B"], NEW n \in 1 .. Len(toB'), Asks(toB'[n], e) PROVE Heads(r, Peer)' /\ NoneBehind(toB', n, r)
    <3>1. n = Len(toB) + 1
      BY <1>6, <1>15, <2>4 DEF Asks, Free
    <3>2. NoneBehind(toB', n, r)
      BY <1>6, <3>1 DEF NoneBehind
    <3>3. imports[m.id] # None /\ Current(r, m.id)
      BY <1>1, <2>1 DEF TurnsTo, Current
    <3>4. Heads(r, Peer)
      <4>1. Target(m.id) = Peer
        BY <1>1, <2>4, <3>3, Announced
      <4> QED
        BY <2>4, <3>3, <4>1 DEF Lined, Flow, CurrentInv
    <3> QED
      BY <1>11, <3>2, <3>4, ConstantFacts
  <2> QED
    BY <2>2, <2>3, <2>4 DEF Flushed
<1>17. FlushInv'
  <2> SUFFICES ASSUME NEW r \in Refs, NEW d \in Refs, NEW f \in Refs, Through(r, d)', embargoes'[f] = d PROVE Flushed(r, f)'
    BY DEF FlushInv
  <2>1. CASE f # e
    BY <1>14, <2>1
  <2>2. CASE f = e
    BY <1>3, <1>16, <2>2
  <2> QED
    BY <2>1, <2>2
<1> QED
  BY <1>11, <1>13, <1>17 DEF Lined

\* handle_resolve, whatever the Resolve says: the import was released, its
\* PromiseClient turns at once, or it waits for an embargo.
LEMMA HandleResolveLined ==
    ASSUME Sound, Sound', Lined, Straight, up["A"], toA # <<>>, HandleResolve(Head(toA))
    PROVE  Lined'
<1> DEFINE m == Head(toA)
<1>1. /\ m \in MessageA /\ m.type = "Resolve" /\ m.id \in Ids
      /\ \/ DisconnectA("not a promise", Tail(toA), HandedBack(m))
         \/ /\ UNCHANGED <<up, fault, exporterVars, held, made, initiated>> /\ toA' = Tail(toA)
            /\ \/ UNCHANGED <<clients, embargoes, gate>> /\ GivesUp(toB)
               \/ \E c \in Refs : TurnsAtOnce(m, c) \/ \E e \in Refs : TurnsLater(m, c, e)
  BY ResolveTurns
<1>2. CASE DisconnectA("not a promise", Tail(toA), HandedBack(m))
  BY <1>1, <1>2, DisconnectALined, ReturnsHandedBack, SoundFacts
<1>3. CASE /\ UNCHANGED <<up, fault, exporterVars, held, made, initiated>> /\ toA' = Tail(toA)
           /\ UNCHANGED <<clients, embargoes, gate>> /\ GivesUp(toB)
  BY <1>3, DropsLined
<1>4. CASE /\ UNCHANGED <<up, fault, exporterVars, held, made, initiated>> /\ toA' = Tail(toA)
           /\ \E c \in Refs : TurnsAtOnce(m, c) \/ \E e \in Refs : TurnsLater(m, c, e)
  BY <1>1, <1>4, TurnsAtOnceLined, TurnsLaterLined
<1> QED
  BY <1>1, <1>2, <1>3, <1>4

-----------------------------------------------------------------------------
(* A call is made *)

\* Its number, and what every call leaves alone.
Numbered(r) == <<r, made + 1>>
CallMade(r) ==
    /\ held[r] # Nothing /\ made \in Nat /\ made' = made + 1 /\ Numbered(r) \in Calls
    /\ UNCHANGED <<up, toA, exporterVars, held, embargoes>>
    /\ \A c \in Refs :
        /\ clients'[c] # None <=> clients[c] # None
        /\ clients[c] # None => clients'[c].cap = clients[c].cap
        /\ ~ clients'[c].called => ~ clients[c].called /\ held[r] # Promised(c)

\* It fails at once, begins at once, is sent to the exporter, or waits for the
\* embargo of its client.
CallFails == UNCHANGED <<toB, initiated, gate>>
CallBegins(r) == UNCHANGED <<toB, gate>> /\ initiated' = Append(initiated, Numbered(r))
CallIsSent(r, id) ==
    /\ up["A"] /\ UNCHANGED <<initiated, gate>>
    /\ toB' = Append(toB, [type |-> "Call", id |-> id, call |-> Numbered(r)])
CallIsHeld(r, c) ==
    /\ UNCHANGED <<toB, initiated>>
    /\ gate' = [gate EXCEPT ![c].calls = Append(@, Numbered(r))]

\* The client that is called, as Call reads it.
LEMMA CallEffect ==
    ASSUME Sound, Sound', NEW r \in Refs, Call(r)
    PROVE  /\ CallMade(r)
           /\ \/ CallFails
              \/ (Cap(r) = Local \/ \E c \in Refs : held[r] = Promised(c) /\ gate[c].st = "open") /\ CallBegins(r)
              \/ \E id \in Ids : Cap(r) = Import(id) /\ CallIsSent(r, id)
              \/ \E c \in Refs : /\ held[r] = Promised(c) /\ Cap(r) = Gated(c) /\ gate[c].st \notin {"open", "broken"}
                                 /\ CallIsHeld(r, c)
           /\ \A c \in Refs : held[r] = Promised(c) => clients[c] # None /\ Cap(r) = clients[c].cap
           /\ (\A c \in Refs : held[r] # Promised(c)) => Cap(r) = held[r]
<1> DEFINE call == <<r, made + 1>>
           cap == Cap(r)
           c == held[r][2]
           pc == held[r][1] = "promise"
           sent == [type |-> "Call", id |-> cap[2], call |-> call]
<1>1. /\ TypeOK /\ held[r] # Nothing /\ made \in Nat /\ call \in Calls /\ made' = made + 1
      /\ UNCHANGED <<up, toA, fault, exporterVars, held, imports, old, embargoes>>
      /\ clients \in ClientTable
  <2>1. TypeOK
    BY SoundFacts
  <2>2. held[r] # Nothing /\ made' = made + 1 /\ UNCHANGED <<up, toA, fault, exporterVars, held, imports, old, embargoes>>
    BY DEF Call
  <2>3. made \in Nat
    BY <2>1 DEF TypeOK
  <2> QED
    BY <2>1, <2>2, <2>3, ImporterTypes DEF Calls
<1>2. /\ clients' = IF pc THEN [clients EXCEPT ![c].called = TRUE] ELSE clients
      /\ toB' = IF cap[1] = "import" /\ up["A"] THEN Append(toB, sent) ELSE toB
      /\ initiated' = IF cap = Local \/ (cap[1] = "queue" /\ gate[cap[2]].st = "open")
                      THEN Append(initiated, call) ELSE initiated
      /\ gate' = IF cap[1] = "queue" /\ gate[cap[2]].st \notin {"open", "broken"}
                 THEN [gate EXCEPT ![cap[2]].calls = Append(@, call)] ELSE gate
  BY DEF Call, Cap
<1>3. \/ ~ pc /\ cap = held[r] /\ cap \in {Local} \cup Imports /\ \A d \in Refs : held[r] # Promised(d)
      \/ /\ pc /\ c \in Refs /\ held[r] = Promised(c) /\ clients[c] \in Client /\ clients[c] # None
         /\ cap = clients[c].cap /\ cap \in {Local, Broken, Gated(c)} \cup Imports
  <2>1. CASE held[r][1] # "promise" /\ held[r] \in {Local} \cup Imports /\ Cap(r) = held[r]
    BY <2>1, ClientKinds DEF Imports
  <2>2. ASSUME NEW d \in Refs, held[r] = Promised(d), held[r][1] = "promise", held[r][2] = d,
               clients[d] \in Client, clients[d] # None, Cap(r) = clients[d].cap,
               Cap(r) \in {Local, Broken, Gated(d)} \cup Imports
        PROVE  /\ pc /\ c \in Refs /\ held[r] = Promised(c) /\ clients[c] \in Client /\ clients[c] # None
               /\ cap = clients[c].cap /\ cap \in {Local, Broken, Gated(c)} \cup Imports
    BY <2>2
  <2> QED
    BY <1>1, <2>1, <2>2, CapFound, SoundFacts
<1> HIDE DEF pc, c, cap
<1>4. /\ \A d \in Refs : held[r] = Promised(d) => clients[d] # None /\ cap = clients[d].cap
      /\ (\A d \in Refs : held[r] # Promised(d)) => cap = held[r]
  BY <1>3, ClientKinds
<1>5. CallMade(r)
  <2> SUFFICES ASSUME NEW d \in Refs
               PROVE  /\ clients'[d] # None <=> clients[d] # None
                      /\ clients[d] # None => clients'[d].cap = clients[d].cap
                      /\ ~ clients'[d].called => ~ clients[d].called /\ held[r] # Promised(d)
    BY <1>1 DEF CallMade, Numbered
  <2>1. CASE ~ pc
    BY <1>2, <1>3, <2>1
  <2>2. CASE pc
    <3>1. /\ [clients[c] EXCEPT !.called = TRUE].cap = clients[c].cap
          /\ [clients[c] EXCEPT !.called = TRUE].called = TRUE
          /\ [clients[c] EXCEPT !.called = TRUE] # None
      <4>1. [clients[c] EXCEPT !.called = TRUE] \in Client /\ [clients[c] EXCEPT !.called = TRUE].cap = clients[c].cap
            /\ [clients[c] EXCEPT !.called = TRUE].called = TRUE
        BY <1>3, <2>2 DEF Client
      <4> QED
        BY <4>1, NoneFacts
    <3>2. \A x \in Refs : clients'[x] = IF x = c THEN [clients[c] EXCEPT !.called = TRUE] ELSE clients[x]
      BY <1>1, <1>2, <1>3, <2>2 DEF ClientTable
    <3>3. CASE d = c
      BY <1>3, <2>2, <3>1, <3>2, <3>3
    <3>4. CASE d # c
      BY <1>3, <2>2, <3>2, <3>4, ClientKinds
    <3> QED
      BY <3>3, <3>4
  <2> QED
    BY <2>1, <2>2
<1>6. \/ CallFails
      \/ (cap = Local \/ \E d \in Refs : held[r] = Promised(d) /\ gate[d].st = "open") /\ CallBegins(r)
      \/ \E id \in Ids : cap = Import(id) /\ CallIsSent(r, id)
      \/ \E d \in Refs : /\ held[r] = Promised(d) /\ cap = Gated(d) /\ gate[d].st \notin {"open", "broken"}
                         /\ CallIsHeld(r, d)
  <2>1. CASE cap = Local
    <3>1. cap[1] # "import" /\ cap[1] # "queue"
      BY <2>1, ClientKinds
    <3> QED
      BY <1>2, <2>1, <3>1 DEF CallBegins, Numbered
  <2>2. CASE cap = Broken
    <3>1. cap[1] # "import" /\ cap[1] # "queue" /\ cap # Local
      BY <2>2, ClientKinds
    <3> QED
      BY <1>2, <3>1 DEF CallFails
  <2>3. ASSUME NEW id \in Ids, cap = Import(id)
        PROVE  CallFails \/ CallIsSent(r, id)
    <3>1. cap[1] = "import" /\ cap[1] # "queue" /\ cap # Local /\ cap[2] = id
      BY <2>3, ClientKinds
    <3> QED
      BY <1>2, <3>1 DEF CallFails, CallIsSent, Numbered
  <2>4. ASSUME pc, c \in Refs, held[r] = Promised(c), cap = Gated(c)
        PROVE  \/ CallFails
               \/ gate[c].st = "open" /\ CallBegins(r)
               \/ gate[c].st \notin {"open", "broken"} /\ CallIsHeld(r, c)
    <3>1. cap[1] # "import" /\ cap[1] = "queue" /\ cap # Local /\ cap[2] = c
      BY <2>4, ClientKinds
    <3> QED
      BY <1>2, <3>1 DEF CallFails, CallBegins, CallIsHeld, Numbered
  <2> QED
    BY <1>3, <2>1, <2>2, <2>3, <2>4 DEF Imports
<1> QED
  BY <1>4, <1>5, <1>6 DEF cap

\* What a call finds: nothing that was called before it waits for an embargo,
\* unless its own client does.
LEMMA CallFinds ==
    ASSUME Sound, Lined, NEW r \in Refs, held[r] # Nothing
    PROVE  /\ ~ Unborn(r)
           /\ \A c \in Refs : Waits(r, c) => held[r] = Promised(c) /\ gate[c].st \in {"embargoed", "released", "failed"}
           /\ \A c \in Refs : \A d : clients[c] # None /\ clients[c].cap = d /\ d # Gated(c)
                                    => gate[c].st = "none" /\ ~ Waits(r, c)
<1>1. ASSUME Unborn(r) PROVE FALSE
  <2>1. r \in Unused
    BY <1>1, SoundFacts DEF Unborn, Basic, Clients, RefsInv
  <2> QED
    BY <2>1 DEF Unused
<1>2. ASSUME NEW c \in Refs, Waits(r, c) PROVE held[r] = Promised(c) /\ gate[c].st \in {"embargoed", "released", "failed"}
  BY <1>2 DEF Lined, Holders, WaitInv, GateInv, Waits
<1>3. ASSUME NEW c \in Refs, clients[c] # None, clients[c].cap # Gated(c) PROVE gate[c].st = "none" /\ ~ Waits(r, c)
  <2>1. gate[c].st = "none"
    BY <1>3 DEF Lined, Holders, GateInv
  <2> QED
    BY <1>2, <2>1
<1> QED
  BY <1>1, <1>2, <1>3

\* The calls of the other references stay where they are.
LEMMA CallHolders ==
    ASSUME Sound, Lined, NEW r \in Refs, CallMade(r),
           \A s \in Refs : s # r => Onward(s),
           \A c \in Refs : Waits(r, c)' => held[r] = Promised(c),
           \A c \in Refs : gate'[c].st = gate[c].st,
           \A c \in Refs, k \in Calls : Has(gate'[c].calls, k) => gate'[c].st \in {"embargoed", "released", "failed"},
           (Idle(r) => Idle(r)') \/ \A c \in Refs : Through(r, c) => gate[c].st \notin {"released", "open"},
           Onward(r) \/ (held[r] # Local /\ \A c \in Refs : held[r] = Promised(c) => clients[c].cap # Local)
    PROVE  Holders'
<1>1. UNCHANGED <<up, toA, held, embargoes>> /\ gives' = gives /\ held[r] # Nothing
  BY DEF CallMade, exporterVars
<1>2. UnbornInv'
  <2> SUFFICES ASSUME NEW s \in Refs, Unborn(s)' PROVE Resting(s)'
    BY DEF UnbornInv
  <2>1. Unborn(s)
    BY <1>1 DEF Unborn
  <2>2. s # r
    BY <1>1, <2>1, CallFinds
  <2> QED
    BY <2>1, <2>2, OnwardFacts DEF Lined, Holders, UnbornInv
<1>3. WaitInv'
  <2> SUFFICES ASSUME NEW s \in Refs, NEW c \in Refs, Waits(s, c)'
               PROVE  held[s] \in {Nothing, Promised(c)} /\ \A d \in Refs : Waits(s, d)' => d = c
    BY <1>1 DEF WaitInv
  <2>1. CASE s = r
    BY <2>1, ClientKinds
  <2>2. CASE s # r
    <3>1. Waits(s, c) /\ \A d \in Refs : Waits(s, d)' => Waits(s, d)
      BY <2>2, OnwardFacts
    <3> QED
      BY <3>1 DEF Lined, Holders, WaitInv
  <2> QED
    BY <2>1, <2>2
<1>4. GateInv'
  BY DEF GateInv, Lined, Holders, CallMade
<1>5. RestInv'
  <2>1. ASSUME NEW s \in Refs, held[s] = Local PROVE Resting(s)'
    BY <2>1, OnwardFacts DEF Lined, Holders, RestInv
  <2>2. ASSUME NEW s \in Refs, NEW c \in Refs, held[s] = Promised(c), clients'[c] # None,
               clients'[c].cap = Local \/ ~ clients'[c].called
        PROVE  Resting(s)'
    <3>1. /\ clients[c] # None /\ clients'[c].cap = clients[c].cap
          /\ clients[c].cap = Local \/ (~ clients[c].called /\ s # r)
      BY <2>2 DEF CallMade
    <3>2. Onward(s)
      BY <2>2, <3>1
    <3> QED
      BY <2>2, <3>1, <3>2, OnwardFacts DEF Lined, Holders, RestInv
  <2> QED
    BY <1>1, <2>1, <2>2 DEF RestInv
<1>6. ThroughInv'
  <2> SUFFICES ASSUME NEW s \in Refs, NEW c \in Refs, Through(s, c)', gate[c].st \in {"released", "open"} PROVE Idle(s)'
    BY DEF ThroughInv
  <2>1. Through(s, c)
    BY <1>1, OnwardFacts DEF Through
  <2>2. Idle(s)
    BY <2>1 DEF Lined, Holders, ThroughInv
  <2> QED
    BY <2>1, <2>2, OnwardFacts
<1> QED
  BY <1>2, <1>3, <1>4, <1>5, <1>6 DEF Holders

\* A call that is not sent is in nobody's way on the connection.
Unsent == UNCHANGED <<toB, up, toA, exporterVars>>

\* All that is on its way stays on its way.
LEMMA UnsentKeeps ==
    ASSUME Unsent, NEW r
    PROVE  /\ (Idle(r) => Idle(r)') /\ (Arrived(r) => Arrived(r)')
           /\ \A d : Heads(r, d) => Heads(r, d)'
           /\ \A e : Flushed(r, e) => Flushed(r, e)'
<1>1. UNCHANGED <<toB, up, toA, queued, exports, res, replies>>
  BY DEF Unsent, exporterVars
<1>2. \A id : Target(id)' = Target(id)
  BY <1>1 DEF Target, Ends
<1>3. \A k : Passing(k)' <=> Passing(k)
  BY <1>1 DEF Passing
<1>4. Arrived(r)' <=> Arrived(r)
  BY <1>3 DEF Arrived
<1>5. Idle(r)' <=> Idle(r)
  BY <1>1, <1>4 DEF Idle
<1>6. \A d : Heads(r, d) => Heads(r, d)'
  BY <1>1, <1>2 DEF Heads
<1>7. \A e : Flushed(r, e) => Flushed(r, e)'
  BY <1>1, <1>4, <1>6 DEF Flushed
<1> QED
  BY <1>4, <1>5, <1>6, <1>7

\* The ends of the calls, and what a Disembargo has flushed, stay as they were.
LEMMA UnsentFlow ==
    ASSUME Sound, Lined, NEW r \in Refs, CallMade(r), toB' = toB, \A s, c \in Refs : Through(s, c)' => Through(s, c)
    PROVE  Flow' /\ FlushInv'
<1>1. Unsent /\ UNCHANGED <<up, held, embargoes>>
  BY DEF Unsent, CallMade
<1>2. ASSUME NEW s \in Refs, NEW id \in Ids, Current(s, id)', up["A"], up["B"] PROVE Heads(s, Target(id))'
  <2>1. Current(s, id)
    <3>1. ASSUME NEW c \in Refs, held[s] = Promised(c) PROVE clients'[c].cap = clients[c].cap
      BY <3>1, SoundFacts DEF Basic, Clients, ClientsInv, CallMade
    <3> QED
      BY <1>1, <1>2, <3>1 DEF Current
  <2>2. Heads(s, Target(id))
    BY <1>2, <2>1 DEF Lined, Flow, CurrentInv
  <2>3. Target(id)' = Target(id)
    BY <1>1 DEF Target, Ends, Unsent, exporterVars
  <2>4. PICK d : d = Target(id)
    OBVIOUS
  <2>5. Heads(s, d)'
    BY <1>1, <2>2, <2>4, UnsentKeeps
  <2>6. d' = d
    OBVIOUS
  <2> QED
    BY <2>3, <2>4, <2>5 DEF Heads
<1>3. Flow'
  BY <1>1, <1>2, UnsentKeeps DEF Lined, Flow, FlowInv, CurrentInv
<1>4. FlushInv'
  BY <1>1, UnsentKeeps DEF Lined, FlushInv
<1> QED
  BY <1>3, <1>4

\* No call of r is at a later stage than those named.
LEMMA CallLine ==
    ASSUME Lined, NEW r \in Refs, CallMade(r), NEW i \in 1 .. 5,
           \A n \in 1 .. 5, k \in Calls : AtStage(n, k)' => AtStage(n, k) \/ (n = i /\ k = Numbered(r)),
           \A n \in 1 .. 5, l \in Calls : i < n /\ AtStage(n, l) => l[1] # r
    PROVE  LineInv' /\ NumberInv'
<1>1. LineInv /\ NumberInv /\ made \in Nat /\ made' = made + 1
  BY DEF Lined, Order, CallMade
<1>2. Numbered(r)[1] = r /\ Numbered(r)[2] = made + 1
  BY DEF Numbered
<1>3. \A n \in 1 .. 5, k \in Calls : AtStage(n, k)' => AtStage(n, k) \/ (n = i /\ k[1] = r /\ k[2] = made + 1)
  BY <1>2
<1> QED
  BY ONLY <1>1, <1>3, i \in 1 .. 5, \A n \in 1 .. 5, l \in Calls : i < n /\ AtStage(n, l) => l[1] # r, LineNew

\* It is the last of its reference.
LEMMA CallLast ==
    ASSUME Sound, Lined, NEW r \in Refs, CallMade(r)
    PROVE  /\ Numbered(r) \in Calls /\ Numbered(r)[1] = r
           /\ \A n \in 1 .. 5, k \in Calls : AtStage(n, k) => Less(k, Numbered(r))
<1>1. Numbered(r) \in Calls /\ Numbered(r)[1] = r /\ Numbered(r)[2] = made + 1 /\ made \in Nat
  BY DEF CallMade, Numbered
<1>2. ASSUME NEW n \in 1 .. 5, NEW k \in Calls, AtStage(n, k) PROVE Less(k, Numbered(r))
  <2>1. k[2] <= made /\ k[2] \in Nat
    BY <1>2 DEF Lined, Order, NumberInv, Calls
  <2> QED
    BY <1>1, <2>1 DEF Less
<1> QED
  BY <1>1, <1>2

\* A sequence of calls, extended by a greater one.
LEMMA CallAppended ==
    ASSUME NEW s \in Seq(Calls), NEW k \in Calls, NEW t, t = Append(s, k)
    PROVE  /\ \A l : Has(t, l) <=> Has(s, l) \/ l = k
           /\ Sorted(s) /\ (\A l \in Calls : Has(s, l) => Less(l, k)) => Sorted(t)
<1>1. PICK u \in Seq(Calls) : u = <<k>>
  <2>1. <<k>> \in Seq(Calls)
    OBVIOUS
  <2> QED
    BY <2>1
<1>2. t = s \o u
  <2>1. Append(s, k) = s \o <<k>>
    OBVIOUS
  <2> QED
    BY <1>1, <2>1
<1>3. Sorted(u) /\ \A l : Has(u, l) <=> l = k
  BY <1>1, CallSeqs
<1>4. \A l : Has(s, l) => l \in Calls
  BY CallSeqs
<1> QED
  BY <1>2, <1>3, <1>4, CallSeqsJoined

\* A call that fails at once.
LEMMA CallFailsLined ==
    ASSUME Sound, Sound', Lined, NEW r \in Refs, CallMade(r), CallFails
    PROVE  Lined'
<1>1. Unsent /\ UNCHANGED <<toB, toA, queued, initiated, gate, held>>
  BY DEF Unsent, CallMade, CallFails, exporterVars
<1>2. held[r] # Nothing
  BY DEF CallMade
<1>3. \A s : Onward(s)
  BY <1>1 DEF Onward, Passing
<1>4. \A s, c \in Refs : Through(s, c)' => Through(s, c)
  BY <1>1 DEF Through, Waits
<1>5. Flow' /\ FlushInv'
  BY <1>1, <1>4, UnsentFlow
<1>6. \A c \in Refs : Waits(r, c)' => held[r] = Promised(c)
  BY <1>2, <1>3, OnwardFacts, CallFinds
<1>7. \A c \in Refs, k \in Calls : Has(gate'[c].calls, k) => gate'[c].st \in {"embargoed", "released", "failed"}
  BY <1>1 DEF Lined, Holders, GateInv
<1>8. Holders'
  BY <1>1, <1>3, <1>6, <1>7, OnwardFacts, CallHolders
<1>9. SortInv'
  BY <1>1 DEF Lined, Order, SortInv
<1>10. LineInv' /\ NumberInv'
  <2>1. \A n \in 1 .. 5, k \in Calls : AtStage(n, k)' => AtStage(n, k)
    BY <1>1 DEF AtStage
  <2>2. 5 \in 1 .. 5 /\ \A n \in 1 .. 5 : ~ 5 < n
    OBVIOUS
  <2> QED
    BY <2>1, <2>2, CallLine
<1> QED
  BY <1>5, <1>8, <1>9, <1>10 DEF Lined, Order

\* A call to a capability of this vat begins at once; none is on its way there.
LEMMA CallBeginsLined ==
    ASSUME Sound, Sound', Lined, NEW r \in Refs, CallMade(r), CallBegins(r), Resting(r)
    PROVE  Lined'
<1>1. Unsent /\ UNCHANGED <<toB, toA, queued, gate, held>>
  BY DEF Unsent, CallMade, CallBegins, exporterVars
<1>2. held[r] # Nothing
  BY DEF CallMade
<1>3. \A s : Onward(s)
  BY <1>1 DEF Onward, Passing
<1>4. \A s, c \in Refs : Through(s, c)' => Through(s, c)
  BY <1>1 DEF Through, Waits
<1>5. Flow' /\ FlushInv'
  BY <1>1, <1>4, UnsentFlow
<1>6. \A c \in Refs : Waits(r, c)' => held[r] = Promised(c)
  BY <1>2, <1>3, OnwardFacts, CallFinds
<1>7. \A c \in Refs, k \in Calls : Has(gate'[c].calls, k) => gate'[c].st \in {"embargoed", "released", "failed"}
  BY <1>1 DEF Lined, Holders, GateInv
<1>8. Holders'
  BY <1>1, <1>3, <1>6, <1>7, OnwardFacts, CallHolders
<1>9. (\A l : Has(initiated', l) <=> Has(initiated, l) \/ l = Numbered(r)) /\ Sorted(initiated')
  <2>1. initiated \in Seq(Calls) /\ initiated' = Append(initiated, Numbered(r)) /\ Numbered(r) \in Calls
    BY SoundFacts, CallLast DEF TypeOK, CallBegins
  <2>2. \A l \in Calls : Has(initiated, l) => Less(l, Numbered(r))
    BY StageFacts, CallLast
  <2> QED
    BY <2>1, <2>2, CallAppended DEF Lined, Order, SortInv
<1>10. SortInv'
  BY <1>1, <1>9 DEF Lined, Order, SortInv
<1>11. LineInv' /\ NumberInv'
  <2>1. ASSUME NEW n \in 1 .. 5, NEW k \in Calls, AtStage(n, k)' PROVE AtStage(n, k) \/ (n = 1 /\ k = Numbered(r))
    <3>1. n \in {1, 2, 3, 4, 5}
      OBVIOUS
    <3>2. CASE n = 1
      BY <1>9, <2>1, <3>2, StageFacts
    <3>3. CASE n \in {2, 3, 4, 5}
      BY <1>1, <2>1, <3>3, StageFacts
    <3> QED
      BY <3>1, <3>2, <3>3
  <2>2. ASSUME NEW n \in 1 .. 5, NEW l \in Calls, 1 < n, AtStage(n, l) PROVE l[1] # r
    <3>1. n \in {2, 3, 4, 5}
      BY <2>2
    <3> QED
      BY <2>2, <3>1, StageFacts DEF Resting, Idle, Arrived, Passing, Waits
  <2> QED
    BY <2>1, <2>2, CallLine
<1> QED
  BY <1>5, <1>8, <1>10, <1>11 DEF Lined, Order

\* A call that waits for the embargo of its client.
LEMMA CallIsHeldLined ==
    ASSUME Sound, Sound', Lined, NEW r \in Refs, CallMade(r), NEW b \in Refs, CallIsHeld(r, b),
           held[r] = Promised(b), Cap(r) = Gated(b), clients[b] # None, clients[b].cap = Gated(b),
           gate[b].st \in {"embargoed", "released", "failed"}
    PROVE  Lined'
<1>1. Unsent /\ UNCHANGED <<toB, toA, queued, initiated, held>>
  BY DEF Unsent, CallMade, CallIsHeld, exporterVars
<1>2. held[r] # Nothing
  BY DEF CallMade
<1>3. PICK k \in Calls : k = Numbered(r) /\ k[1] = r
  BY CallLast
<1>4. /\ \A c \in Refs : c # b => gate'[c] = gate[c]
      /\ gate'[b].st = gate[b].st
      /\ \A l : Has(gate'[b].calls, l) <=> Has(gate[b].calls, l) \/ l = k
      /\ Sorted(gate'[b].calls)
  <2>1. gate \in GateTable /\ gate[b] \in Gate
    BY SoundFacts, ImporterTypes DEF GateTable
  <2>2. /\ \A c \in Refs : c # b => gate'[c] = gate[c]
        /\ gate'[b].st = gate[b].st
        /\ gate'[b].calls = Append(gate[b].calls, k)
        /\ gate[b].calls \in Seq(Calls)
    BY <1>3, <2>1 DEF CallIsHeld, GateTable, Gate
  <2>3. \A l \in Calls : Has(gate[b].calls, l) => Less(l, k)
    BY <1>3, StageFacts, CallLast
  <2>4. Sorted(gate[b].calls)
    BY DEF Lined, Order, SortInv
  <2>5. PICK q \in Seq(Calls) : q = gate[b].calls
    BY <2>2
  <2>6. PICK t : t = gate'[b].calls /\ t = Append(q, k)
    BY <2>2, <2>5
  <2>7. (\A l : Has(t, l) <=> Has(q, l) \/ l = k) /\ Sorted(t)
    BY <2>3, <2>4, <2>5, <2>6, CallAppended
  <2> QED
    BY <2>2, <2>5, <2>6, <2>7
<1>5. ASSUME NEW c \in Refs, NEW l \in Calls, Has(gate'[c].calls, l) PROVE Has(gate[c].calls, l) \/ (c = b /\ l = k)
  BY <1>4, <1>5
<1>6. ASSUME NEW s \in Refs, s # r PROVE Onward(s)
  BY <1>1, <1>3, <1>5, <1>6 DEF Onward, Passing
<1>7. ASSUME NEW s \in Refs, NEW c \in Refs, Waits(s, c)' PROVE Waits(s, c) \/ (s = r /\ c = b)
  BY <1>3, <1>5, <1>7 DEF Waits
<1>8. \A s, c \in Refs : Through(s, c)' => Through(s, c)
  BY <1>1, <1>7 DEF Through
<1>9. Flow' /\ FlushInv'
  BY <1>1, <1>8, UnsentFlow
<1>10. \A c \in Refs : Waits(r, c)' => held[r] = Promised(c)
  BY <1>2, <1>7, CallFinds
<1>11. \A c \in Refs, l \in Calls : Has(gate'[c].calls, l) => gate'[c].st \in {"embargoed", "released", "failed"}
  BY <1>4 DEF Lined, Holders, GateInv
<1>12. Holders'
  <2>1. \A c \in Refs : gate'[c].st = gate[c].st
    BY <1>4
  <2>2. Idle(r) => Idle(r)'
    BY <1>1, UnsentKeeps
  <2>3. held[r] # Local /\ \A c \in Refs : held[r] = Promised(c) => clients[c].cap # Local
    BY ClientKinds
  <2> QED
    BY <1>6, <1>10, <1>11, <2>1, <2>2, <2>3, CallHolders
<1>13. SortInv'
  BY <1>1, <1>4 DEF Lined, Order, SortInv
<1>14. LineInv' /\ NumberInv'
  <2>1. ASSUME NEW n \in 1 .. 5, NEW l \in Calls, AtStage(n, l)' PROVE AtStage(n, l) \/ (n = 5 /\ l = Numbered(r))
    <3>1. n \in {1, 2, 3, 4, 5}
      OBVIOUS
    <3>2. CASE n = 5
      BY <1>3, <1>5, <2>1, <3>2, StageFacts
    <3>3. CASE n \in {1, 2, 3, 4}
      BY <1>1, <2>1, <3>3, StageFacts
    <3> QED
      BY <3>1, <3>2, <3>3
  <2>2. 5 \in 1 .. 5 /\ \A n \in 1 .. 5 : ~ 5 < n
    OBVIOUS
  <2> QED
    BY <2>1, <2>2, CallLine
<1> QED
  BY <1>9, <1>12, <1>13, <1>14 DEF Lined, Order

\* A call that is sent to the exporter, over the import its reference stands for.
LEMMA CallIsSentLined ==
    ASSUME Sound, Sound', Lined, NEW r \in Refs, CallMade(r), NEW id \in Ids, CallIsSent(r, id),
           Current(r, id), \A c \in Refs : held[r] = Promised(c) => clients[c] # None /\ clients[c].cap = Import(id),
           (\A c \in Refs : held[r] # Promised(c)) => held[r] = Import(id)
    PROVE  Lined'
<1>1. UNCHANGED <<up, toA, queued, res, exports, replies, initiated, gate, held, embargoes>>
  BY DEF CallMade, CallIsSent, exporterVars
<1>2. held[r] # Nothing
  BY DEF CallMade
<1>3. PICK k \in Calls : k = Numbered(r) /\ k[1] = r
  BY CallLast
<1>4. PICK m \in MessageB : m = [type |-> "Call", id |-> id, call |-> k]
  BY BMessages
<1>5. m.type = "Call" /\ m.id = id /\ m.call = k
  BY <1>4
<1>6. toB' = Append(toB, m) /\ toB \in Seq(MessageB)
  BY <1>3, <1>4, SoundFacts DEF CallIsSent, TypeOK
<1>7. Longer(toB, toB', m)
  BY <1>6, LongerByAppend
<1>8. /\ \A l : CarriesCall(toB', l) => CarriesCall(toB, l) \/ l = k
      /\ \A l, j : CarriesTo(toB', l, j) => CarriesTo(toB, l, j) \/ (l = k /\ j = id)
      /\ SortedCalls(toB) /\ (\A l : CarriesCall(toB, l) => Less(l, k)) => SortedCalls(toB')
  BY <1>5, <1>7, LongerCalls
<1>9. \A c \in Refs : ~ Waits(r, c)
  BY <1>2, ClientKinds, CallFinds
<1>10. \A c \in Refs : Through(r, c) => gate[c].st = "none"
  BY <1>2, <1>9, ClientKinds, CallFinds DEF Through
<1>11. ASSUME NEW s \in Refs, s # r PROVE Onward(s)
  BY <1>1, <1>3, <1>8, <1>11 DEF Onward, Passing
<1>12. \A s, c \in Refs : Through(s, c)' <=> Through(s, c)
  BY <1>1 DEF Through, Waits
<1>13. Steady
  BY <1>1 DEF Steady, Target, Ends
<1>14. ASSUME NEW s \in Refs, s # r, NEW d, Heads(s, d) PROVE Heads(s, d)'
  BY <1>1, <1>3, <1>8, <1>13, <1>14, HeadsStay
<1>15. \A j : Target(j)' = Target(j)
  BY <1>1 DEF Target, Ends
<1>16. ASSUME NEW d, Heads(r, d), up["B"] => d = Target(id) PROVE Heads(r, d)'
  BY <1>1, <1>8, <1>15, <1>16 DEF Heads
<1>17. up["A"] /\ up["B"] => Heads(r, Target(id)) /\ Target(id) \in Caps
  BY CurrentLive DEF Lined, Flow, CurrentInv
<1>18. ASSUME NEW s \in Refs, NEW j \in Ids, Current(s, j)'
       PROVE  Current(s, j) /\ (s = r => j = id)
  <2>1. ASSUME NEW c \in Refs, held[s] = Promised(c) PROVE clients'[c].cap = clients[c].cap
    BY <2>1, SoundFacts DEF Basic, Clients, ClientsInv, CallMade
  <2>2. Current(s, j)
    BY <1>1, <1>18, <2>1 DEF Current
  <2>3. s = r => j = id
    BY <2>2, ClientKinds DEF Current
  <2> QED
    BY <2>2, <2>3
<1>19. FlowInv'
  <2> SUFFICES ASSUME NEW s \in Refs PROVE \E d \in Caps : Heads(s, d)'
    BY DEF FlowInv
  <2>1. PICK d \in Caps : Heads(s, d) /\ (s = r /\ up["B"] => d = Target(id))
    BY <1>17 DEF Lined, Flow, FlowInv, CallIsSent
  <2> QED
    BY <1>14, <1>16, <2>1
<1>20. CurrentInv'
  <2> SUFFICES ASSUME up["A"], up["B"], NEW s \in Refs, NEW j \in Ids, Current(s, j)' PROVE Heads(s, Target(j))'
    BY <1>1 DEF CurrentInv
  <2>1. PICK d : d = Target(j)
    OBVIOUS
  <2>2. Heads(s, d) /\ (s = r => d = Target(id))
    BY <1>18, <2>1 DEF Lined, Flow, CurrentInv
  <2>3. Heads(s, d)'
    BY <1>14, <1>16, <2>2
  <2> QED
    BY <1>15, <2>1, <2>3 DEF Heads
<1>21. FlushInv'
  <2> SUFFICES ASSUME NEW s \in Refs, NEW c \in Refs, NEW e \in Refs, Through(s, c), embargoes[e] = c PROVE Flushed(s, e)'
    BY <1>1, <1>12 DEF FlushInv
  <2>1. gate[c].st = "embargoed"
    BY ConstantFacts, SoundFacts DEF Basic, Clients, EmbargoInv
  <2>2. s # r
    BY <1>10, <2>1
  <2>3. Flushed(s, e)
    BY DEF Lined, FlushInv
  <2>4. AsksLag(s, e)
    <3> SUFFICES ASSUME NEW n \in 1 .. Len(toB'), Asks(toB'[n], e)
                 PROVE  \E j \in 1 .. Len(toB) : toB[j] = toB'[n] /\ (NoneBehind(toB, j, s) => NoneBehind(toB', n, s))
      BY DEF AsksLag
    <3>1. Len(toB) \in Nat /\ Len(toB') = Len(toB) + 1 /\ toB'[Len(toB) + 1] = m /\ \A i \in 1 .. Len(toB) : toB'[i] = toB[i]
      BY <1>7 DEF Longer
    <3>2. n \in 1 .. Len(toB) /\ toB[n] = toB'[n]
      BY <1>5, <3>1 DEF Asks
    <3>3. \A i \in 1 .. Len(toB') : i \in 1 .. Len(toB) \/ toB'[i].call[1] # s
      BY <1>3, <1>5, <2>2, <3>1
    <3>4. NoneBehind(toB, n, s) => NoneBehind(toB', n, s)
      BY <3>1, <3>3 DEF NoneBehind
    <3> QED
      BY <3>2, <3>4
  <2>5. up'["B"] => up["B"] /\ (Heads(s, Peer) => Heads(s, Peer)')
    BY <1>1, <1>14, <2>2
  <2>6. (e \in replies' => e \in replies) /\ Follows(toA, toA', {"Call", "ReceiverLoopback"})
    BY <1>1, SoundFacts, ChannelMoves
  <2> QED
    BY <1>11, <2>2, <2>3, <2>4, <2>5, <2>6, FlushedLag
<1>22. Holders'
  <2>1. \A c \in Refs : Waits(r, c)' => held[r] = Promised(c)
    BY <1>1, <1>9 DEF Waits
  <2>2. \A c \in Refs : gate'[c].st = gate[c].st
    BY <1>1
  <2>3. \A c \in Refs, l \in Calls : Has(gate'[c].calls, l) => gate'[c].st \in {"embargoed", "released", "failed"}
    BY <1>1 DEF Lined, Holders, GateInv
  <2>4. \A c \in Refs : Through(r, c) => gate[c].st \notin {"released", "open"}
    BY <1>10
  <2>5. held[r] # Local /\ \A c \in Refs : held[r] = Promised(c) => clients[c].cap # Local
    BY ClientKinds
  <2> QED
    BY <1>11, <2>1, <2>2, <2>3, <2>4, <2>5, CallHolders
<1>23. SortInv'
  <2>1. \A l : CarriesCall(toB, l) => Less(l, k)
    <3>1. \A l : CarriesCall(toB, l) => l \in Calls
      BY SoundFacts, MessageBFields DEF CarriesCall
    <3> QED
      BY <1>3, <3>1, StageFacts, CallLast
  <2> QED
    BY <1>1, <1>8, <2>1 DEF Lined, Order, SortInv
<1>24. LineInv' /\ NumberInv'
  <2>1. ASSUME NEW n \in 1 .. 5, NEW l \in Calls, AtStage(n, l)' PROVE AtStage(n, l) \/ (n = 4 /\ l = Numbered(r))
    <3>1. n \in {1, 2, 3, 4, 5}
      OBVIOUS
    <3>2. CASE n = 4
      BY <1>3, <1>8, <2>1, <3>2, StageFacts
    <3>3. CASE n \in {1, 2, 3, 5}
      BY <1>1, <2>1, <3>3, StageFacts
    <3> QED
      BY <3>1, <3>2, <3>3
  <2>2. ASSUME NEW n \in 1 .. 5, NEW l \in Calls, 4 < n, AtStage(n, l) PROVE l[1] # r
    <3>1. n = 5
      BY <2>2
    <3> QED
      BY <1>9, <2>2, <3>1, StageFacts DEF Waits
  <2> QED
    BY <2>1, <2>2, CallLine
<1> QED
  BY <1>19, <1>20, <1>21, <1>22, <1>23, <1>24 DEF Lined, Flow, Order

\* Request::send keeps the calls in line: the new call goes behind all that
\* were made through its reference before.
LEMMA CallLined ==
    ASSUME Sound, Sound', Lined, NEW r \in Refs, Call(r)
    PROVE  Lined'
<1>1. CallMade(r) /\ held[r] # Nothing
  BY CallEffect DEF CallMade
<1>2. /\ \A c \in Refs : held[r] = Promised(c) => clients[c] # None /\ Cap(r) = clients[c].cap
      /\ (\A c \in Refs : held[r] # Promised(c)) => Cap(r) = held[r]
  BY CallEffect
<1>3. CASE CallFails
  BY <1>1, <1>3, CallFailsLined
<1>4. CASE (Cap(r) = Local \/ \E c \in Refs : held[r] = Promised(c) /\ gate[c].st = "open") /\ CallBegins(r)
  <2>1. CASE Cap(r) = Local
    <3>1. Resting(r)
      BY <1>2, <2>1 DEF Lined, Holders, RestInv
    <3> QED
      BY <1>1, <1>4, <3>1, CallBeginsLined
  <2>2. ASSUME NEW c \in Refs, held[r] = Promised(c), gate[c].st = "open" PROVE Lined'
    <3>1. Idle(r)
      BY <2>2 DEF Lined, Holders, ThroughInv, Through
    <3>2. \A d \in Refs : ~ Waits(r, d)
      BY <1>1, <2>2, ClientKinds, CallFinds
    <3> QED
      BY <1>1, <1>4, <3>1, <3>2, CallBeginsLined DEF Resting
  <2> QED
    BY <1>4, <2>1, <2>2
<1>5. ASSUME NEW id \in Ids, Cap(r) = Import(id), CallIsSent(r, id) PROVE Lined'
  <2>1. Current(r, id)
    BY <1>2, <1>5 DEF Current
  <2>2. \A c \in Refs : held[r] = Promised(c) => clients[c] # None /\ clients[c].cap = Import(id)
    BY <1>2, <1>5
  <2>3. (\A c \in Refs : held[r] # Promised(c)) => held[r] = Import(id)
    BY <1>2, <1>5
  <2> QED
    BY <1>1, <1>5, <2>1, <2>2, <2>3, CallIsSentLined
<1>6. ASSUME NEW c \in Refs, held[r] = Promised(c), Cap(r) = Gated(c), gate[c].st \notin {"open", "broken"}, CallIsHeld(r, c)
      PROVE  Lined'
  <2>1. clients[c] # None /\ clients[c].cap = Gated(c)
    BY <1>2, <1>6
  <2>2. gate[c].st \in {"embargoed", "released", "failed"}
    <3>1. gate[c].st # "none"
      BY <2>1 DEF Lined, Holders, GateInv
    <3>2. gate[c] \in Gate
      BY SoundFacts, ImporterTypes DEF GateTable
    <3> QED
      BY <1>6, <3>1, <3>2 DEF Gate
  <2> QED
    BY <1>1, <1>6, <2>1, <2>2, CallIsHeldLined
<1> QED
  BY <1>3, <1>4, <1>5, <1>6, CallEffect

-----------------------------------------------------------------------------
(* The theorem *)

\* The inductive invariant of CallsInOrder.
Ordered == Straightened /\ Lined

\* No call is made yet.
LEMMA LinedInit == Init => Lined
<1> SUFFICES ASSUME Init PROVE Lined
  OBVIOUS
<1>1. Len(<<>>) = 0
  OBVIOUS
<1>2. \A k : ~ Has(<<>>, k) /\ ~ CarriesCall(<<>>, k)
  BY <1>1 DEF Has, CarriesCall
<1>3. /\ toA = <<>> /\ toB = <<>> /\ initiated = <<>> /\ replies = {} /\ gives = 0 /\ made = 0
      /\ \A p \in Promises : queued[p] = <<>>
      /\ \A r \in Refs : /\ held[r] = Nothing /\ clients[r] = None /\ embargoes[r] = None
                         /\ gate[r].calls = <<>> /\ gate[r].st = "none"
  BY DEF Init, NoGate
<1>4. \A r \in Refs : Resting(r)
  BY <1>2, <1>3 DEF Resting, Idle, Arrived, Passing, Waits
<1>5. \A r, c \in Refs : ~ Through(r, c)
  BY <1>3, <1>4, ClientKinds DEF Through, Resting
<1>6. Flow
  <2>1. FlowInv
    BY <1>4, IdleHeads, ConstantFacts DEF FlowInv, Resting
  <2>2. CurrentInv
    BY <1>4, IdleHeads DEF CurrentInv, Resting
  <2> QED
    BY <2>1, <2>2 DEF Flow
<1>7. Holders
  <2>1. UnbornInv /\ RestInv
    BY <1>4 DEF UnbornInv, RestInv
  <2>2. WaitInv /\ ThroughInv
    BY <1>4, <1>5 DEF WaitInv, ThroughInv, Resting
  <2>3. GateInv
    BY <1>2, <1>3 DEF GateInv
  <2> QED
    BY <2>1, <2>2, <2>3 DEF Holders
<1>8. FlushInv
  BY <1>5 DEF FlushInv
<1>9. Order
  <2>1. \A n \in 1 .. 5, k \in Calls : ~ AtStage(n, k)
    BY <1>2, <1>3 DEF AtStage
  <2>2. Sorted(<<>>) /\ SortedCalls(<<>>)
    BY <1>1 DEF Sorted, SortedCalls
  <2>3. SortInv
    BY <1>3, <2>2 DEF SortInv
  <2> QED
    BY <2>1, <2>3 DEF Order, LineInv, NumberInv
<1> QED
  BY <1>6, <1>7, <1>8, <1>9 DEF Lined

\* Whatever the importer reads.
LEMMA HandleALined ==
    ASSUME Sound, Sound', Straight, Lined, HandleA \/ LoseA
    PROVE  Lined'
<1>1. CASE LoseA
  BY <1>1, DisconnectALined DEF LoseA, Returns
<1>2. CASE HandleA
  <2>1. up["A"] /\ toA # <<>>
    BY <1>2 DEF HandleA
  <2>2. CASE ReceiveCap(Head(toA))
    BY <2>1, <2>2, ReceiveCapLined
  <2>3. CASE HandleResolve(Head(toA))
    BY <2>1, <2>3, HandleResolveLined
  <2>4. CASE HandleCallA(Head(toA))
    BY <2>1, <2>4, HandleCallALined
  <2>5. CASE HandleReceiverLoopback(Head(toA))
    BY <2>1, <2>5, HandleReceiverLoopbackLined
  <2>6. CASE HandleAbortA(Head(toA))
    BY <2>1, <2>6, DisconnectALined DEF HandleAbortA, Returns
  <2> QED
    BY <1>2, <2>2, <2>3, <2>4, <2>5, <2>6 DEF HandleA
<1> QED
  BY <1>1, <1>2

\* Whatever the exporter reads.
LEMMA HandleBLined ==
    ASSUME Sound, Sound', Lined, HandleB \/ LoseB
    PROVE  Lined'
<1>1. CASE LoseB
  BY <1>1, DisconnectBLined DEF LoseB
<1>2. CASE HandleB
  <2>1. up["B"] /\ toB # <<>>
    BY <1>2 DEF HandleB
  <2>2. CASE HandleCall(Head(toB))
    BY <2>1, <2>2, HandleCallLined
  <2>3. CASE HandleRelease(Head(toB))
    BY <2>1, <2>3, HandleReleaseLined
  <2>4. CASE HandleSenderLoopback(Head(toB))
    BY <2>1, <2>4, HandleSenderLoopbackLined
  <2>5. CASE HandleAbortB(Head(toB))
    BY <2>1, <2>5, DisconnectBLined DEF HandleAbortB
  <2> QED
    BY <1>2, <2>2, <2>3, <2>4, <2>5 DEF HandleB
<1> QED
  BY <1>1, <1>2

\* Every action that redirects no export but its own promise's keeps Ordered.
LEMMA OrderedNext == Ordered /\ [Next]_vars /\ [~ StrayRedirect]_vars => Ordered'
<1> SUFFICES ASSUME Straightened, Lined, [Next]_vars, [~ StrayRedirect]_vars PROVE Ordered'
  BY DEF Ordered
<1>1. Straightened'
  BY StraightNext
<1>2. Sound /\ Straight /\ Sound'
  BY <1>1 DEF Straightened
<1>3. CASE UNCHANGED vars
  <2>1. UNCHANGED <<up, toA, toB, exporterVars, held, clients, embargoes, gate, made, initiated>>
    BY <1>3 DEF vars, importerVars
  <2>2. GivesUp(toB)
    BY <2>1 DEF GivesUp
  <2> QED
    BY <1>1, <1>2, <2>1, <2>2, DropsLined DEF Ordered
<1>4. CASE HandleA \/ LoseA
  BY <1>1, <1>2, <1>4, HandleALined DEF Ordered
<1>5. CASE HandleB \/ LoseB
  BY <1>1, <1>2, <1>5, HandleBLined DEF Ordered
<1>6. ASSUME NEW t \in tasks, ResolveTask(t), ~ StrayRedirect PROVE Ordered'
  BY <1>1, <1>2, <1>6, TaskLined DEF Ordered
<1>7. ASSUME NEW e \in replies, Reply(e) PROVE Ordered'
  BY <1>1, <1>2, <1>7, ReplyLined DEF Ordered
<1>8. ASSUME NEW c \in Refs, DropOld(c) \/ DriveGate(c) \/ Abandon(c) PROVE Ordered'
  BY <1>1, <1>2, <1>8, DropOldLined, DriveGateLined, AbandonLined DEF Ordered
<1>9. ASSUME NEW p \in Promises, NEW c \in Caps, ResolvePromise(p, c) PROVE Ordered'
  BY <1>1, <1>2, <1>9, ResolvePromiseLined DEF Ordered
<1>10. ASSUME NEW c \in Givable, Give(c) PROVE Ordered'
  BY <1>1, <1>2, <1>10, GiveLined DEF Ordered
<1>11. ASSUME NEW r \in Refs, Call(r) \/ DropRef(r) PROVE Ordered'
  BY <1>1, <1>2, <1>11, CallLined, DropRefLined DEF Ordered
<1> QED
  BY <1>3, <1>4, <1>5, <1>6, <1>7, <1>8, <1>9, <1>10, <1>11 DEF Next

\* Calls made through one reference begin, in whichever vat, in the order they
\* were made in, through any chain of resolutions and embargoes and whatever is
\* released or lost meanwhile, as long as resolve_exported_promise redirects no
\* entry but its own promise's: PromiseClient::resolve holds back the calls to a
\* capability that comes home until the Disembargo, sent behind the earlier ones,
\* has come back.
THEOREM CallsInOrder == Spec /\ NoStrayRedirect => []CallOrder
<1>1. Init => Ordered
  BY StraightInit, LinedInit DEF Ordered
<1>2. Ordered /\ [Next]_vars /\ [~ StrayRedirect]_vars => Ordered'
  BY OrderedNext
<1>3. Ordered => CallOrder
  <2> SUFFICES ASSUME Ordered PROVE CallOrder
    OBVIOUS
  <2>1. initiated \in Seq(Calls) /\ Sorted(initiated)
    BY SoundFacts DEF Ordered, Straightened, Lined, Order, SortInv, TypeOK
  <2>2. DOMAIN initiated = 1 .. Len(initiated)
    BY <2>1
  <2> QED
    BY <2>1, <2>2 DEF Sorted, Less, CallOrder
<1> QED
  BY <1>1, <1>2, <1>3, PTL DEF Spec, NoStrayRedirect

=============================================================================
