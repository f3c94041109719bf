--------------------------- MODULE ReconnectProofs ---------------------------
(***************************************************************************)
(* Proofs about Reconnect, for every set of calls and every bound:         *)
(*   - TypeCorrect: the state keeps its type;                              *)
(*   - FailedTargetsAbandoned: a target a call has failed on is not used   *)
(*     for further calls;                                                  *)
(*   - HealthyTargetsKept: a late failure does not give up a target that   *)
(*     works.                                                              *)
(* Every change of the target bumps the generation or the count of         *)
(* set_target, and gives the client a target nobody has called yet: this   *)
(* is what the conjuncts of Inv say.                                       *)
(***************************************************************************)
EXTENDS Reconnect, TLAPS

\* There is a target for every generation but the first, and no target
\* before the first call of a lazy client.
TargetsCounted ==
    /\ generation <= made
    /\ current = None => made = 0

\* A call that was sent in an earlier generation is not on the current
\* target.
LateCallsElsewhere ==
    \A c \in Calls : call[c].st = "sent" /\ call[c].gen # generation =>
        current # call[c].target

\* A request built since the last change of the target is for it.
EpochsNameTargets ==
    \A c \in Calls : call[c].st # "idle" =>
        /\ call[c].epoch[1] <= generation /\ call[c].epoch[2] <= sets
        /\ call[c].epoch = Epoch => call[c].target = current

Inv ==
    /\ TypeOK
    /\ TargetsCounted
    /\ LateCallsElsewhere
    /\ FailedTargetAbandoned
    /\ EpochsNameTargets

\* No call has been made by a client that has no target yet.
LEMMA NoTargetNoCall ==
    ASSUME Inv, current = None
    PROVE  \A c \in Calls : call[c].st = "idle"
<1>1. made = 0
  BY DEF Inv, TargetsCounted
<1>2. \A c \in Calls : call[c].st # "idle" => call[c].target \in 1 .. made
  BY DEF Inv, TypeOK
<1>3. 1 .. 0 = {}
  OBVIOUS
<1> QED
  BY <1>1, <1>2, <1>3

\* What connect and set_target do to the target: a fresh one, past all that
\* calls have been made on.
LEMMA NewTargetIsFresh ==
    ASSUME TypeOK, NEW h \in {"alive", "dead", "broken"}, NewTarget(h)
    PROVE  /\ made' = made + 1 /\ made' \in 0 .. MaxTargets
           /\ current' = made' /\ current' \in 1 .. made'
           /\ current' \notin 1 .. made
           /\ health' \in [Targets -> {"unused", "alive", "dead", "broken"}]
           /\ current' # None /\ current' \in Targets
  BY BoundsAssumption, NoneAssumption DEF TypeOK, NewTarget, Targets

\* A new client, lazy or not, satisfies the invariant.
LEMMA InitInv == Init => Inv
<1> SUFFICES ASSUME Init PROVE Inv
  OBVIOUS
<1>1. 1 \in Targets /\ None # 1
  BY BoundsAssumption, NoneAssumption DEF Targets
<1>2. \A c \in Calls : call[c].st = "idle"
  BY DEF Init
<1>3. TypeOK
  BY <1>1, BoundsAssumption DEF Init, TypeOK
<1> QED
  BY <1>1, <1>2, <1>3 DEF Init, Inv, TargetsCounted, LateCallsElsewhere,
       FailedTargetAbandoned, EpochsNameTargets

\* get_current keeps the target, or makes the first one.
LEMMA GetCurrentTarget ==
    ASSUME Inv, GetCurrent
    PROVE  /\ made' \in 0 .. MaxTargets /\ made <= made' /\ generation <= made'
           /\ health' \in [Targets -> {"unused", "alive", "dead", "broken"}]
           /\ current' \in 1 .. made' /\ current' # None /\ current' \in Targets
           /\ current # None => current' = current
<1>1. CASE current = None
  BY <1>1, NewTargetIsFresh DEF Inv, TypeOK, TargetsCounted, GetCurrent, Connect
<1>2. CASE current # None
  <2>1. UNCHANGED <<current, made, health>>
    BY <1>2 DEF GetCurrent
  <2>2. current \in 1 .. made /\ made \in 0 .. MaxTargets /\ generation <= made
    BY <1>2 DEF Inv, TypeOK, TargetsCounted
  <2>3. current \in Targets
    BY <2>2, BoundsAssumption DEF Targets
  <2> QED
    BY <1>2, <2>1, <2>2, <2>3 DEF Inv, TypeOK
<1> QED
  BY <1>1, <1>2

\* Making a call, by new_call or call: only the record of c changes, and it
\* is for the target the client has now.
LEMMA MakeCall ==
    ASSUME Inv, NEW c \in Calls, NEW st \in {"built", "sent"},
           NEW gen \in {0, generation}, st = "sent" => gen = generation,
           call[c].st = "idle", GetCurrent,
           call' = [call EXCEPT ![c] = [st |-> st, target |-> current',
                                        gen |-> gen, epoch |-> Epoch]],
           UNCHANGED <<generation, sets>>
    PROVE  Inv'
<1> DEFINE r == [st |-> st, target |-> current', gen |-> gen, epoch |-> Epoch]
<1>1. /\ call'[c] = r
      /\ \A d \in Calls : d # c => call'[d] = call[d]
      /\ call' \in [Calls -> [st : {"idle", "built", "sent", "disconnected",
                                    "finished"},
                              target : Targets \cup {None}, gen : Nat,
                              epoch : Nat \X Nat]]
  BY GetCurrentTarget, BoundsAssumption DEF Inv, TypeOK, Epoch
<1>2. \A d \in Calls : d # c /\ call[d].st # "idle" => current' = current
  BY NoTargetNoCall, GetCurrentTarget
<1>3. TypeOK'
  <2>1. \A d \in Calls : call'[d].st # "idle" => call'[d].target \in 1 .. made'
    BY <1>1, GetCurrentTarget DEF Inv, TypeOK
  <2> QED
    BY <1>1, <2>1, GetCurrentTarget DEF Inv, TypeOK
<1>4. TargetsCounted'
  BY GetCurrentTarget DEF TargetsCounted
<1>5. LateCallsElsewhere' /\ FailedTargetAbandoned'
  BY <1>1, <1>2 DEF Inv, LateCallsElsewhere, FailedTargetAbandoned
<1>6. EpochsNameTargets'
  BY <1>1, <1>2 DEF Inv, TypeOK, EpochsNameTargets, Epoch
<1> QED
  BY <1>3, <1>4, <1>5, <1>6 DEF Inv

\* Request::send: the call is of this generation.
LEMMA SendInv ==
    ASSUME Inv, NEW c \in Calls, Send(c)
    PROVE  Inv'
<1>1. call' \in [Calls -> [st : {"idle", "built", "sent", "disconnected",
                                "finished"},
                          target : Targets \cup {None}, gen : Nat,
                          epoch : Nat \X Nat]]
  <2> DEFINE Record == [st : {"idle", "built", "sent", "disconnected", "finished"},
                        target : Targets \cup {None}, gen : Nat,
                        epoch : Nat \X Nat]
             r == [call[c] EXCEPT !.st = "sent", !.gen = generation]
  <2>1. call \in [Calls -> Record] /\ call[c] \in Record /\ generation \in Nat
    BY DEF Inv, TypeOK
  <2>2. r \in Record
    BY <2>1
  <2>3. call' = [call EXCEPT ![c] = r]
    BY <2>1 DEF Send
  <2> HIDE DEF r, Record
  <2>4. call' \in [Calls -> Record]
    BY <2>1, <2>2, <2>3
  <2> QED
    BY <2>4 DEF Record
<1>2. /\ call'[c].st = "sent" /\ call'[c].gen = generation
      /\ call'[c].target = call[c].target /\ call'[c].epoch = call[c].epoch
      /\ \A d \in Calls : d # c => call'[d] = call[d]
      /\ call[c].st = "built"
      /\ UNCHANGED <<current, generation, made, health, sets>>
  BY DEF Inv, TypeOK, Send
<1>3. TypeOK'
  <2>1. \A d \in Calls : call'[d].st # "idle" => call'[d].target \in 1 .. made
    BY <1>2 DEF Inv, TypeOK
  <2> QED
    BY <1>1, <1>2, <2>1 DEF Inv, TypeOK
<1>4. TargetsCounted' /\ LateCallsElsewhere' /\ FailedTargetAbandoned'
  BY <1>2 DEF Inv, TargetsCounted, LateCallsElsewhere, FailedTargetAbandoned
<1>5. EpochsNameTargets'
  BY <1>2 DEF Inv, EpochsNameTargets, Epoch
<1> QED
  BY <1>3, <1>4, <1>5 DEF Inv

\* The end of a call that reconnects nothing.
LEMMA FinishInv ==
    ASSUME Inv, NEW c \in Calls, NEW st \in {"disconnected", "finished"},
           call[c].st = "sent",
           st = "disconnected" => call[c].gen # generation,
           call' = [call EXCEPT ![c].st = st],
           UNCHANGED <<current, generation, made, health, sets>>
    PROVE  Inv'
<1>1. /\ call'[c] = [call[c] EXCEPT !.st = st]
      /\ \A d \in Calls : d # c => call'[d] = call[d]
  BY DEF Inv, TypeOK
<1>2. TypeOK'
  BY <1>1 DEF Inv, TypeOK
<1>3. TargetsCounted' /\ LateCallsElsewhere'
  BY <1>1 DEF Inv, TypeOK, TargetsCounted, LateCallsElsewhere
<1>4. FailedTargetAbandoned'
  BY <1>1 DEF Inv, TypeOK, FailedTargetAbandoned, TargetsCounted, LateCallsElsewhere
<1>5. EpochsNameTargets'
  BY <1>1 DEF Inv, TypeOK, EpochsNameTargets, Epoch
<1> QED
  BY <1>2, <1>3, <1>4, <1>5 DEF Inv

\* The first failure of a generation.
LEMMA ReconnectInv ==
    ASSUME Inv, NEW c \in Calls, call[c].st = "sent",
           call' = [call EXCEPT ![c].st = "disconnected"],
           generation' = generation + 1, Connect, UNCHANGED sets
    PROVE  Inv'
<1>1. /\ call'[c] = [call[c] EXCEPT !.st = "disconnected"]
      /\ \A d \in Calls : d # c => call'[d] = call[d]
      /\ \A d \in Calls : /\ call'[d].target = call[d].target
                          /\ call'[d].epoch = call[d].epoch
                          /\ call'[d].st # "idle" <=> call[d].st # "idle"
  BY DEF Inv, TypeOK
<1>2. PICK h \in {"alive", "dead", "broken"} : NewTarget(h)
  BY DEF Connect
<1>3. /\ made' = made + 1 /\ made' \in 0 .. MaxTargets
      /\ current' = made' /\ current' \in 1 .. made'
      /\ current' \notin 1 .. made /\ current' # None
      /\ health' \in [Targets -> {"unused", "alive", "dead", "broken"}]
  BY <1>2, NewTargetIsFresh DEF Inv
<1>4. TypeOK' /\ TargetsCounted'
  <2>0. generation \in Nat /\ generation <= made /\ made \in Nat
    BY DEF Inv, TypeOK, TargetsCounted
  <2>1. generation' <= made' /\ generation' \in 0 .. MaxTargets
    BY <1>3, <2>0, BoundsAssumption
  <2>2. \A d \in Calls : call'[d].st # "idle" => call'[d].target \in 1 .. made'
    BY <1>1, <1>3 DEF Inv, TypeOK
  <2>3. call' \in [Calls -> [st : {"idle", "built", "sent", "disconnected",
                                    "finished"},
                              target : Targets \cup {None}, gen : Nat,
                              epoch : Nat \X Nat]]
    BY DEF Inv, TypeOK
  <2> QED
    BY <1>3, <2>1, <2>2, <2>3 DEF Inv, TypeOK, TargetsCounted
<1>5. \A d \in Calls : call'[d].st # "idle" => current' # call'[d].target
  BY <1>1, <1>3 DEF Inv, TypeOK
<1>6. LateCallsElsewhere' /\ FailedTargetAbandoned'
  BY <1>5 DEF LateCallsElsewhere, FailedTargetAbandoned
<1>7. EpochsNameTargets'
  BY <1>1 DEF Inv, TypeOK, EpochsNameTargets, Epoch
<1> QED
  BY <1>4, <1>6, <1>7 DEF Inv

\* set_target leaves the generation, and counts itself.
LEMMA SetTargetInv == ASSUME Inv, SetTarget PROVE Inv'
<1>1. /\ made' = made + 1 /\ made' \in 0 .. MaxTargets
      /\ current' = made' /\ current' \in 1 .. made'
      /\ current' \notin 1 .. made /\ current' # None
      /\ health' \in [Targets -> {"unused", "alive", "dead", "broken"}]
      /\ sets' = sets + 1 /\ sets' \in 0 .. MaxSets
      /\ UNCHANGED <<generation, call>>
  BY NewTargetIsFresh, BoundsAssumption DEF Inv, TypeOK, SetTarget
<1>2. TypeOK' /\ TargetsCounted'
  BY <1>1 DEF Inv, TypeOK, TargetsCounted
<1>3. \A d \in Calls : call'[d].st # "idle" => current' # call'[d].target
  BY <1>1 DEF Inv, TypeOK
<1>4. LateCallsElsewhere' /\ FailedTargetAbandoned'
  BY <1>3 DEF LateCallsElsewhere, FailedTargetAbandoned
<1>5. EpochsNameTargets'
  BY <1>1 DEF Inv, TypeOK, EpochsNameTargets, Epoch
<1> QED
  BY <1>2, <1>4, <1>5 DEF Inv

\* Every step keeps the invariant.
LEMMA NextInv == ASSUME Inv, [Next]_vars PROVE Inv'
<1>1. ASSUME NEW c \in Calls, NewCall(c) PROVE Inv'
  BY <1>1, MakeCall DEF NewCall
<1>2. ASSUME NEW c \in Calls, Call(c) PROVE Inv'
  BY <1>2, MakeCall DEF Call
<1>3. ASSUME NEW c \in Calls, FailDisconnected(c) PROVE Inv'
  <2>1. CASE MustReconnect(c)
    BY <1>3, <2>1, ReconnectInv DEF FailDisconnected
  <2>2. CASE ~ MustReconnect(c)
    BY <1>3, <2>2, FinishInv DEF FailDisconnected, MustReconnect
  <2> QED
    BY <2>1, <2>2
<1>4. ASSUME NEW c \in Calls, Finish(c) PROVE Inv'
  BY <1>4, FinishInv DEF Finish
<1>5. ASSUME NEW t \in Targets, Die(t) PROVE Inv'
  BY <1>5 DEF Die, Inv, TypeOK, TargetsCounted, LateCallsElsewhere,
       FailedTargetAbandoned, EpochsNameTargets, Epoch
<1>6. CASE UNCHANGED vars
  BY <1>6 DEF vars, Inv, TypeOK, TargetsCounted, LateCallsElsewhere,
       FailedTargetAbandoned, EpochsNameTargets, Epoch
<1> QED
  BY <1>1, <1>2, <1>3, <1>4, <1>5, <1>6, SendInv, SetTargetInv DEF Next

\* The inductive invariant.
LEMMA Invariance == Spec => []Inv
<1>1. Init => Inv
  BY InitInv
<1>2. Inv /\ [Next]_vars => Inv'
  BY NextInv
<1> QED
  BY <1>1, <1>2, PTL DEF Spec

\* Every call goes to a target there is, and there are never more
\* generations than targets.
THEOREM TypeCorrect == Spec => []TypeOK
<1>1. Inv => TypeOK
  BY DEF Inv
<1> QED
  BY <1>1, Invariance, PTL

\* Once a call has failed with Disconnected, the client no longer uses the
\* target it failed on: auto_reconnect "deals with the calls that come
\* after".
THEOREM FailedTargetsAbandoned == Spec => []FailedTargetAbandoned
<1>1. Inv => FailedTargetAbandoned
  BY DEF Inv
<1> QED
  BY <1>1, Invariance, PTL

\* The condition in wrap never gives up a healthy target for a call that was
\* built and sent in one generation with no set_target since.
THEOREM HealthyTargetsKept == Spec => HealthyTargetKept
<1> DEFINE Kept == \A c \in Calls :
        FailDisconnected(c) /\ call[c].epoch = <<call[c].gen, sets>> =>
            current' = current \/ health[current] # "alive"
<1>1. Inv => Kept
  <2> SUFFICES ASSUME Inv, NEW c \in Calls, FailDisconnected(c),
                      call[c].epoch = <<call[c].gen, sets>>
               PROVE  current' = current \/ health[current] # "alive"
    OBVIOUS
  <2>1. CASE MustReconnect(c)
    BY <2>1 DEF Inv, EpochsNameTargets, Epoch, MustReconnect, FailDisconnected
  <2>2. CASE ~ MustReconnect(c)
    BY <2>2 DEF FailDisconnected
  <2> QED
    BY <2>1, <2>2
<1>2. Inv /\ [Next]_vars => [Kept]_vars
  BY <1>1
<1> QED
  BY <1>2, Invariance, PTL DEF Spec, HealthyTargetKept
=============================================================================
