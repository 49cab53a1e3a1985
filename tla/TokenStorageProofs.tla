-------------------------- MODULE TokenStorageProofs ---------------------------
(***************************************************************************)
(* Proofs about TokenStorage, on every platform, for any number of logins  *)
(* and restarts.                                                           *)
(***************************************************************************)
EXTENDS TokenStorage, SequenceTheorems, TLAPS

TokenKeys == {"access", "refresh"}

Writes(call, k) == call.method = "write" /\ call.key = k

\* Nothing, or the token of the latest login.
Fresh(map, k) == map[k] \in {NoValue, logins}

\* No token of a login that was not, and no access token of a later login than
\* the refresh token's.
Good(map) ==
  /\ map \in Map
  /\ \A k \in TokenKeys : map[k] <= logins
  /\ map["access"] # NoValue /\ map["refresh"] # NoValue => map["access"] <= map["refresh"]

\* The calls a flow may have to make.
PlanOK(plan) ==
  \A i \in 1 .. Len(plan) :
    /\ plan[i].swallowed => plan[i].key = "marker"
    /\ \A k \in TokenKeys : Writes(plan[i], k) => plan[i].value = logins

\* An access token is written only where the refresh token is fresh, or will be.
OnTrack(map, plan) ==
  \A i \in 1 .. Len(plan) :
    Writes(plan[i], "access") =>
      Fresh(map, "refresh") \/ \E j \in 1 .. Len(plan) : j < i /\ Writes(plan[j], "refresh")

\* Both tokens are fresh, or will be.
Whole(map, plan) ==
  \A k \in TokenKeys : Fresh(map, k) \/ \E i \in 1 .. Len(plan) : Writes(plan[i], k)

\* What reads see.
Current ==
  CASE platform = "web"     -> memory
    [] platform = "linux"   -> keyring
    [] platform = "android" -> preferences
    [] platform = "windows" -> content

\* A save is under way, or was the last flow to end well.
InSave == saving # NoValue /\ (todo # <<>> \/ saved # NoValue)

StoresAreGood == Good(keyring) /\ Good(memory) /\ Good(preferences) /\ Good(prefsFile) /\ Good(content)

PlanInv ==
  /\ PlanOK(todo)
  /\ OnTrack(Current, todo)
  /\ InSave => saving = logins /\ Whole(Current, todo)
  /\ saved \in {NoValue, saving}
  /\ todo # <<>> => saved = NoValue

\* A change of the Windows file that is under way carries the plan on.
StageInv ==
  stage \in {"save", "writing", "retry"} =>
    /\ platform = "windows" /\ todo # <<>>
    /\ Good(loaded) /\ OnTrack(loaded, Tail(todo))
    /\ InSave => Whole(loaded, Tail(todo))

TokenInv == TypeOK /\ StoresAreGood /\ PlanInv /\ StageInv
-------------------------------------------------------------------------------
LEMMA PlanTail ==
  ASSUME NEW plan \in Seq(Call), plan # <<>>
  PROVE  /\ Head(plan) = plan[1] /\ plan[1] \in Call
         /\ Tail(plan) \in Seq(Call)
         /\ Len(plan) \in Nat /\ Len(plan) >= 1 /\ Len(Tail(plan)) = Len(plan) - 1
         /\ \A i \in 1 .. Len(Tail(plan)) : i + 1 \in 1 .. Len(plan) /\ Tail(plan)[i] = plan[i + 1]
         /\ \A i \in 1 .. Len(plan) : i = 1 \/ (i - 1 \in 1 .. Len(Tail(plan)) /\ Tail(plan)[i - 1] = plan[i])
<1>1. Len(plan) \in Nat /\ Len(plan) >= 1
  OBVIOUS
<1>2. Tail(plan) \in Seq(Call) /\ Len(Tail(plan)) = Len(plan) - 1
      /\ \A i \in 1 .. Len(Tail(plan)) : Tail(plan)[i] = plan[i + 1]
  OBVIOUS
<1>3. QED
  BY <1>1, <1>2

LEMMA PlanOKTail ==
  ASSUME NEW plan \in Seq(Call), plan # <<>>, PlanOK(plan)
  PROVE  PlanOK(Tail(plan))
BY PlanTail DEF PlanOK

\* The plan stays right where no token goes stale that was fresh.
LEMMA TrackKept ==
  ASSUME NEW plan, NEW map, NEW map2, OnTrack(map, plan),
         \A k \in TokenKeys : Fresh(map, k) => Fresh(map2, k)
  PROVE  OnTrack(map2, plan)
BY DEF OnTrack, TokenKeys

LEMMA WholeKept ==
  ASSUME NEW plan, NEW map, NEW map2, Whole(map, plan),
         \A k \in TokenKeys : Fresh(map, k) => Fresh(map2, k)
  PROVE  Whole(map2, plan)
BY DEF Whole

\* ... and where the call at its head, if it writes a token, made it fresh.
LEMMA TrackTail ==
  ASSUME NEW plan \in Seq(Call), plan # <<>>, NEW map, NEW map2, OnTrack(map, plan),
         \A k \in TokenKeys : Fresh(map, k) \/ Writes(Head(plan), k) => Fresh(map2, k)
  PROVE  OnTrack(map2, Tail(plan))
<1>1. SUFFICES ASSUME NEW i \in 1 .. Len(Tail(plan)), Writes(Tail(plan)[i], "access"),
                      ~Fresh(map2, "refresh")
               PROVE  \E j \in 1 .. Len(Tail(plan)) : j < i /\ Writes(Tail(plan)[j], "refresh")
  BY DEF OnTrack
<1>2. i + 1 \in 1 .. Len(plan) /\ Writes(plan[i + 1], "access") /\ i \in Nat
  BY <1>1, PlanTail
<1>3. ~Fresh(map, "refresh") /\ ~Writes(plan[1], "refresh")
  BY <1>1, PlanTail DEF TokenKeys
<1>4. PICK j \in 1 .. Len(plan) : j < i + 1 /\ Writes(plan[j], "refresh")
  BY <1>2, <1>3 DEF OnTrack
<1>5. j # 1
  BY <1>3, <1>4
<1>6. j - 1 \in 1 .. Len(Tail(plan)) /\ Tail(plan)[j - 1] = plan[j] /\ j - 1 < i
  BY <1>2, <1>4, <1>5, PlanTail
<1>7. QED
  BY <1>4, <1>6

LEMMA WholeTail ==
  ASSUME NEW plan \in Seq(Call), plan # <<>>, NEW map, NEW map2, Whole(map, plan),
         \A k \in TokenKeys : Fresh(map, k) \/ Writes(Head(plan), k) => Fresh(map2, k)
  PROVE  Whole(map2, Tail(plan))
<1>1. SUFFICES ASSUME NEW k \in TokenKeys, ~Fresh(map2, k)
               PROVE  \E i \in 1 .. Len(Tail(plan)) : Writes(Tail(plan)[i], k)
  BY DEF Whole
<1>2. ~Fresh(map, k) /\ ~Writes(plan[1], k)
  BY <1>1, PlanTail
<1>3. PICK i \in 1 .. Len(plan) : Writes(plan[i], k)
  BY <1>2 DEF Whole
<1>4. QED
  BY <1>2, <1>3, PlanTail

LEMMA EmptyIsGood == logins \in Value => Empty \in Map /\ Good(Empty) /\ \A k \in TokenKeys : Fresh(Empty, k)
BY LoginsAssumption DEF Empty, Good, Map, Keys, TokenKeys, Value, NoValue, Fresh

\* What a call makes of a map.
LEMMA EffectKeys ==
  ASSUME NEW map \in Map, NEW call \in Call
  PROVE  /\ Effect(call, map) \in Map
         /\ \A k \in TokenKeys : IF Writes(call, k) THEN Effect(call, map)[k] = call.value
                                 ELSE Effect(call, map)[k] \in {map[k], NoValue}
<1>1. NoValue \in Value
  BY LoginsAssumption DEF Value, NoValue
<1>2. CASE call.method = "write"
  BY <1>2 DEF Effect, Map, Call, Writes, TokenKeys, Keys
<1>3. CASE call.method = "delete"
  BY <1>1, <1>3 DEF Effect, Map, Call, Writes, TokenKeys, Keys
<1>4. CASE call.method = "deleteAll"
  BY <1>1, <1>4 DEF Effect, Map, Call, Writes, TokenKeys, Keys, Empty
<1>5. QED
  BY <1>2, <1>3, <1>4 DEF Call

\* The call at the head of a plan does no harm and carries the plan on.
LEMMA EffectGood ==
  ASSUME logins \in Value, NEW plan \in Seq(Call), plan # <<>>, PlanOK(plan),
         NEW map, Good(map), OnTrack(map, plan)
  PROVE  /\ Good(Effect(Head(plan), map))
         /\ OnTrack(Effect(Head(plan), map), Tail(plan))
         /\ Whole(map, plan) => Whole(Effect(Head(plan), map), Tail(plan))
<1> DEFINE call == Head(plan)
           map2 == Effect(call, map)
<1>1. call = plan[1] /\ call \in Call /\ 1 \in 1 .. Len(plan)
  BY PlanTail
<1>2. map2 \in Map /\ \A k \in TokenKeys : IF Writes(call, k) THEN map2[k] = call.value
                                           ELSE map2[k] \in {map[k], NoValue}
  BY <1>1, EffectKeys DEF Good
<1>3. \A k \in TokenKeys : Writes(call, k) => call.value = logins
  BY <1>1 DEF PlanOK
<1>4. Writes(call, "access") => Fresh(map, "refresh")
  <2>1. \A j \in 1 .. Len(plan) : ~(j < 1)
    BY PlanTail
  <2>2. QED
    BY <1>1, <2>1 DEF OnTrack
<1>5. "access" \in TokenKeys /\ "refresh" \in TokenKeys /\ logins \in Nat
      /\ map["access"] \in Nat /\ map["refresh"] \in Nat
  BY LoginsAssumption DEF TokenKeys, Value, Good, Map, Keys
<1>6. ~(Writes(call, "access") /\ Writes(call, "refresh"))
  BY DEF Writes
<1> HIDE DEF call, map2
<1>7. \A k \in TokenKeys : Fresh(map, k) \/ Writes(call, k) => Fresh(map2, k)
  BY <1>2, <1>3 DEF Fresh
<1>8. \A k \in TokenKeys : map2[k] <= logins
  BY <1>2, <1>3, <1>5 DEF Good, NoValue
<1>9. map2["access"] # NoValue /\ map2["refresh"] # NoValue => map2["access"] <= map2["refresh"]
  <2>1. CASE Writes(call, "access")
    BY <1>2, <1>3, <1>4, <1>5, <1>6, <2>1 DEF Fresh, NoValue
  <2>2. CASE Writes(call, "refresh")
    BY <1>2, <1>3, <1>5, <1>6, <1>8, <2>2
  <2>3. CASE ~Writes(call, "access") /\ ~Writes(call, "refresh")
    BY <1>2, <1>5, <2>3 DEF Good
  <2>4. QED
    BY <2>1, <2>2, <2>3
<1>10. QED
  BY <1>2, <1>7, <1>8, <1>9, TrackTail, WholeTail DEF Good, call, map2
-------------------------------------------------------------------------------
LEMMA CurrentIs ==
  /\ platform = "web" => Current = memory
  /\ platform = "linux" => Current = keyring
  /\ platform = "android" => Current = preferences
  /\ platform = "windows" => Current = content
BY DEF Current

\* The flows that save tokens: the refresh token first, the access token later.
LEMMA SavePlan ==
  ASSUME logins' \in Value, NEW email \in Value,
         todo' = SaveTokens(logins', email) \/ todo' = Append(SaveTokens(logins', email), CallClearMarker)
  PROVE  /\ todo' \in Seq(Call) /\ todo' # <<>>
         /\ PlanOK(todo)' /\ OnTrack(Current, todo)' /\ Whole(Current, todo)'
<1>1. /\ CallWrite("refresh", logins') \in Call /\ CallWrite("email", email) \in Call
      /\ CallWrite("access", logins') \in Call /\ CallClearMarker \in Call
  BY LoginsAssumption DEF CallWrite, CallClearMarker, Call, Keys, Value, NoValue
<1>2. /\ todo' \in Seq(Call) /\ Len(todo') >= 2 /\ todo'[1] = CallWrite("refresh", logins')
      /\ \E n \in 2 .. Len(todo') :
           /\ todo'[n] = CallWrite("access", logins')
           /\ \A i \in 1 .. Len(todo') :
                i = 1 \/ i = n \/ todo'[i] = CallWrite("email", email) \/ todo'[i] = CallClearMarker
  <2>1. CASE email = NoValue /\ todo' = <<CallWrite("refresh", logins'), CallWrite("access", logins')>>
    BY <1>1, <2>1
  <2>2. CASE email = NoValue /\ todo' = <<CallWrite("refresh", logins'), CallWrite("access", logins'), CallClearMarker>>
    BY <1>1, <2>2
  <2>3. CASE todo' = <<CallWrite("refresh", logins'), CallWrite("email", email), CallWrite("access", logins')>>
    <3>1. Len(todo') = 3 /\ todo'[3] = CallWrite("access", logins')
      BY <2>3
    <3>2. QED
      BY <1>1, <2>3, <3>1
  <2>4. CASE todo' = <<CallWrite("refresh", logins'), CallWrite("email", email), CallWrite("access", logins'),
                       CallClearMarker>>
    <3>1. Len(todo') = 4 /\ todo'[3] = CallWrite("access", logins')
      BY <2>4
    <3>2. QED
      BY <1>1, <2>4, <3>1
  <2>5. QED
    BY <1>1, <2>1, <2>2, <2>3, <2>4 DEF SaveTokens
<1>3. /\ Writes(CallWrite("refresh", logins'), "refresh") /\ Writes(CallWrite("access", logins'), "access")
      /\ \A k \in TokenKeys : ~Writes(CallWrite("email", email), k) /\ ~Writes(CallClearMarker, k)
      /\ CallWrite("refresh", logins').value = logins' /\ CallWrite("access", logins').value = logins'
      /\ ~CallWrite("refresh", logins').swallowed /\ ~CallWrite("access", logins').swallowed
      /\ ~CallWrite("email", email).swallowed /\ CallClearMarker.key = "marker"
  BY DEF Writes, CallWrite, CallClearMarker, TokenKeys
<1>4. PlanOK(todo)'
  BY <1>2, <1>3 DEF PlanOK
<1>5. 1 \in 1 .. Len(todo') /\ Writes(todo'[1], "refresh") /\ ~Writes(todo'[1], "access")
  BY <1>2, <1>3 DEF Writes, CallWrite
<1>6. OnTrack(Current, todo)'
  BY <1>5 DEF OnTrack
<1>7. Whole(Current, todo)'
  BY <1>2, <1>3, <1>5 DEF Whole, TokenKeys
<1>8. QED
  BY <1>2, <1>4, <1>6, <1>7

\* The other flows write no token.
LEMMA OtherPlan ==
  ASSUME todo' \in {<<CallMarker(MaxLogins)>>, <<CallClearMarker>>, <<CallDeleteAll, CallClearMarker>>}
  PROVE  todo' \in Seq(Call) /\ PlanOK(todo)' /\ OnTrack(Current, todo)'
<1>1. CallMarker(MaxLogins) \in Call /\ CallClearMarker \in Call /\ CallDeleteAll \in Call
  BY LoginsAssumption DEF CallMarker, CallClearMarker, CallDeleteAll, Call, Keys, Value, NoValue
<1>2. \A call \in {CallMarker(MaxLogins), CallClearMarker, CallDeleteAll} :
        call.key = "marker" /\ \A k \in TokenKeys : ~Writes(call, k)
  BY DEF CallMarker, CallClearMarker, CallDeleteAll, Writes, TokenKeys
<1>3. todo' \in Seq(Call)
      /\ \A i \in 1 .. Len(todo') : todo'[i] \in {CallMarker(MaxLogins), CallClearMarker, CallDeleteAll}
  <2>1. CASE todo' = <<CallMarker(MaxLogins)>>
    BY <1>1, <2>1
  <2>2. CASE todo' = <<CallClearMarker>>
    BY <1>1, <2>2
  <2>3. CASE todo' = <<CallDeleteAll, CallClearMarker>>
    <3>1. todo' \in Seq(Call) /\ Len(todo') = 2 /\ todo'[1] = CallDeleteAll /\ todo'[2] = CallClearMarker
      BY <1>1, <2>3
    <3>2. QED
      BY <3>1
  <2>4. QED
    BY <2>1, <2>2, <2>3
<1>4. QED
  BY <1>2, <1>3 DEF PlanOK, OnTrack, TokenKeys

\* Starting a flow: nothing stored changes, and no change of the file is under way.
LEMMA FlowStarts ==
  ASSUME TokenInv, NEW plan, NEW g, StartFlow(plan, g),
         logins' \in Value, logins' >= logins, mfaPending' \in BOOLEAN, g \in Value,
         todo' \in Seq(Call) /\ PlanOK(todo)' /\ OnTrack(Current, todo)',
         g # NoValue => g = logins' /\ Whole(Current, todo)'
  PROVE  TokenInv'
<1>1. /\ todo = <<>> /\ todo' = plan /\ saving' = g /\ saved' = NoValue
      /\ UNCHANGED <<platform, keyring, preferences, prefsFile, file, content, stage, loaded, badRead, memory, kills>>
  BY DEF StartFlow, stores, fileVars
<1>2. TypeOK'
  <2>1. NoValue \in Value
    BY LoginsAssumption DEF Value, NoValue
  <2>2. /\ platform' \in Platforms /\ keyring' \in Map /\ memory' \in Map /\ preferences' \in Map
        /\ prefsFile' \in Map /\ file' \in {"absent", "good", "torn"} /\ content' \in Map
        /\ stage' \in {"idle", "corrupt", "save", "writing", "retry"} /\ loaded' \in Map
        /\ kills' \in 0 .. MaxKills
    BY <1>1 DEF TokenInv, TypeOK
  <2>3. badRead' \in BOOLEAN
    BY <1>1 DEF TokenInv, TypeOK
  <2>4. saving' \in Value /\ saved' \in Value
    BY <1>1, <2>1
  <2>5. QED
    BY <2>2, <2>3, <2>4 DEF TypeOK
<1>3. \A map : Good(map) => Good(map)'
  <2>1. SUFFICES ASSUME NEW map, Good(map), NEW k \in TokenKeys
                 PROVE  map[k] <= logins'
    BY DEF Good
  <2>2. map[k] \in Nat /\ logins \in Nat /\ logins' \in Nat /\ map[k] <= logins
    <3>1. logins \in Value /\ map \in Map /\ k \in Keys /\ map[k] <= logins
      BY <2>1 DEF Good, TokenKeys, Keys, TokenInv, TypeOK
    <3>2. map[k] \in Value
      BY <3>1 DEF Map
    <3>3. QED
      BY <3>1, <3>2, LoginsAssumption DEF Value
  <2>3. QED
    BY <2>2
<1>4. StoresAreGood'
  BY <1>1, <1>3 DEF TokenInv, StoresAreGood, Good
<1>5. PlanInv'
  BY <1>1 DEF PlanInv, InSave
<1>6. StageInv'
  BY <1>1 DEF TokenInv, StageInv
<1>7. QED
  BY <1>2, <1>4, <1>5, <1>6 DEF TokenInv

LEMMA FlowStep ==
  ASSUME TokenInv, Login \/ LoginNeedsMfa \/ VerifyMfa \/ CancelMfa \/ SignOut
  PROVE  TokenInv'
<1>1. logins \in Value /\ logins \in Nat /\ MaxLogins \in Nat /\ NoValue \in Value /\ mfaPending \in BOOLEAN
  BY LoginsAssumption DEF TokenInv, TypeOK, Value, NoValue
<1>2. CASE Login
  <2>1. logins' \in Value /\ logins' >= logins /\ logins' # NoValue
    BY <1>1, <1>2 DEF Login, Value, NoValue
  <2>2. todo' = SaveTokens(logins', logins')
    BY <1>2 DEF Login, StartFlow
  <2>3. QED
    BY <1>2, <2>1, <2>2, SavePlan, FlowStarts DEF Login
<1>3. CASE VerifyMfa
  <2>1. logins' \in Value /\ logins' >= logins /\ logins' # NoValue
    BY <1>1, <1>3 DEF VerifyMfa, Value, NoValue
  <2>2. Stored("email") \in Value
    BY DEF TokenInv, TypeOK, Platforms, Stored, getItem, Map, Keys
  <2>3. todo' = Append(SaveTokens(logins', Stored("email")), CallClearMarker)
    BY <1>3 DEF VerifyMfa, StartFlow
  <2>4. QED
    BY <1>3, <2>1, <2>2, <2>3, SavePlan, FlowStarts DEF VerifyMfa
<1>4. CASE LoginNeedsMfa \/ CancelMfa \/ SignOut
  <2>1. todo' \in {<<CallMarker(MaxLogins)>>, <<CallClearMarker>>, <<CallDeleteAll, CallClearMarker>>}
    BY <1>4 DEF LoginNeedsMfa, CancelMfa, SignOut, StartFlow
  <2>2. logins' = logins /\ mfaPending' \in BOOLEAN
    BY <1>1, <1>4 DEF LoginNeedsMfa, CancelMfa, SignOut
  <2>3. logins' >= logins
    BY <1>1, <2>2
  <2>4. QED
    BY <1>1, <1>4, <2>1, <2>2, <2>3, OtherPlan, FlowStarts DEF LoginNeedsMfa, CancelMfa, SignOut
<1>5. QED
  BY <1>2, <1>3, <1>4
-------------------------------------------------------------------------------
\* The three ways a call may go on.
LEMMA SucceedPlan ==
  ASSUME TokenInv, todo # <<>>, Succeed, OnTrack(Current', Tail(todo)),
         InSave => Whole(Current', Tail(todo))
  PROVE  PlanInv' /\ todo' \in Seq(Call) /\ saved' \in Value
<1>1. todo \in Seq(Call) /\ PlanOK(todo) /\ saved = NoValue /\ saving \in Value /\ NoValue \in Value
  BY DEF TokenInv, TypeOK, PlanInv, Value, NoValue
<1>2. todo' = Tail(todo) /\ logins' = logins /\ saving' = saving
  BY DEF Succeed
<1>3. PlanOK(todo)' /\ todo' \in Seq(Call)
  BY <1>1, <1>2, PlanOKTail, PlanTail DEF PlanOK
<1>4. OnTrack(Current, todo)'
  BY <1>2 DEF OnTrack, Fresh
<1>5. Whole(Current', Tail(todo)) => Whole(Current, todo)'
  BY <1>2 DEF Whole, Fresh
<1>6. saved' = IF todo' = <<>> THEN saving ELSE NoValue
  BY <1>1 DEF Succeed
<1>7. InSave' => InSave
  BY <1>2 DEF InSave
<1>8. InSave => saving = logins
  BY DEF TokenInv, PlanInv
<1>9. QED
  BY <1>1, <1>2, <1>3, <1>4, <1>5, <1>6, <1>7, <1>8 DEF PlanInv

LEMMA FailPlan ==
  ASSUME TokenInv, todo # <<>>, Fail,
         \A k \in TokenKeys : Fresh(Current, k) => Fresh(Current', k)
  PROVE  PlanInv' /\ todo' \in Seq(Call) /\ saved' \in Value
<1>1. /\ todo \in Seq(Call) /\ PlanOK(todo) /\ saved = NoValue /\ saving \in Value /\ NoValue \in Value
      /\ OnTrack(Current, todo)
      /\ InSave => Whole(Current, todo)
  BY DEF TokenInv, TypeOK, PlanInv, Value, NoValue
<1>2. CASE Head(todo).swallowed
  <2>1. \A k \in TokenKeys : ~Writes(Head(todo), k)
    BY <1>1, <1>2, PlanTail DEF PlanOK, Writes, TokenKeys
  <2>2. OnTrack(Current', Tail(todo)) /\ (InSave => Whole(Current', Tail(todo)))
    <3>1. \A k \in TokenKeys : Fresh(Current, k) \/ Writes(Head(todo), k) => Fresh(Current', k)
      BY <2>1
    <3>2. QED
      BY <1>1, <3>1, TrackTail, WholeTail
  <2>3. Succeed
    BY <1>2 DEF Fail, Succeed
  <2>4. QED
    BY <2>2, <2>3, SucceedPlan
<1>3. CASE ~Head(todo).swallowed
  <2>1. todo' = <<>> /\ saved' = NoValue
    BY <1>1, <1>3 DEF Fail
  <2>2. todo' \in Seq(Call) /\ Len(todo') = 0
    BY <2>1
  <2>3. PlanOK(todo)' /\ OnTrack(Current, todo)'
    BY <2>2 DEF PlanOK, OnTrack
  <2>4. QED
    BY <1>1, <2>1, <2>2, <2>3 DEF PlanInv, InSave
<1>4. QED
  BY <1>2, <1>3

LEMMA RunningPlan ==
  ASSUME TokenInv, Running, \A k \in TokenKeys : Fresh(Current, k) => Fresh(Current', k)
  PROVE  PlanInv'
<1>1. UNCHANGED <<logins, todo, saving, saved>>
  BY DEF Running
<1>2. OnTrack(Current', todo) /\ (InSave => Whole(Current', todo))
  BY TrackKept, WholeKept DEF TokenInv, PlanInv
<1>3. OnTrack(Current, todo)' /\ (InSave => Whole(Current, todo)')
  BY <1>1, <1>2 DEF OnTrack, Whole, Fresh
<1>4. PlanOK(todo)' /\ (InSave' => InSave)
  BY <1>1 DEF TokenInv, PlanInv, PlanOK, InSave
<1>5. QED
  BY <1>1, <1>3, <1>4 DEF TokenInv, PlanInv
-------------------------------------------------------------------------------
LEMMA WebStep ==
  ASSUME TokenInv, WebCall
  PROVE  TokenInv'
<1>1. /\ platform = "web" /\ todo # <<>> /\ todo \in Seq(Call) /\ logins \in Value /\ Good(memory)
      /\ PlanOK(todo) /\ OnTrack(memory, todo) /\ (InSave => Whole(memory, todo))
  BY CurrentIs DEF WebCall, TokenInv, TypeOK, StoresAreGood, PlanInv
<1>2. memory' = Effect(Head(todo), memory) /\ Succeed /\ Current' = memory'
  BY CurrentIs DEF WebCall, Succeed, Current
<1>3. Good(memory') /\ OnTrack(memory', Tail(todo)) /\ (InSave => Whole(memory', Tail(todo)))
  BY <1>1, <1>2, EffectGood
<1>4. PlanInv' /\ todo' \in Seq(Call) /\ saved' \in Value
  BY <1>1, <1>2, <1>3, SucceedPlan
<1>5. /\ UNCHANGED <<keyring, preferences, prefsFile, file, content, stage, loaded, badRead>>
      /\ UNCHANGED <<platform, logins, mfaPending, saving, kills>>
  BY DEF WebCall, Succeed, fileVars
<1>6. memory' \in Map
  BY <1>3 DEF Good
<1>7. TypeOK'
  BY <1>4, <1>5, <1>6 DEF TokenInv, TypeOK
<1>8. StoresAreGood'
  BY <1>3, <1>5 DEF TokenInv, StoresAreGood, Good
<1>9. StageInv'
  BY <1>1, <1>5 DEF TokenInv, StageInv
<1>10. QED
  BY <1>4, <1>7, <1>8, <1>9 DEF TokenInv

LEMMA LinuxStep ==
  ASSUME TokenInv, LinuxCall
  PROVE  TokenInv'
<1>1. /\ platform = "linux" /\ todo # <<>> /\ todo \in Seq(Call) /\ logins \in Value /\ Good(keyring)
      /\ PlanOK(todo) /\ OnTrack(keyring, todo) /\ (InSave => Whole(keyring, todo))
  BY CurrentIs DEF LinuxCall, TokenInv, TypeOK, StoresAreGood, PlanInv
<1>2. /\ UNCHANGED <<memory, preferences, prefsFile, file, content, stage, loaded, badRead>>
      /\ UNCHANGED <<platform, logins, mfaPending, saving, kills>>
  BY DEF LinuxCall, Succeed, Fail, fileVars
<1>3. Current = keyring /\ Current' = keyring'
  BY <1>1, <1>2, CurrentIs DEF Current
<1>4. Good(keyring') /\ PlanInv' /\ todo' \in Seq(Call) /\ saved' \in Value
  <2>1. CASE KeyringDoes(Head(todo)) /\ Succeed
    <3>1. keyring' = Effect(Head(todo), keyring)
      BY <2>1 DEF KeyringDoes, addItem, deleteItem, deleteKeyring, Effect
    <3>2. Good(keyring') /\ OnTrack(keyring', Tail(todo)) /\ (InSave => Whole(keyring', Tail(todo)))
      BY <1>1, <3>1, EffectGood
    <3>3. QED
      BY <1>1, <1>3, <2>1, <3>2, SucceedPlan
  <2>2. CASE KeyringThrows /\ Fail
    <3>1. keyring' = keyring
      BY <2>2 DEF KeyringThrows
    <3>2. QED
      BY <1>1, <1>3, <2>2, <3>1, FailPlan
  <2>3. QED
    BY <2>1, <2>2 DEF LinuxCall
<1>5. keyring' \in Map
  BY <1>4 DEF Good
<1>6. TypeOK'
  BY <1>2, <1>4, <1>5 DEF TokenInv, TypeOK
<1>7. StoresAreGood'
  BY <1>2, <1>4 DEF TokenInv, StoresAreGood, Good
<1>8. StageInv'
  BY <1>1, <1>2 DEF TokenInv, StageInv
<1>9. QED
  BY <1>4, <1>6, <1>7, <1>8 DEF TokenInv

LEMMA AndroidStep ==
  ASSUME TokenInv, AndroidCall \/ AndroidFlush
  PROVE  TokenInv'
<1>1. /\ platform = "android" /\ todo \in Seq(Call) /\ logins \in Value /\ saved \in Value
      /\ Good(preferences) /\ Good(prefsFile)
      /\ PlanOK(todo) /\ OnTrack(preferences, todo) /\ (InSave => Whole(preferences, todo))
  BY CurrentIs DEF AndroidCall, AndroidFlush, TokenInv, TypeOK, StoresAreGood, PlanInv
<1>2. /\ UNCHANGED <<keyring, memory, file, content, stage, loaded, badRead>>
      /\ UNCHANGED <<platform, logins, mfaPending, saving, kills>>
  BY DEF AndroidCall, AndroidFlush, Succeed, Fail, Running, fileVars
<1>3. Current = preferences /\ Current' = preferences'
  BY <1>1, <1>2, CurrentIs DEF Current
<1>4. Good(preferences') /\ Good(prefsFile') /\ PlanInv' /\ todo' \in Seq(Call) /\ saved' \in Value
  <2>1. CASE AndroidCall /\ PreferencesDo(Head(todo)) /\ Succeed
    <3>1. preferences' = Effect(Head(todo), preferences) /\ prefsFile' = prefsFile /\ todo # <<>>
      BY <2>1 DEF PreferencesDo, AndroidCall
    <3>2. Good(preferences') /\ OnTrack(preferences', Tail(todo)) /\ (InSave => Whole(preferences', Tail(todo)))
      BY <1>1, <3>1, EffectGood
    <3>3. QED
      BY <1>1, <1>3, <2>1, <3>1, <3>2, SucceedPlan
  <2>2. CASE AndroidCall /\ PreferencesThrow /\ Fail
    <3>1. preferences' = preferences /\ prefsFile' = prefsFile /\ todo # <<>>
      BY <2>2 DEF PreferencesThrow, AndroidCall
    <3>2. QED
      BY <1>1, <1>3, <2>2, <3>1, FailPlan
  <2>3. CASE AndroidFlush
    <3>1. preferences' = preferences /\ prefsFile' = preferences /\ Running /\ todo' = todo /\ saved' = saved
      BY <2>3 DEF AndroidFlush, FlushPreferences, Running
    <3>2. QED
      BY <1>1, <1>3, <3>1, RunningPlan
  <2>4. QED
    BY <2>1, <2>2, <2>3 DEF AndroidCall
<1>5. preferences' \in Map /\ prefsFile' \in Map
  BY <1>4 DEF Good
<1>6. TypeOK'
  BY <1>2, <1>4, <1>5 DEF TokenInv, TypeOK
<1>7. StoresAreGood'
  BY <1>2, <1>4 DEF TokenInv, StoresAreGood, Good
<1>8. StageInv'
  BY <1>1, <1>2 DEF TokenInv, StageInv
<1>9. QED
  BY <1>4, <1>6, <1>7, <1>8 DEF TokenInv

\* Whatever becomes of the Windows file before it is written again.
LEMMA FileGone ==
  ASSUME TokenInv, platform = "windows", platform' = platform, logins' = logins,
         KeepFile \/ content' = Empty
  PROVE  /\ Good(content') /\ content' \in Map
         /\ \A k \in TokenKeys : Fresh(Current, k) => Fresh(Current', k)
<1>1. logins \in Value /\ Good(content) /\ content \in Map
  BY DEF TokenInv, TypeOK, StoresAreGood
<1>2. Current = content /\ Current' = content'
  BY CurrentIs DEF Current
<1>3. QED
  BY <1>1, <1>2, EmptyIsGood DEF KeepFile

\* A step of the change that loads the file.
LEMMA LoadStep ==
  ASSUME TokenInv, platform = "windows", todo # <<>>, LoadForChange(Head(todo)), Running
  PROVE  StageInv' /\ loaded' \in Map
<1>1. /\ todo \in Seq(Call) /\ logins \in Value /\ Good(content) /\ Good(Empty)
      /\ PlanOK(todo) /\ OnTrack(content, todo) /\ (InSave => Whole(content, todo))
  BY CurrentIs, EmptyIsGood DEF TokenInv, TypeOK, StoresAreGood, PlanInv
<1>2. OnTrack(Empty, todo) /\ (InSave => Whole(Empty, todo))
  BY <1>1, EmptyIsGood, TrackKept, WholeKept
<1>3. PICK map \in {content, Empty} : loaded' = Effect(Head(todo), map)
  BY DEF LoadForChange
<1>4. Good(loaded') /\ OnTrack(loaded', Tail(todo)) /\ (InSave => Whole(loaded', Tail(todo)))
  BY <1>1, <1>2, <1>3, EffectGood
<1>5. UNCHANGED <<platform, logins, todo, saving, saved>>
  BY DEF Running
<1>6. Good(loaded)' /\ OnTrack(loaded, Tail(todo))' /\ (InSave' => Whole(loaded, Tail(todo))')
  BY <1>4, <1>5 DEF Good, OnTrack, Whole, Fresh, InSave
<1>7. QED
  BY <1>4, <1>5, <1>6 DEF StageInv, Good

\* A step of the change between the load and the end of the write.
LEMMA StageKept ==
  ASSUME TokenInv, platform = "windows", stage \in {"save", "writing", "retry"}, loaded' = loaded, Running
  PROVE  StageInv'
<1>1. UNCHANGED <<platform, logins, todo, saving, saved>>
  BY DEF Running
<1>2. todo # <<>> /\ Good(loaded) /\ OnTrack(loaded, Tail(todo)) /\ (InSave => Whole(loaded, Tail(todo)))
  BY DEF TokenInv, StageInv
<1>3. Good(loaded)' /\ OnTrack(loaded, Tail(todo))' /\ (InSave' => Whole(loaded, Tail(todo))')
  BY <1>1, <1>2 DEF Good, OnTrack, Whole, Fresh, InSave
<1>4. QED
  BY <1>1, <1>2, <1>3 DEF StageInv

LEMMA WindowsStep ==
  ASSUME TokenInv, WindowsCall
  PROVE  TokenInv'
<1>1. /\ platform = "windows" /\ todo # <<>> /\ todo \in Seq(Call) /\ saved \in Value
      /\ content \in Map /\ loaded \in Map /\ file \in {"absent", "good", "torn"}
      /\ OnTrack(content, todo) /\ (InSave => Whole(content, todo))
  BY CurrentIs DEF WindowsCall, TokenInv, TypeOK, StoresAreGood, PlanInv
<1>2. /\ UNCHANGED <<keyring, memory, preferences, prefsFile, badRead>>
      /\ UNCHANGED <<platform, logins, mfaPending, saving, kills>>
  BY DEF WindowsCall, Succeed, Fail, Running, fileVars, LoadForChange, NothingToDelete, LoadTorn, DropTornFile,
         Truncate, ProtectFails, WriteFails, FinishWrite, ClearFile
<1>3. Current' = content'
  BY <1>1, <1>2, CurrentIs DEF Current
<1>4. /\ Good(content') /\ content' \in Map /\ loaded' \in Map
      /\ file' \in {"absent", "good", "torn"} /\ stage' \in {"idle", "corrupt", "save", "writing", "retry"}
      /\ PlanInv' /\ StageInv' /\ todo' \in Seq(Call) /\ saved' \in Value
  <2>1. CASE LoadForChange(Head(todo)) /\ Running
    <3>1. UNCHANGED <<file, content, todo, saved>> /\ KeepFile /\ stage' = "save"
      BY <2>1 DEF LoadForChange, Running, KeepFile
    <3>2. QED
      BY <1>1, <1>2, <2>1, <3>1, FileGone, RunningPlan, LoadStep
  <2>2. CASE NothingToDelete(Head(todo)) /\ Succeed
    <3>1. UNCHANGED <<file, content, stage, loaded>> /\ stage = "idle" /\ KeepFile /\ Head(todo).method = "delete"
      BY <2>2 DEF NothingToDelete, fileVars, KeepFile
    <3>2. \A k \in TokenKeys : Fresh(content, k) \/ Writes(Head(todo), k) => Fresh(content', k)
      BY <3>1 DEF Writes
    <3>3. OnTrack(Current', Tail(todo)) /\ (InSave => Whole(Current', Tail(todo)))
      BY <1>1, <1>3, <3>2, TrackTail, WholeTail
    <3>4. StageInv'
      BY <3>1 DEF StageInv
    <3>5. QED
      BY <1>1, <1>2, <2>2, <3>1, <3>3, <3>4, FileGone, SucceedPlan
  <2>3. CASE LoadTorn(Head(todo)) /\ Running
    <3>1. UNCHANGED <<file, content, loaded, todo, saved>> /\ KeepFile /\ stage' = "corrupt"
      BY <2>3 DEF LoadTorn, Running, KeepFile
    <3>2. StageInv'
      BY <3>1 DEF StageInv
    <3>3. QED
      BY <1>1, <1>2, <2>3, <3>1, <3>2, FileGone, RunningPlan
  <2>4. CASE DropTornFile /\ Fail
    <3>1. /\ stage' = "idle" /\ loaded' = loaded /\ file' \in {"absent", file}
          /\ KeepFile \/ content' = Empty
      BY <2>4 DEF DropTornFile, KeepFile, DeleteFile
    <3>2. StageInv'
      BY <3>1 DEF StageInv
    <3>3. QED
      BY <1>1, <1>2, <2>4, <3>1, <3>2, FileGone, FailPlan
  <2>5. CASE Truncate /\ Running
    <3>1. /\ stage \in {"save", "retry"} /\ stage' = "writing" /\ file' = "torn" /\ content' = Empty
          /\ UNCHANGED <<loaded, todo, saved>>
      BY <2>5 DEF Truncate, Running
    <3>2. QED
      BY <1>1, <1>2, <2>5, <3>1, FileGone, RunningPlan, StageKept
  <2>6. CASE ProtectFails /\ Fail
    <3>1. UNCHANGED <<file, content, loaded>> /\ KeepFile /\ stage' = "idle"
      BY <2>6 DEF ProtectFails, KeepFile
    <3>2. StageInv'
      BY <3>1 DEF StageInv
    <3>3. QED
      BY <1>1, <1>2, <2>6, <3>1, <3>2, FileGone, FailPlan
  <2>7. CASE WriteFails /\ Running
    <3>1. UNCHANGED <<file, content, loaded, todo, saved>> /\ KeepFile /\ stage = "writing" /\ stage' = "retry"
      BY <2>7 DEF WriteFails, Running, KeepFile
    <3>2. QED
      BY <1>1, <1>2, <2>7, <3>1, FileGone, RunningPlan, StageKept
  <2>8. CASE FinishWrite /\ Succeed
    <3>1. stage = "writing" /\ stage' = "idle" /\ file' = "good" /\ content' = loaded /\ loaded' = loaded
      BY <2>8 DEF FinishWrite
    <3>2. Good(loaded) /\ OnTrack(loaded, Tail(todo)) /\ (InSave => Whole(loaded, Tail(todo)))
      BY <3>1 DEF TokenInv, StageInv
    <3>3. StageInv'
      BY <3>1 DEF StageInv
    <3>4. PlanInv' /\ todo' \in Seq(Call) /\ saved' \in Value
      BY <1>1, <1>3, <2>8, <3>1, <3>2, SucceedPlan
    <3>5. QED
      BY <1>1, <3>1, <3>2, <3>3, <3>4
  <2>9. CASE ClearFile(Head(todo)) /\ Succeed
    <3>1. /\ stage' = "idle" /\ loaded' = loaded /\ file' \in {"absent", file}
          /\ KeepFile \/ content' = Empty
          /\ Head(todo).method = "deleteAll"
      BY <2>9 DEF ClearFile, KeepFile, DeleteFile
    <3>2. \A k \in TokenKeys : Fresh(content, k) \/ Writes(Head(todo), k) => Fresh(content', k)
      BY <1>1, <1>2, <1>3, <3>1, FileGone, CurrentIs DEF Writes
    <3>3. OnTrack(Current', Tail(todo)) /\ (InSave => Whole(Current', Tail(todo)))
      BY <1>1, <1>3, <3>2, TrackTail, WholeTail
    <3>4. StageInv'
      BY <3>1 DEF StageInv
    <3>5. QED
      BY <1>1, <1>2, <2>9, <3>1, <3>3, <3>4, FileGone, SucceedPlan
  <2>10. QED
    BY <2>1, <2>2, <2>3, <2>4, <2>5, <2>6, <2>7, <2>8, <2>9 DEF WindowsCall
<1>5. TypeOK'
  <2>1. badRead' \in BOOLEAN /\ mfaPending' \in BOOLEAN
    BY <1>2 DEF TokenInv, TypeOK
  <2>2. QED
    BY <1>2, <1>4, <2>1 DEF TokenInv, TypeOK
<1>6. StoresAreGood'
  BY <1>2, <1>4 DEF TokenInv, StoresAreGood, Good
<1>7. QED
  BY <1>4, <1>5, <1>6 DEF TokenInv

LEMMA ReadStep ==
  ASSUME TokenInv, WindowsRead
  PROVE  TokenInv'
<1>1. /\ platform = "windows"
      /\ UNCHANGED <<keyring, memory, preferences, prefsFile, stage, loaded>>
      /\ UNCHANGED <<platform, logins, mfaPending, todo, saving, saved, kills>>
  BY DEF WindowsRead, Running, ReadTorn, DropAfterRead
<1>2. badRead' \in BOOLEAN
  BY DEF WindowsRead, ReadTorn, DropAfterRead
<1>3. file' \in {"absent", file}
  BY DEF WindowsRead, ReadTorn, DropAfterRead, KeepFile, DeleteFile
<1>4. KeepFile \/ content' = Empty
  BY DEF WindowsRead, ReadTorn, DropAfterRead, KeepFile, DeleteFile
<1>5. Good(content') /\ content' \in Map
  BY <1>1, <1>4, FileGone
<1>6. Running
  BY DEF WindowsRead
<1>7. PlanInv'
  BY <1>1, <1>4, <1>6, FileGone, RunningPlan
<1>8. TypeOK'
  BY <1>1, <1>2, <1>3, <1>5 DEF TokenInv, TypeOK
<1>9. StoresAreGood'
  BY <1>1, <1>5 DEF TokenInv, StoresAreGood, Good
<1>10. StageInv'
  <2>1. CASE stage \in {"save", "writing", "retry"}
    BY <1>1, <1>6, <2>1, StageKept
  <2>2. CASE stage \notin {"save", "writing", "retry"}
    BY <1>1, <2>2 DEF StageInv
  <2>3. QED
    BY <2>1, <2>2
<1>11. QED
  BY <1>7, <1>8, <1>9, <1>10 DEF TokenInv

LEMMA KillStep ==
  ASSUME TokenInv, Kill
  PROVE  TokenInv'
<1>1. /\ UNCHANGED <<platform, keyring, logins, prefsFile, file, content>>
      /\ todo' = <<>> /\ saving' = NoValue /\ saved' = NoValue
      /\ memory' = Empty /\ preferences' = prefsFile /\ stage' = "idle" /\ loaded' = Empty
  BY DEF Kill, ReopenPreferences, CloseFile, KeepFile
<1>2. mfaPending' \in BOOLEAN /\ badRead' \in BOOLEAN
  BY DEF Kill, CloseFile
<1>3. kills' \in 0 .. MaxKills
  BY KillsAssumption DEF Kill, TokenInv, TypeOK
<1>4. Good(Empty) /\ Empty \in Map /\ NoValue \in Value
  BY EmptyIsGood, LoginsAssumption DEF TokenInv, TypeOK, Value, NoValue
<1>5. todo' \in Seq(Call) /\ Len(todo') = 0
  BY <1>1
<1>6. TypeOK'
  BY <1>1, <1>2, <1>3, <1>4, <1>5 DEF TokenInv, TypeOK
<1>7. StoresAreGood'
  BY <1>1, <1>4 DEF TokenInv, StoresAreGood, Good
<1>8. PlanInv'
  BY <1>1, <1>5 DEF PlanInv, PlanOK, OnTrack, InSave
<1>9. StageInv'
  BY <1>1 DEF StageInv
<1>10. QED
  BY <1>6, <1>7, <1>8, <1>9 DEF TokenInv

LEMMA Stutter ==
  ASSUME TokenInv, UNCHANGED vars
  PROVE  TokenInv'
<1>1. /\ UNCHANGED <<keyring, memory, preferences, prefsFile, file, content, stage, loaded>>
      /\ UNCHANGED <<platform, logins, todo, saving, saved, kills>>
      /\ UNCHANGED <<badRead, mfaPending>>
  BY DEF vars, stores, fileVars
<1>2. TypeOK'
  BY <1>1 DEF TokenInv, TypeOK
<1>3. StoresAreGood'
  BY <1>1 DEF TokenInv, StoresAreGood, Good
<1>4. Current' = Current
  BY <1>1 DEF Current
<1>5. PlanInv'
  BY <1>1, <1>4 DEF TokenInv, PlanInv, PlanOK, OnTrack, Whole, Fresh, InSave
<1>6. StageInv'
  BY <1>1 DEF TokenInv, StageInv, Good, OnTrack, Whole, Fresh, InSave
<1>7. QED
  BY <1>2, <1>3, <1>5, <1>6 DEF TokenInv

LEMMA InitTokenInv == Init => TokenInv
<1> SUFFICES ASSUME Init
             PROVE  TokenInv
  OBVIOUS
<1>1. /\ platform \in Platforms /\ logins = 0 /\ kills = 0 /\ todo = <<>>
      /\ keyring = Empty /\ memory = Empty /\ preferences = Empty /\ prefsFile = Empty
      /\ file = "absent" /\ content = Empty /\ stage = "idle" /\ loaded = Empty
      /\ saving = NoValue /\ saved = NoValue
  BY DEF Init, KeyringInit, PreferencesInit, FileInit
<1>2. mfaPending \in BOOLEAN /\ badRead \in BOOLEAN
  BY DEF Init, FileInit
<1>3. logins \in Value /\ NoValue \in Value /\ kills \in 0 .. MaxKills
  BY <1>1, LoginsAssumption, KillsAssumption DEF Value, NoValue
<1>4. Empty \in Map /\ Good(Empty)
  BY <1>3, EmptyIsGood
<1>5. todo \in Seq(Call) /\ Len(todo) = 0
  BY <1>1
<1>6. TypeOK
  BY <1>1, <1>2, <1>3, <1>4, <1>5 DEF TypeOK
<1>7. QED
  BY <1>1, <1>4, <1>5, <1>6 DEF TokenInv, StoresAreGood, PlanInv, PlanOK, OnTrack, InSave, StageInv

LEMMA Inductive == TokenInv /\ [Next]_vars => TokenInv'
BY FlowStep, WebStep, LinuxStep, AndroidStep, WindowsStep, ReadStep, KillStep, Stutter DEF Next

LEMMA AlwaysTokenInv == Spec => []TokenInv
BY InitTokenInv, Inductive, PTL DEF Spec
-------------------------------------------------------------------------------
LEMMA StoredIs == TokenInv => Good(Current) /\ \A k \in TokenKeys : Stored(k) = Current[k]
<1> SUFFICES ASSUME TokenInv
             PROVE  Good(Current) /\ \A k \in TokenKeys : Stored(k) = Current[k]
  OBVIOUS
<1>1. platform \in Platforms
  BY DEF TokenInv, TypeOK
<1>2. QED
  BY <1>1, CurrentIs DEF TokenInv, StoresAreGood, Platforms, Stored, getItem

\* Every variable stays in its type, on every platform (SecureTokenStorage and
\* the back ends of flutter_secure_storage).
THEOREM TypeCorrect == Spec => []TypeOK
<1>1. TokenInv => TypeOK
  BY DEF TokenInv
<1>2. QED
  BY <1>1, AlwaysTokenInv, PTL

\* Whatever fails or dies in the middle of a save, no access token stands
\* beside the refresh token of an earlier login (saveTokens writes it last).
THEOREM AccessNeverNewer == Spec => []AccessNotNewer
<1>1. TokenInv => AccessNotNewer
  BY StoredIs DEF AccessNotNewer, Good, TokenKeys
<1>2. QED
  BY <1>1, AlwaysTokenInv, PTL

\* A save that reported success left no token of another login (saveTokens
\* rethrows what it does not swallow).
THEOREM SavesAreWhole == Spec => []SaveIsWhole
<1>1. TokenInv => SaveIsWhole
  <2> SUFFICES ASSUME TokenInv, saved # NoValue
               PROVE  Stored("access") \in {saved, NoValue} /\ Stored("refresh") \in {saved, NoValue}
    BY DEF SaveIsWhole
  <2>1. todo = <<>> /\ saving = saved /\ saved = logins /\ Whole(Current, todo)
    BY DEF TokenInv, PlanInv, InSave
  <2>2. Len(todo) = 0
    BY <2>1
  <2>3. \A k \in TokenKeys : Fresh(Current, k)
    BY <2>1, <2>2 DEF Whole
  <2>4. QED
    BY <2>1, <2>3, StoredIs DEF Fresh, TokenKeys
<1>2. QED
  BY <1>1, AlwaysTokenInv, PTL
===============================================================================
