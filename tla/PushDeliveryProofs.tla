------------------------- MODULE PushDeliveryProofs -------------------------
(***************************************************************************)
(* Theorems about PushDelivery, for any number of configs, workers and     *)
(* events.                                                                 *)
(***************************************************************************)
EXTENDS PushDelivery, TLAPS

\* Every step keeps the types and leaves a working worker with a config.
LEMMA StepTypes ==
    ASSUME TypeOK, InHand, [Next]_vars
    PROVE  TypeOK' /\ InHand'
<1>. USE DEF TypeOK, InHand, State, Lease, PC, vars, logVars, rowVars,
   workerVars, hookVars
<1>1. CASE append_transition_events
  <2>1. last' \in Nat
    BY <1>1 DEF append_transition_events, append_event
  <2>2. final' \in BOOLEAN
    BY <1>1, Zenon DEF append_transition_events
  <2>. QED
    BY <1>1, <2>1, <2>2 DEF append_transition_events
<1>2. CASE append_terminal_status
  BY <1>2 DEF append_terminal_status, append_event
<1>3. CASE sweep_terminal_a2a_tasks
  BY <1>3 DEF sweep_terminal_a2a_tasks
<1>4. ASSUME NEW x \in Configs, count_active_push_configs(x)
      PROVE  TypeOK' /\ InHand'
  BY <1>4 DEF count_active_push_configs, SetState
<1>5. ASSUME NEW x \in Configs, insert_push_config(x)
      PROVE  TypeOK' /\ InHand'
  BY <1>5 DEF insert_push_config, SetState
<1>6. ASSUME NEW x \in Configs, CreateFails(x)
      PROVE  TypeOK' /\ InHand'
  BY <1>6 DEF CreateFails, SetState
<1>7. ASSUME NEW x \in Configs, delete_push_config(x)
      PROVE  TypeOK' /\ InHand'
  BY <1>7 DEF delete_push_config, SetState
<1>8. ASSUME NEW x \in Configs, LeaseExpires(x)
      PROVE  TypeOK' /\ InHand'
  BY <1>8 DEF LeaseExpires
<1>9. ASSUME NEW x \in Configs, BackoffElapses(x)
      PROVE  TypeOK' /\ InHand'
  BY <1>9 DEF BackoffElapses
<1>10. ASSUME NEW y \in Workers, NEW x \in Configs,
             claim_next_push_config(y, x)
      PROVE  TypeOK' /\ InHand'
  BY <1>10 DEF claim_next_push_config, Take, Goto
<1>11. ASSUME NEW y \in Workers, next_push_event(y)
      PROVE  TypeOK' /\ InHand'
  BY <1>11 DEF next_push_event, Goto
<1>12. ASSUME NEW y \in Workers, PostSucceeds(y)
      PROVE  TypeOK' /\ InHand'
  BY <1>12 DEF PostSucceeds, Receive, Goto
<1>13. ASSUME NEW y \in Workers, PostFails(y)
      PROVE  TypeOK' /\ InHand'
  BY <1>13 DEF PostFails, Receive, Goto
<1>14. ASSUME NEW y \in Workers, advance_push_delivered(y)
      PROVE  TypeOK' /\ InHand'
  <2>1. mine[y] \in Configs
    BY <1>14 DEF advance_push_delivered
  <2>2. /\ cursor' \in [Configs -> Nat] /\ attempts' \in [Configs -> Nat]
        /\ lease' \in [Configs -> Lease]
    BY <1>14, <2>1 DEF advance_push_delivered, AdvanceRow
  <2>3. due' \in [Configs -> BOOLEAN]
    BY <1>14, <2>1 DEF advance_push_delivered, AdvanceRow
  <2>. QED
    BY <1>14, <2>2, <2>3 DEF advance_push_delivered, Advanced, Goto
<1>15. ASSUME NEW y \in Workers, release_push_config(y)
      PROVE  TypeOK' /\ InHand'
  BY <1>15 DEF release_push_config, Done, Exists
<1>16. ASSUME NEW y \in Workers, bump_push_attempts(y)
      PROVE  TypeOK' /\ InHand'
  BY <1>16 DEF bump_push_attempts, Goto, Exists
<1>17. ASSUME NEW y \in Workers, BumpFindsNoRow(y)
      PROVE  TypeOK' /\ InHand'
  BY <1>17 DEF BumpFindsNoRow, Done
<1>18. ASSUME NEW y \in Workers, schedule_push_retry(y)
      PROVE  TypeOK' /\ InHand'
  BY <1>18 DEF schedule_push_retry, Done, Exists
<1>19. ASSUME NEW y \in Workers, StatementFails(y)
      PROVE  TypeOK' /\ InHand'
  BY <1>19 DEF StatementFails, Done
<1>20. ASSUME NEW y \in Workers, Crash(y)
      PROVE  TypeOK' /\ InHand'
  BY <1>20 DEF Crash, Done
<1>21. CASE UNCHANGED vars
  BY <1>21
<1>. QED
  BY <1>1, <1>2, <1>3, <1>4, <1>5, <1>6, <1>7, <1>8, <1>9, <1>10, <1>11,
     <1>12, <1>13, <1>14, <1>15, <1>16, <1>17, <1>18, <1>19, <1>20, <1>21
     DEF Next, EventLog, Registration, Clock, deliver_next_due,
     deliver_claimed

\* Only advance_push_delivered writes a cursor, and it never moves one back.
LEMMA CursorStep ==
    ASSUME TypeOK, InHand, [Next]_vars
    PROVE  \A c \in Configs : cursor'[c] >= cursor[c]
<1>1. ASSUME NEW y \in Workers, advance_push_delivered(y)
      PROVE  \A c \in Configs : cursor'[c] >= cursor[c]
  BY <1>1 DEF advance_push_delivered, TypeOK, InHand, AdvanceRow
<1>2. cursor' = cursor \/ (\E y \in Workers : advance_push_delivered(y))
  BY DEF Next, EventLog, Registration, Clock, deliver_next_due,
     deliver_claimed, append_transition_events, append_terminal_status, append_event,
     sweep_terminal_a2a_tasks, count_active_push_configs, insert_push_config,
     CreateFails, delete_push_config, SetState, LeaseExpires, BackoffElapses,
     claim_next_push_config, Take, next_push_event, PostSucceeds, PostFails, Receive,
     release_push_config, bump_push_attempts, schedule_push_retry,
     BumpFindsNoRow, StatementFails, Crash, Done, vars, logVars, rowVars, workerVars, hookVars
<1>. QED
  BY <1>1, <1>2 DEF TypeOK

\* The initial state is type correct.
LEMMA InitTypes ==
    ASSUME Init
    PROVE  TypeOK /\ InHand
<1>1. /\ last \in Nat /\ final \in BOOLEAN /\ swept \in BOOLEAN
      /\ due \in [Configs -> BOOLEAN]
  BY Zenon DEF Init
<1>2. mine \in [Workers -> Configs \cup {NoConfig}]
  BY DEF Init
<1>. QED
  BY <1>1, <1>2 DEF Init, TypeOK, InHand, State, Lease, PC

\* TypeOK of PushDelivery is an invariant.
THEOREM PushTypeCorrect == Spec => []TypeOK
<1>1. Init => TypeOK /\ InHand
  BY InitTypes
<1>2. TypeOK /\ InHand /\ [Next]_vars => TypeOK' /\ InHand'
  BY StepTypes
<1>. QED
  BY <1>1, <1>2, PTL DEF Spec

\* The invariant behind it: a worker at work has a config in hand.
LEMMA Hands == Spec => [](TypeOK /\ InHand)
<1>1. Init => TypeOK /\ InHand
  BY InitTypes
<1>2. TypeOK /\ InHand /\ [Next]_vars => TypeOK' /\ InHand'
  BY StepTypes
<1>. QED
  BY <1>1, <1>2, PTL DEF Spec

\* CursorMonotone: the guard `delivered_seq < $2` of advance_push_delivered is
\* what a stale worker cannot get past.
THEOREM CursorNeverRewinds == Spec => CursorMonotone
<1>1. TypeOK /\ InHand /\ [Next]_vars
          => [\A c \in Configs : cursor'[c] >= cursor[c]]_vars
  BY CursorStep
<1>. QED
  BY <1>1, Hands, PTL DEF CursorMonotone, Spec

\* Every step keeps what the webhook has received in step with the cursors.
LEMMA StepCovered ==
    ASSUME TypeOK, InHand, LocalCovered, NothingSkipped, [Next]_vars
    PROVE  LocalCovered' /\ NothingSkipped'
<1>. USE DEF TypeOK, InHand, LocalCovered, NothingSkipped, vars, logVars,
   rowVars, workerVars, hookVars
<1>1. CASE append_transition_events
  BY <1>1 DEF append_transition_events, append_event
<1>2. CASE append_terminal_status
  BY <1>2 DEF append_terminal_status, append_event
<1>3. CASE sweep_terminal_a2a_tasks
  BY <1>3 DEF sweep_terminal_a2a_tasks
<1>4. ASSUME NEW x \in Configs, count_active_push_configs(x)
      PROVE  LocalCovered' /\ NothingSkipped'
  BY <1>4 DEF count_active_push_configs, SetState
<1>5. ASSUME NEW x \in Configs, insert_push_config(x)
      PROVE  LocalCovered' /\ NothingSkipped'
  BY <1>5 DEF insert_push_config, SetState
<1>6. ASSUME NEW x \in Configs, CreateFails(x)
      PROVE  LocalCovered' /\ NothingSkipped'
  BY <1>6 DEF CreateFails, SetState
<1>7. ASSUME NEW x \in Configs, delete_push_config(x)
      PROVE  LocalCovered' /\ NothingSkipped'
  BY <1>7 DEF delete_push_config, SetState
<1>8. ASSUME NEW x \in Configs, LeaseExpires(x)
      PROVE  LocalCovered' /\ NothingSkipped'
  BY <1>8 DEF LeaseExpires
<1>9. ASSUME NEW x \in Configs, BackoffElapses(x)
      PROVE  LocalCovered' /\ NothingSkipped'
  BY <1>9 DEF BackoffElapses
<1>10. ASSUME NEW y \in Workers, NEW x \in Configs,
             claim_next_push_config(y, x)
      PROVE  LocalCovered' /\ NothingSkipped'
  BY <1>10 DEF claim_next_push_config, Take, Goto
<1>11. ASSUME NEW y \in Workers, next_push_event(y)
      PROVE  LocalCovered' /\ NothingSkipped'
  BY <1>11 DEF next_push_event, Goto
<1>12. ASSUME NEW y \in Workers, PostSucceeds(y)
      PROVE  LocalCovered' /\ NothingSkipped'
  <2>. DEFINE c == mine[y]  n == seen[y] + 1
  <2>1. c \in Configs /\ n \in Nat /\ 1..seen[y] \subseteq got[c]
    BY <1>12 DEF PostSucceeds
  <2>2. 1..n \subseteq got[c] \cup {n}
    BY <2>1
  <2>3. CASE got' = [got EXCEPT ![c] = @ \cup {n}]
    <3>1. \A d \in Configs : got[d] \subseteq got'[d]
      BY <2>1, <2>3
    <3>2. \A d \in Configs : \A m \in got'[d] : 1..m \subseteq got'[d]
      <4>. SUFFICES ASSUME NEW d \in Configs, NEW m \in got'[d]
                    PROVE  1..m \subseteq got'[d]
        OBVIOUS
      <4>1. CASE m \in got[d]
        BY <3>1, <4>1
      <4>2. CASE m \notin got[d]
        BY <2>1, <2>2, <2>3, <4>2
      <4>. QED
        BY <4>1, <4>2
    <3>3. NothingSkipped'
      BY <1>12, <3>1, <3>2 DEF PostSucceeds
    <3>4. n \in got'[c]
      BY <2>1, <2>3
    <3>5. LocalCovered'
      BY <1>12, <3>1, <3>4 DEF PostSucceeds, Goto
    <3>. QED
      BY <3>3, <3>5
  <2>4. CASE got' = got
    BY <1>12, <2>4 DEF PostSucceeds, Goto, Receive
  <2>. QED
    BY <1>12, <2>3, <2>4 DEF PostSucceeds, Receive
<1>13. ASSUME NEW y \in Workers, PostFails(y)
      PROVE  LocalCovered' /\ NothingSkipped'
  <2>. DEFINE c == mine[y]  n == seen[y] + 1
  <2>1. c \in Configs /\ n \in Nat /\ 1..seen[y] \subseteq got[c]
    BY <1>13 DEF PostFails
  <2>2. 1..n \subseteq got[c] \cup {n}
    BY <2>1
  <2>3. CASE got' = [got EXCEPT ![c] = @ \cup {n}]
    <3>1. \A d \in Configs : got[d] \subseteq got'[d]
      BY <2>1, <2>3
    <3>2. \A d \in Configs : \A m \in got'[d] : 1..m \subseteq got'[d]
      <4>. SUFFICES ASSUME NEW d \in Configs, NEW m \in got'[d]
                    PROVE  1..m \subseteq got'[d]
        OBVIOUS
      <4>1. CASE m \in got[d]
        BY <3>1, <4>1
      <4>2. CASE m \notin got[d]
        BY <2>1, <2>2, <2>3, <4>2
      <4>. QED
        BY <4>1, <4>2
    <3>3. NothingSkipped'
      BY <1>13, <3>1, <3>2 DEF PostFails
    <3>4. n \in got'[c]
      BY <2>1, <2>3
    <3>5. LocalCovered'
      BY <1>13, <3>1, <3>4 DEF PostFails, Goto
    <3>. QED
      BY <3>3, <3>5
  <2>4. CASE got' = got
    BY <1>13, <2>4 DEF PostFails, Goto, Receive
  <2>. QED
    BY <1>13, <2>3, <2>4 DEF PostFails, Receive
<1>14. ASSUME NEW y \in Workers, advance_push_delivered(y)
      PROVE  LocalCovered' /\ NothingSkipped'
  <2>. DEFINE c == mine[y]  n == seen[y] + 1
  <2>1. c \in Configs /\ n \in Nat /\ 1..seen[y] \subseteq got[c] /\ n \in got[c]
    BY <1>14 DEF advance_push_delivered
  <2>2. 1..n \subseteq got[c]
    BY <2>1
  <2>3. NothingSkipped'
    BY <1>14, <2>1, <2>2 DEF advance_push_delivered, AdvanceRow, Advanced
  <2>4. LocalCovered'
    <3>1. seen' = [seen EXCEPT ![y] = n] /\ mine' = mine /\ got' = got
      BY <1>14 DEF advance_push_delivered, Advanced
    <3>2. pc'[y] # "advance" /\ \A w \in Workers \ {y} : pc'[w] = pc[w]
      BY <1>14 DEF advance_push_delivered, Advanced, Goto
    <3>. QED
      BY <2>2, <3>1, <3>2
  <2>. QED
    BY <2>3, <2>4
<1>15. ASSUME NEW y \in Workers, release_push_config(y)
      PROVE  LocalCovered' /\ NothingSkipped'
  BY <1>15 DEF release_push_config, Done, Exists
<1>16. ASSUME NEW y \in Workers, bump_push_attempts(y)
      PROVE  LocalCovered' /\ NothingSkipped'
  BY <1>16 DEF bump_push_attempts, Goto, Exists
<1>17. ASSUME NEW y \in Workers, BumpFindsNoRow(y)
      PROVE  LocalCovered' /\ NothingSkipped'
  BY <1>17 DEF BumpFindsNoRow, Done
<1>18. ASSUME NEW y \in Workers, schedule_push_retry(y)
      PROVE  LocalCovered' /\ NothingSkipped'
  BY <1>18 DEF schedule_push_retry, Done, Exists
<1>19. ASSUME NEW y \in Workers, StatementFails(y)
      PROVE  LocalCovered' /\ NothingSkipped'
  BY <1>19 DEF StatementFails, Done
<1>20. ASSUME NEW y \in Workers, Crash(y)
      PROVE  LocalCovered' /\ NothingSkipped'
  BY <1>20 DEF Crash, Done
<1>21. CASE UNCHANGED vars
  BY <1>21
<1>. QED
  BY <1>1, <1>2, <1>3, <1>4, <1>5, <1>6, <1>7, <1>8, <1>9, <1>10, <1>11,
     <1>12, <1>13, <1>14, <1>15, <1>16, <1>17, <1>18, <1>19, <1>20, <1>21
     DEF Next, EventLog, Registration, Clock, deliver_next_due,
     deliver_claimed

\* NothingSkipped, under every fault: no event is lost and the first delivery
\* of every event is in order.
THEOREM NoEventSkipped == Spec => []NothingSkipped
<1>1. Init => LocalCovered /\ NothingSkipped
  BY DEF Init, LocalCovered, NothingSkipped
<1>2. /\ TypeOK /\ InHand /\ LocalCovered /\ NothingSkipped
      /\ [Next]_vars
      => LocalCovered' /\ NothingSkipped'
  BY StepCovered
<1>. QED
  BY <1>1, <1>2, Hands, PTL DEF Spec

\* While nobody stalls, every step keeps one deliverer and its lease.
LEMMA StepExclusive ==
    ASSUME "stall" \notin Faults, TypeOK, InHand, OneDeliverer, LeaseProtects, [Next]_vars
    PROVE  OneDeliverer' /\ LeaseProtects'
<1>. USE DEF TypeOK, InHand, OneDeliverer, LeaseProtects, Delivers, vars,
   logVars, rowVars, workerVars, hookVars
<1>1. CASE append_transition_events
  BY <1>1 DEF append_transition_events, append_event
<1>2. CASE append_terminal_status
  BY <1>2 DEF append_terminal_status, append_event
<1>3. CASE sweep_terminal_a2a_tasks
  BY <1>3 DEF sweep_terminal_a2a_tasks
<1>4. ASSUME NEW x \in Configs, count_active_push_configs(x)
      PROVE  OneDeliverer' /\ LeaseProtects'
  BY <1>4 DEF count_active_push_configs, SetState
<1>5. ASSUME NEW x \in Configs, insert_push_config(x)
      PROVE  OneDeliverer' /\ LeaseProtects'
  BY <1>5 DEF insert_push_config, SetState
<1>6. ASSUME NEW x \in Configs, CreateFails(x)
      PROVE  OneDeliverer' /\ LeaseProtects'
  BY <1>6 DEF CreateFails, SetState
<1>7. ASSUME NEW x \in Configs, delete_push_config(x)
      PROVE  OneDeliverer' /\ LeaseProtects'
  BY <1>7 DEF delete_push_config, SetState
<1>8. ASSUME NEW x \in Configs, LeaseExpires(x)
      PROVE  OneDeliverer' /\ LeaseProtects'
  BY <1>8 DEF LeaseExpires
<1>9. ASSUME NEW x \in Configs, BackoffElapses(x)
      PROVE  OneDeliverer' /\ LeaseProtects'
  BY <1>9 DEF BackoffElapses
<1>10. ASSUME NEW y \in Workers, NEW x \in Configs,
             claim_next_push_config(y, x)
      PROVE  OneDeliverer' /\ LeaseProtects'
  BY <1>10 DEF claim_next_push_config, Take, Goto
<1>11. ASSUME NEW y \in Workers, next_push_event(y)
      PROVE  OneDeliverer' /\ LeaseProtects'
  BY <1>11 DEF next_push_event, Goto
<1>12. ASSUME NEW y \in Workers, PostSucceeds(y)
      PROVE  OneDeliverer' /\ LeaseProtects'
  BY <1>12 DEF PostSucceeds, Receive, Goto
<1>13. ASSUME NEW y \in Workers, PostFails(y)
      PROVE  OneDeliverer' /\ LeaseProtects'
  BY <1>13 DEF PostFails, Receive, Goto
<1>14. ASSUME NEW y \in Workers, advance_push_delivered(y)
      PROVE  OneDeliverer' /\ LeaseProtects'
  BY <1>14 DEF advance_push_delivered, AdvanceRow, Advanced, Goto, Exists
<1>15. ASSUME NEW y \in Workers, release_push_config(y)
      PROVE  OneDeliverer' /\ LeaseProtects'
  BY <1>15 DEF release_push_config, Done, Exists
<1>16. ASSUME NEW y \in Workers, bump_push_attempts(y)
      PROVE  OneDeliverer' /\ LeaseProtects'
  BY <1>16 DEF bump_push_attempts, Goto, Exists
<1>17. ASSUME NEW y \in Workers, BumpFindsNoRow(y)
      PROVE  OneDeliverer' /\ LeaseProtects'
  BY <1>17 DEF BumpFindsNoRow, Done
<1>18. ASSUME NEW y \in Workers, schedule_push_retry(y)
      PROVE  OneDeliverer' /\ LeaseProtects'
  <2>1. \A w \in Workers, c \in Configs : Delivers(w, c)' => w # y /\ Delivers(w, c)
    BY <1>18 DEF schedule_push_retry, Done
  <2>2. OneDeliverer'
    BY <2>1
  <2>3. \A c \in Configs : lease'[c] = lease[c] \/ Delivers(y, c)
    BY <1>18 DEF schedule_push_retry
  <2>4. LeaseProtects'
    BY <1>18, <2>1, <2>3
  <2>. QED
    BY <2>2, <2>4
<1>19. ASSUME NEW y \in Workers, StatementFails(y)
      PROVE  OneDeliverer' /\ LeaseProtects'
  BY <1>19 DEF StatementFails, Done
<1>20. ASSUME NEW y \in Workers, Crash(y)
      PROVE  OneDeliverer' /\ LeaseProtects'
  BY <1>20 DEF Crash, Done
<1>21. CASE UNCHANGED vars
  BY <1>21
<1>. QED
  BY <1>1, <1>2, <1>3, <1>4, <1>5, <1>6, <1>7, <1>8, <1>9, <1>10, <1>11,
     <1>12, <1>13, <1>14, <1>15, <1>16, <1>17, <1>18, <1>19, <1>20, <1>21
     DEF Next, EventLog, Registration, Clock, deliver_next_due,
     deliver_claimed

\* OneDeliverer, while nobody stalls.
THEOREM LeaseExclusion ==
    ASSUME "stall" \notin Faults
    PROVE  Spec => []OneDeliverer
<1>1. Init => OneDeliverer /\ LeaseProtects
  BY DEF Init, OneDeliverer, LeaseProtects, Delivers
<1>2. /\ TypeOK /\ InHand /\ OneDeliverer /\ LeaseProtects
      /\ [Next]_vars
      => OneDeliverer' /\ LeaseProtects'
  BY StepExclusive
<1>. QED
  BY <1>1, <1>2, Hands, PTL DEF Spec

\* While one worker at a time delivers a config, its local cursor is the
\* row's and the webhook is at most one event ahead.
LEMMA StepExact ==
    ASSUME TypeOK, InHand, OneDeliverer, LeaseProtects, LocalIsExact, HookTrails, [Next]_vars
    PROVE  LocalIsExact' /\ HookTrails'
<1>. USE DEF TypeOK, InHand, OneDeliverer, LeaseProtects, LocalIsExact,
   HookTrails, Delivers, vars, logVars, rowVars, workerVars, hookVars
<1>1. CASE append_transition_events
  BY <1>1 DEF append_transition_events, append_event
<1>2. CASE append_terminal_status
  BY <1>2 DEF append_terminal_status, append_event
<1>3. CASE sweep_terminal_a2a_tasks
  BY <1>3 DEF sweep_terminal_a2a_tasks
<1>4. ASSUME NEW x \in Configs, count_active_push_configs(x)
      PROVE  LocalIsExact' /\ HookTrails'
  BY <1>4 DEF count_active_push_configs, SetState
<1>5. ASSUME NEW x \in Configs, insert_push_config(x)
      PROVE  LocalIsExact' /\ HookTrails'
  BY <1>5 DEF insert_push_config, SetState
<1>6. ASSUME NEW x \in Configs, CreateFails(x)
      PROVE  LocalIsExact' /\ HookTrails'
  BY <1>6 DEF CreateFails, SetState
<1>7. ASSUME NEW x \in Configs, delete_push_config(x)
      PROVE  LocalIsExact' /\ HookTrails'
  BY <1>7 DEF delete_push_config, SetState
<1>8. ASSUME NEW x \in Configs, LeaseExpires(x)
      PROVE  LocalIsExact' /\ HookTrails'
  BY <1>8 DEF LeaseExpires
<1>9. ASSUME NEW x \in Configs, BackoffElapses(x)
      PROVE  LocalIsExact' /\ HookTrails'
  BY <1>9 DEF BackoffElapses
<1>10. ASSUME NEW y \in Workers, NEW x \in Configs,
             claim_next_push_config(y, x)
      PROVE  LocalIsExact' /\ HookTrails'
  BY <1>10 DEF claim_next_push_config, Take, Goto
<1>11. ASSUME NEW y \in Workers, next_push_event(y)
      PROVE  LocalIsExact' /\ HookTrails'
  BY <1>11 DEF next_push_event, Goto
<1>12. ASSUME NEW y \in Workers, PostSucceeds(y)
      PROVE  LocalIsExact' /\ HookTrails'
  BY <1>12 DEF PostSucceeds, Receive, Goto
<1>13. ASSUME NEW y \in Workers, PostFails(y)
      PROVE  LocalIsExact' /\ HookTrails'
  BY <1>13 DEF PostFails, Receive, Goto
<1>14. ASSUME NEW y \in Workers, advance_push_delivered(y)
      PROVE  LocalIsExact' /\ HookTrails'
  <2>. DEFINE c == mine[y]  n == seen[y] + 1
  <2>1. c \in Configs /\ n \in Nat /\ Delivers(y, c) /\ latest[c] <= n
    BY <1>14 DEF advance_push_delivered
  <2>2. \A w \in Workers : w # y => ~Delivers(w, c)
    BY <2>1
  <2>3. /\ seen' = [seen EXCEPT ![y] = n] /\ mine' = mine
        /\ latest' = latest /\ state' = state
        /\ \A w \in Workers \ {y} : pc'[w] = pc[w]
    BY <1>14 DEF advance_push_delivered, Advanced, Goto
  <2>4. \A d \in Configs \ {c} : cursor'[d] = cursor[d]
    BY <1>14, <2>1 DEF advance_push_delivered, AdvanceRow
  <2>5. state[c] # "deleted" => cursor'[c] = n
    <3>1. state[c] # "deleted" => Exists(c) /\ cursor[c] < n
      BY <1>14, <2>1 DEF Exists, State
    <3>. QED
      BY <1>14, <2>1, <3>1 DEF advance_push_delivered, AdvanceRow
  <2>6. HookTrails'
    <3>. SUFFICES ASSUME NEW d \in Configs, state[d] # "deleted"
                  PROVE  latest[d] <= cursor'[d] + 1
      BY <2>3
    <3>1. CASE d = c
      BY <2>1, <2>5, <3>1
    <3>2. CASE d # c
      BY <2>4, <3>2
    <3>. QED
      BY <3>1, <3>2
  <2>7. LocalIsExact'
    <3>. SUFFICES ASSUME NEW w \in Workers, NEW d \in Configs, Delivers(w, d)'
                  PROVE  /\ latest'[d] <= seen'[w] + 1
                         /\ state'[d] # "deleted" => cursor'[d] = seen'[w]
      OBVIOUS
    <3>1. CASE w = y
      BY <2>1, <2>3, <2>5, <3>1
    <3>2. CASE w # y
      BY <2>2, <2>3, <2>4, <3>2
    <3>. QED
      BY <3>1, <3>2
  <2>. QED
    BY <2>6, <2>7
<1>15. ASSUME NEW y \in Workers, release_push_config(y)
      PROVE  LocalIsExact' /\ HookTrails'
  BY <1>15 DEF release_push_config, Done, Exists
<1>16. ASSUME NEW y \in Workers, bump_push_attempts(y)
      PROVE  LocalIsExact' /\ HookTrails'
  BY <1>16 DEF bump_push_attempts, Goto, Exists
<1>17. ASSUME NEW y \in Workers, BumpFindsNoRow(y)
      PROVE  LocalIsExact' /\ HookTrails'
  BY <1>17 DEF BumpFindsNoRow, Done
<1>18. ASSUME NEW y \in Workers, schedule_push_retry(y)
      PROVE  LocalIsExact' /\ HookTrails'
  BY <1>18 DEF schedule_push_retry, Done, Exists
<1>19. ASSUME NEW y \in Workers, StatementFails(y)
      PROVE  LocalIsExact' /\ HookTrails'
  BY <1>19 DEF StatementFails, Done
<1>20. ASSUME NEW y \in Workers, Crash(y)
      PROVE  LocalIsExact' /\ HookTrails'
  BY <1>20 DEF Crash, Done
<1>21. CASE UNCHANGED vars
  BY <1>21
<1>. QED
  BY <1>1, <1>2, <1>3, <1>4, <1>5, <1>6, <1>7, <1>8, <1>9, <1>10, <1>11,
     <1>12, <1>13, <1>14, <1>15, <1>16, <1>17, <1>18, <1>19, <1>20, <1>21
     DEF Next, EventLog, Registration, Clock, deliver_next_due,
     deliver_claimed

\* From there, no POST takes the webhook back.
LEMMA StepInOrder ==
    ASSUME TypeOK, InHand, LocalIsExact, [Next]_vars
    PROVE  \A c \in Configs : latest'[c] >= latest[c]
<1>1. ASSUME NEW y \in Workers, PostSucceeds(y)
      PROVE  \A c \in Configs : latest'[c] >= latest[c]
  BY <1>1 DEF PostSucceeds, TypeOK, InHand, LocalIsExact,
     Delivers, Receive, hookVars
<1>2. ASSUME NEW y \in Workers, PostFails(y)
      PROVE  \A c \in Configs : latest'[c] >= latest[c]
  BY <1>2 DEF PostFails, TypeOK, InHand, LocalIsExact,
     Delivers, Receive, hookVars
<1>3. latest' = latest \/ (\E y \in Workers : PostSucceeds(y)) \/ (\E y \in Workers : PostFails(y))
  BY DEF Next, EventLog, Registration, Clock, deliver_next_due,
     deliver_claimed, append_transition_events, append_terminal_status, append_event,
     sweep_terminal_a2a_tasks, count_active_push_configs, insert_push_config,
     CreateFails, delete_push_config, SetState, LeaseExpires, BackoffElapses,
     claim_next_push_config, Take, next_push_event, advance_push_delivered, AdvanceRow, Advanced,
     release_push_config, bump_push_attempts, schedule_push_retry,
     BumpFindsNoRow, StatementFails, Crash, Done, vars, logVars, rowVars, workerVars, hookVars
<1>. QED
  BY <1>1, <1>2, <1>3 DEF TypeOK

\* InOrder, while nobody stalls: crashes, failing statements and lost answers
\* repeat the last event at worst.
THEOREM OrderedDelivery ==
    ASSUME "stall" \notin Faults
    PROVE  Spec => InOrder
<1>1. Init => OneDeliverer /\ LeaseProtects /\ LocalIsExact /\ HookTrails
  BY DEF Init, OneDeliverer, LeaseProtects, LocalIsExact, HookTrails, Delivers
<1>2. /\ TypeOK /\ InHand /\ OneDeliverer /\ LeaseProtects /\ LocalIsExact
      /\ HookTrails /\ [Next]_vars
      => OneDeliverer' /\ LeaseProtects' /\ LocalIsExact' /\ HookTrails'
  BY StepExclusive, StepExact
<1>3. TypeOK /\ InHand /\ LocalIsExact /\ [Next]_vars
          => [\A c \in Configs : latest'[c] >= latest[c]]_vars
  BY StepInOrder
<1>. QED
  BY <1>1, <1>2, <1>3, Hands, PTL DEF InOrder, Spec
=============================================================================
