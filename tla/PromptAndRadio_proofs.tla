------------------------- MODULE PromptAndRadio_proofs -------------------------
(* Two components without a lock or a state in common.  First the operator    *)
(* prompt: until the bench is reset, one handler at a time has a prompt on    *)
(* show, the buttons answer that prompt, and its script is told what was      *)
(* clicked.  Then the WiFi radio: it has one role at a time, which ends       *)
(* before another begins, and an AP that is up has one watcher.               *)
EXTENDS HumanPrompt, WifiRadio, FiniteSetTheorems, TLAPS

-----------------------------------------------------------------------------
(* The operator prompt.                                                      *)
USE PostsAssumption, ResetsAssumption

\* The part of the invariant that a bench reset ends.
FirstInv == OneHandler /\ WaitsOnOwn /\ WokenByClick /\ FreshAfter /\ OwnAnswer

\* Nothing is on show when the portal starts.
LEMMA PromptInitInv ==
    ASSUME PromptInit
    PROVE  PromptInv
<1>1. PromptTypeOK
  <2>1. made \in 0..MaxPosts /\ resets \in 0..MaxResets
    BY DEF PromptInit
  <2>2. confirmed \in BOOLEAN /\ responded \in [Caller -> BOOLEAN]
    BY DEF PromptInit
  <2>3. pc \in [Caller -> {"idle", "posted", "wait", "cleanup"}]
    BY DEF PromptInit
  <2>4. mine \in [Caller -> Prompt \cup {NoPrompt}] /\ on \in [Caller -> Prompt \cup {NoPrompt}]
    BY DEF PromptInit
  <2>5. /\ verdict \in [Prompt -> Button \cup {"none"}] /\ answer \in [Prompt -> Answer]
        /\ seen \in [Prompt -> Prompt \cup {NoPrompt}]
    BY DEF PromptInit, Answer
  <2> QED BY <2>1, <2>2, <2>3, <2>4, <2>5 DEF PromptInit, PromptTypeOK
<1>2. event <= made
  BY DEF PromptInit, NoPrompt
<1>3. FirstInv
  BY DEF PromptInit, FirstInv, OneHandler, WaitsOnOwn, WokenByClick, FreshAfter, OwnAnswer, NoPrompt, Prompt
<1> QED BY <1>1, <1>2, <1>3 DEF PromptInv, FirstInv

\* Every step keeps the types, and the prompt on show is one that was posted.
LEMMA PromptTypeStep ==
    ASSUME PromptInv, [PromptNext]_promptVars
    PROVE  PromptTypeOK' /\ (event <= made)'
<1> USE DEF PromptTypeOK
<1>0. PromptTypeOK /\ event <= made
  BY DEF PromptInv
<1>1. ASSUME NEW c \in Caller, PostPrompt(c) PROVE PromptTypeOK' /\ (event <= made)'
  <2>1. made' = made + 1 /\ made' \in Prompt /\ made' \in 0..MaxPosts
    BY <1>0, <1>1 DEF PostPrompt, Prompt
  <2>2. event' = made' /\ message' = made' /\ mine' = [mine EXCEPT ![c] = made']
    BY <1>1 DEF PostPrompt
  <2>3. PromptTypeOK'
    BY <1>0, <1>1, <2>1, <2>2 DEF PostPrompt
  <2> QED BY <2>1, <2>2, <2>3
<1>2. ASSUME NEW c \in Caller, Wait(c) PROVE PromptTypeOK' /\ (event <= made)'
  BY <1>0, <1>2 DEF Wait
<1>3. ASSUME NEW c \in Caller, WaitRaises(c) PROVE PromptTypeOK' /\ (event <= made)'
  BY <1>0, <1>3 DEF WaitRaises, Answer
<1>4. ASSUME NEW c \in Caller, WaitReturns(c) PROVE PromptTypeOK' /\ (event <= made)'
  BY <1>0, <1>4 DEF WaitReturns
<1>5. ASSUME NEW c \in Caller, Cleanup(c) PROVE PromptTypeOK' /\ (event <= made)'
  <2>1. Told(c) \in Answer
    BY DEF Told, Answer
  <2>2. PromptTypeOK'
    BY <1>0, <1>5, <2>1 DEF Cleanup
  <2>3. event' = 0 /\ made' \in Nat
    BY <1>0, <1>5 DEF Cleanup, NoPrompt
  <2> QED BY <2>2, <2>3
<1>6. CASE Poll
  BY <1>0, <1>6 DEF Poll
<1>7. CASE Press
  <2>1. click' \in Click
    BY <1>0, <1>7 DEF Press, Click, Button
  <2> QED BY <1>0, <1>7, <2>1 DEF Press
<1>8. CASE Accept
  <2>1. click.button \in Button /\ click.shown \in Prompt \cup {NoPrompt}
    BY <1>0, <1>8 DEF Accept, Click
  <2>2. event \in Prompt
    BY <1>0, <1>8 DEF Accept, Pending
  <2> QED BY <1>0, <1>8, <2>1, <2>2 DEF Accept
<1>9. CASE Reject
  BY <1>0, <1>9 DEF Reject
<1>10. CASE Reset
  <2>1. resets' \in 0..MaxResets
    BY <1>0, <1>10 DEF Reset
  <2>2. woken' \subseteq Prompt /\ event' = 0 /\ message' = 0
    BY <1>0, <1>10 DEF Reset, NoPrompt
  <2>3. PromptTypeOK'
    BY <1>0, <1>10, <2>1, <2>2 DEF Reset, NoPrompt
  <2> QED BY <1>0, <1>10, <2>2, <2>3 DEF Reset
<1>11. CASE UNCHANGED promptVars
  BY <1>0, <1>11 DEF promptVars
<1> QED BY <1>1, <1>2, <1>3, <1>4, <1>5, <1>6, <1>7, <1>8, <1>9, <1>10, <1>11 DEF PromptNext, Handle

\* Every step but a bench reset keeps the rest.
LEMMA PromptFirstStep ==
    ASSUME PromptInv, FirstInv, [PromptNext]_promptVars, resets' = 0
    PROVE  FirstInv'
<1> USE DEF PromptInv, FirstInv, OneHandler, WaitsOnOwn, WokenByClick, FreshAfter, OwnAnswer
<1>0. PromptTypeOK /\ PromptTypeOK' /\ event <= made
  BY PromptTypeStep
<1>1. ASSUME NEW c \in Caller, PostPrompt(c) PROVE FirstInv'
  <2>1. \A d \in Caller : pc[d] = "idle"
    BY <1>1 DEF PostPrompt, NonePending
  <2>2. made' \in Prompt /\ made' > made /\ made' # NoPrompt
    BY <1>0, <1>1 DEF PostPrompt, PromptTypeOK, Prompt, NoPrompt
  <2>3. made' \notin woken /\ verdict[made'] = "none"
    BY <2>2
  <2>4. OneHandler' /\ WaitsOnOwn'
    BY <1>0, <1>1, <2>1, <2>2 DEF PostPrompt, PromptTypeOK
  <2>5. WokenByClick'
    BY <1>0, <1>1, <2>1, <2>3 DEF PostPrompt, PromptTypeOK
  <2>6. FreshAfter' /\ OwnAnswer'
    BY <1>0, <1>1 DEF PostPrompt, PromptTypeOK, Prompt
  <2> QED BY <2>4, <2>5, <2>6
<1>2. ASSUME NEW c \in Caller, Wait(c) PROVE FirstInv'
  BY <1>0, <1>2 DEF Wait, PromptTypeOK
<1>3. ASSUME NEW c \in Caller, WaitRaises(c) PROVE FirstInv'
  BY <1>3 DEF WaitRaises
<1>4. ASSUME NEW c \in Caller, WaitReturns(c) PROVE FirstInv'
  BY <1>0, <1>4 DEF WaitReturns, PromptTypeOK
<1>5. ASSUME NEW c \in Caller, Cleanup(c) PROVE FirstInv'
  <2>1. event = mine[c] /\ mine[c] \in Prompt /\ mine[c] <= made
    BY <1>0, <1>5 DEF Cleanup, PromptTypeOK
  <2>2. Told(c) = "confirmed" => verdict[mine[c]] = "done"
    BY <2>1, <1>5 DEF Cleanup, Told
  <2>3. Told(c) = "cancelled" => verdict[mine[c]] = "cancel"
    BY <1>0, <2>1, <1>5 DEF Cleanup, Told, PromptTypeOK, Button
  <2>4. OneHandler' /\ WaitsOnOwn' /\ WokenByClick'
    BY <1>0, <1>5 DEF Cleanup, PromptTypeOK
  <2>5. OwnAnswer'
    BY <1>0, <1>5, <2>2, <2>3 DEF Cleanup, PromptTypeOK
  <2>6. FreshAfter'
    BY <1>0, <1>5, <2>1 DEF Cleanup, PromptTypeOK, Prompt
  <2> QED BY <2>4, <2>5, <2>6
<1>6. CASE Poll
  BY <1>6 DEF Poll
<1>7. CASE Press
  BY <1>7 DEF Press
<1>8. CASE Accept
  <2>1. event \in Prompt /\ event \notin woken /\ verdict[event] = "none"
    BY <1>0, <1>8 DEF Accept, Pending, PromptTypeOK
  <2>2. click.button \in Button
    BY <1>0, <1>8 DEF Accept, PromptTypeOK, Click
  <2>3. verdict' = [verdict EXCEPT ![event] = click.button]
    BY <1>8 DEF Accept
  <2>4. OneHandler' /\ WaitsOnOwn'
    BY <1>8 DEF Accept
  <2>5. WokenByClick'
    <3>1. woken' = woken \cup {event} /\ event' = event /\ event # NoPrompt
      BY <1>8 DEF Accept, Pending
    <3>2. \A p \in Prompt : p \in woken' <=> verdict'[p] # "none"
      BY <1>0, <2>1, <2>2, <2>3, <3>1 DEF PromptTypeOK, Button
    <3>3. confirmed' <=> verdict'[event] = "done"
      <4>1. verdict'[event] = click.button
        BY <1>0, <2>1, <2>3 DEF PromptTypeOK
      <4>2. confirmed' = (click.button = "done")
        BY <1>8 DEF Accept
      <4> QED BY <4>1, <4>2
    <3>4. \A c \in Caller : pc'[c] = "cleanup" /\ responded'[c] => mine'[c] \in woken'
      BY <1>8, <3>1 DEF Accept
    <3> QED BY <3>1, <3>2, <3>3, <3>4
  <2>6. FreshAfter' /\ OwnAnswer'
    <3>1. ~(event > made)
      BY <1>0 DEF PromptTypeOK, Prompt, NoPrompt
    <3>2. answer[event] \notin {"confirmed", "cancelled"}
      BY <2>1
    <3> QED BY <1>0, <1>8, <2>3, <3>1, <3>2 DEF Accept, PromptTypeOK, Prompt
  <2> QED BY <2>4, <2>5, <2>6
<1>9. CASE Reject
  BY <1>9 DEF Reject
<1>10. CASE Reset
  BY <1>0, <1>10 DEF Reset, PromptTypeOK
<1>11. CASE UNCHANGED promptVars
  BY <1>11 DEF promptVars
<1> QED BY <1>1, <1>2, <1>3, <1>4, <1>5, <1>6, <1>7, <1>8, <1>9, <1>10, <1>11 DEF PromptNext, Handle

-----------------------------------------------------------------------------
\* The inductive invariant holds throughout (portal.py, _human_lock and the
\* wait outside it).
THEOREM PromptInvariant == PromptSpec => []PromptInv
<1>1. PromptInit => PromptInv
  BY PromptInitInv
<1>2. PromptInv /\ [PromptNext]_promptVars => PromptInv'
  <2> SUFFICES ASSUME PromptInv, [PromptNext]_promptVars PROVE PromptInv'
    OBVIOUS
  <2>1. PromptTypeOK' /\ (event <= made)'
    BY PromptTypeStep
  <2>2. ASSUME resets' = 0 PROVE FirstInv'
    <3>1. resets = 0
      BY <2>2 DEF PromptInv, PromptTypeOK, PromptNext, Handle, PostPrompt, Wait, WaitRaises, WaitReturns,
                  Cleanup, Poll, Press, Accept, Reject, Reset, promptVars
    <3>2. FirstInv
      BY <3>1 DEF PromptInv, FirstInv
    <3> QED BY <2>2, <3>2, PromptFirstStep
  <2> QED BY <2>1, <2>2 DEF PromptInv, FirstInv
<1> QED BY <1>1, <1>2, PTL DEF PromptSpec

\* FR-017: until a bench reset, whoever is still blocked has the one prompt
\* that the buttons answer.
THEOREM OnePendingPrompt == PromptSpec => []OnePendingAtFirst
<1>1. PromptInv => OnePendingAtFirst
  BY DEF PromptInv, OnePendingAtFirst, OnePending, OneHandler, Blocked
<1> QED BY <1>1, PromptInvariant, PTL

\* FR-017: until a bench reset, `confirmed` and `cancelled` are told for a click
\* on the script's own prompt.
THEOREM AnswersAreOwn == PromptSpec => []OwnAnswerAtFirst
<1>1. PromptInv => OwnAnswerAtFirst
  BY DEF PromptInv, OwnAnswerAtFirst
<1> QED BY <1>1, PromptInvariant, PTL

-----------------------------------------------------------------------------
(* The WiFi radio.                                                           *)
USE NoneAssumption, CountAssumption, MacAssumption, PostedAssumption

ProcessTypeOK ==
    /\ lock \in Thread \cup {None} /\ mode \in Modes
    /\ ap \in Ssid \cup {None} /\ hproc \in Ssid \cup {None} /\ saved \in Ssid \cup {None}
    /\ hostapd \in SUBSET Ssid
    /\ sta \in Net \cup {None} /\ wpa \in Net \cup {None}
FlagTypeOK ==
    /\ dnsmasq \in BOOLEAN /\ polled \in BOOLEAN /\ entering \in BOOLEAN /\ swept \in BOOLEAN
ClientTypeOK ==
    /\ watchers \in Nat
    /\ assoc \in SUBSET Mac /\ unread \in SUBSET Mac /\ leased \in SUBSET Mac
    /\ stations \in SUBSET Mac /\ notices \in Seq({"add", "del", "old"} \X Mac)
    /\ granted \in Nat
Places == {"idle", "call", "lock", "beacon", "serve", "associate", "survey"}
ThreadTypeOK ==
    /\ req \in [Thread -> Posted \cup {None}] /\ todo \in [Thread -> Seq(Call)]
    /\ at \in [Thread -> Places] /\ requests \in Nat
ScanTypeOK ==
    /\ tries \in [Thread -> 0..(SCAN_ATTEMPTS - 1)] /\ quiet \in [Thread -> BOOLEAN]
    /\ result \in [Thread -> {None, "networks", "error"}]

\* The type invariant by subject.
LEMMA TypeParts ==
    TypeOK <=> ProcessTypeOK /\ FlagTypeOK /\ ClientTypeOK /\ ThreadTypeOK /\ ScanTypeOK
  BY DEF TypeOK, ProcessTypeOK, FlagTypeOK, ClientTypeOK, ThreadTypeOK, ScanTypeOK, Places

-----------------------------------------------------------------------------
\* The argument of a call is what its operation takes.
LEMMA CallArgument ==
    ASSUME NEW c \in Call
    PROVE  /\ c.op # "none"
           /\ c.op = "ap_start" => c.arg \in Ssid
           /\ c.op \in {"sta_join", "sta_join_internal"} => c.arg \in Net
           /\ c.op = "set_mode" => c.arg \in Modes
  BY DEF Call

\* The head of a non-empty list of calls is a call, and the rest is a list.
LEMMA NextCall ==
    ASSUME ThreadTypeOK, NEW t \in Thread, Op(t) # "none"
    PROVE  /\ Head(todo[t]) \in Call /\ Rest(t) \in Seq(Call)
           /\ Op(t) = "ap_start" => Arg(t) \in Ssid
           /\ Op(t) \in {"sta_join", "sta_join_internal"} => Arg(t) \in Net
           /\ Op(t) = "set_mode" => Arg(t) \in Modes
<1>1. todo[t] \in Seq(Call) /\ todo[t] # <<>>
  BY DEF ThreadTypeOK, Op
<1>2. Head(todo[t]) \in Call /\ Rest(t) \in Seq(Call)
  BY <1>1 DEF Rest
<1>3. Op(t) = Head(todo[t]).op /\ Arg(t) = Head(todo[t]).arg
  BY <1>1 DEF Op, Arg
<1> QED BY <1>2, <1>3, CallArgument

\* Every handler makes a list of calls.
LEMMA ProgramTyped ==
    ASSUME NEW r \in Posted, NEW calls \in Program(r)
    PROVE  calls \in Seq(Call)
<1>1. \A s \in Ssid : On("ap_start", s) \in Call
  BY DEF On, Call
<1>2. \A n \in Net : On("sta_join", n) \in Call /\ On("sta_join_internal", n) \in Call
  BY DEF On, Call
<1>3. \A m \in Modes : On("set_mode", m) \in Call
  BY DEF On, Call
<1>4. \A op \in {"ap_stop", "sta_leave", "revert", "relay", "scan", "check", "flag"} : Do(op) \in Call
  BY DEF Do, Call
<1>5. CASE r = "ap_start"
  <2>1. PICK s \in Ssid : calls = <<On("ap_start", s)>>
    BY <1>5 DEF Program
  <2> QED BY <1>1, <2>1
<1>6. CASE r = "sta_join"
  <2>1. PICK n \in Net : calls = <<On("sta_join", n)>>
    BY <1>6 DEF Program
  <2> QED BY <1>2, <2>1
<1>7. CASE r = "serial"
  <2>1. PICK n \in Net : calls = <<On("set_mode", "serial-interface"), On("sta_join_internal", n)>>
    BY <1>7 DEF Program, SerialCalls
  <2>2. On("set_mode", "serial-interface") \in Call
    BY <1>3 DEF Modes
  <2> QED BY <1>2, <2>1, <2>2
<1>8. CASE r = "testing"
  <2>1. calls = <<On("set_mode", "wifi-testing")>>
    BY <1>8 DEF Program
  <2>2. On("set_mode", "wifi-testing") \in Call
    BY <1>3 DEF Modes
  <2> QED BY <2>1, <2>2
<1>9. CASE r = "enter_portal"
  <2>1. PICK n \in Net, s \in Ssid :
          calls = <<Do("check"), Do("flag"), On("sta_join", n), Do("relay"), Do("sta_leave"),
                    On("ap_start", s)>>
    BY <1>9 DEF Program, EnterCalls
  <2> QED BY <1>1, <1>2, <1>4, <2>1
<1>10. CASE r = "bench_reset"
  <2>1. calls = <<Do("ap_stop"), Do("sta_leave")>>
    BY <1>10 DEF Program, BenchCalls
  <2> QED BY <1>4, <2>1
<1>11. CASE r \in {"ap_stop", "sta_leave", "scan"}
  <2>1. calls = <<Do(r)>>
    BY <1>11 DEF Program
  <2> QED BY <1>4, <1>11, <2>1
<1> QED BY <1>5, <1>6, <1>7, <1>8, <1>9, <1>10, <1>11

\* A finite set can be listed, and the list has only its elements.
LEMMA ListedSet ==
    ASSUME NEW S, IsFiniteSet(S)
    PROVE  SetToSeq(S) \in Seq(S)
<1>1. Cardinality(S) \in Nat
  BY FS_CardinalityType
<1>2. PICK f \in [1..Cardinality(S) -> S] : IsInjective(f)
  BY FS_CardinalityType DEF ExistsBijection, Bijection, Injection, Surjection
<1>3. SetToSeq(S) \in [1..Cardinality(S) -> S]
  BY <1>2 DEF SetToSeq
<1> QED BY <1>1, <1>3

\* What dnsmasq reports of its lease file is a list of notifications.
LEMMA OldLeases ==
    ASSUME ClientTypeOK
    PROVE  notices \o SetToSeq({"old"} \X leased) \in Seq({"add", "del", "old"} \X Mac)
<1>1. IsFiniteSet(leased)
  BY FS_Subset DEF ClientTypeOK
<1>2. IsFiniteSet({"old"} \X leased)
  BY <1>1, FS_Singleton, FS_Product
<1>3. SetToSeq({"old"} \X leased) \in Seq({"old"} \X leased)
  BY <1>2, ListedSet
<1>4. {"old"} \X leased \subseteq {"add", "del", "old"} \X Mac
  BY DEF ClientTypeOK
<1>5. \A A, B : A \subseteq B => \A s \in Seq(A) : s \in Seq(B)
  OBVIOUS
<1>6. SetToSeq({"old"} \X leased) \in Seq({"add", "del", "old"} \X Mac)
  BY <1>3, <1>4, <1>5
<1>7. \A B : \A s, u \in Seq(B) : s \o u \in Seq(B)
  OBVIOUS
<1> QED BY <1>6, <1>7 DEF ClientTypeOK

-----------------------------------------------------------------------------
\* What a step leaves alone of the threads other than t.
Others(t) ==
    \A u \in Thread \ {t} : at'[u] = at[u] /\ todo'[u] = todo[u] /\ Op(u)' = Op(u) /\ Arg(u)' = Arg(u)

\* A thread that goes on with a list of calls.
LEMMA Continues ==
    ASSUME ThreadTypeOK, NEW t \in Thread, NEW calls \in Seq(Call), Continue(t, calls)
    PROVE  ThreadTypeOK' /\ at'[t] = "call" /\ Others(t) /\ swept' = swept
<1>1. todo' \in [Thread -> Seq(Call)] /\ \A u \in Thread \ {t} : todo'[u] = todo[u]
  BY DEF Continue, ThreadTypeOK
<1>2. at' \in [Thread -> Places] /\ at'[t] = "call" /\ \A u \in Thread \ {t} : at'[u] = at[u]
  BY DEF Continue, Goto, ThreadTypeOK, Places
<1>3. req' = req /\ swept' = swept /\ requests' = requests
  BY DEF Continue
<1> QED BY <1>1, <1>2, <1>3 DEF ThreadTypeOK, Others, Op, Arg

\* A call that returns or raises leaves its thread at its next call.
LEMMA Finishes ==
    ASSUME ThreadTypeOK, NEW t \in Thread, Op(t) # "none", Return(t) \/ Raise(t)
    PROVE  ThreadTypeOK' /\ at'[t] = "call" /\ Others(t) /\ swept' = swept
<1>1. Rest(t) \in Seq(Call)
  BY NextCall
<1>2. <<>> \in Seq(Call)
  OBVIOUS
<1>3. <<Do("revert")>> \in Seq(Call)
  <2>1. Do("revert") \in Call
    BY DEF Do, Call
  <2> QED BY <2>1
<1>4. PICK calls \in Seq(Call) : Continue(t, calls)
  BY <1>1, <1>2, <1>3 DEF Return, Raise
<1> QED BY <1>4, Continues

\* A thread that changes its place and nothing else.
LEMMA Goes ==
    ASSUME ThreadTypeOK, NEW t \in Thread, NEW l \in Places, Goto(t, l),
           UNCHANGED <<req, todo, requests>>
    PROVE  ThreadTypeOK' /\ at'[t] = l /\ Others(t) /\ Op(t)' = Op(t) /\ Arg(t)' = Arg(t)
  BY DEF Goto, ThreadTypeOK, Others, Op, Arg
-----------------------------------------------------------------------------
\* Every step keeps the types of what is known of the processes.
LEMMA ProcessStep ==
    ASSUME ProcessTypeOK, ThreadTypeOK, CallInv, [Next]_vars
    PROVE  ProcessTypeOK'
<1>1. ASSUME NEW t \in Thread, Post(t) PROVE ProcessTypeOK'
  BY <1>1 DEF Post, ProcessTypeOK, radio
<1>2. ASSUME NEW t \in Thread, Reply(t) PROVE ProcessTypeOK'
  BY <1>2 DEF Reply, ProcessTypeOK, radio
<1>3. ASSUME NEW t \in Thread, CheckMode(t) PROVE ProcessTypeOK'
  BY <1>3 DEF CheckMode, ProcessTypeOK, radio, Acquire, Free, vars
<1>4. ASSUME NEW t \in Thread, Relay(t) PROVE ProcessTypeOK'
  BY <1>4 DEF Relay, ProcessTypeOK, radio, Acquire, Free, vars
<1>5. ASSUME NEW t \in Thread, ApBegin(t) PROVE ProcessTypeOK'
  <2>1. Arg(t) \in Ssid
    BY <1>5, NextCall DEF ApBegin
  <2> QED BY <1>5, <2>1 DEF ApBegin, Acquire, OnlySupplicant, Survivors, ProcessTypeOK
<1>6. ASSUME NEW t \in Thread, ApServes(t) PROVE ProcessTypeOK'
  BY <1>6 DEF ApServes, ProcessTypeOK, radio, Acquire, Free, vars
<1>7. ASSUME NEW t \in Thread, ApUp(t) PROVE ProcessTypeOK'
  <2>1. Arg(t) \in Ssid
    BY <1>7, NextCall DEF ApUp, CallInv
  <2> QED BY <1>7, <2>1 DEF ApUp, ProcessTypeOK
<1>8. ASSUME NEW t \in Thread, ApFails(t) PROVE ProcessTypeOK'
  BY <1>8 DEF ApFails, ProcessTypeOK, radio, Acquire, Free, vars
<1>9. ASSUME NEW t \in Thread, ApStop(t) PROVE ProcessTypeOK'
  BY <1>9 DEF ApStop, Free, ApStopped, Inactive, Survivors, ProcessTypeOK
<1>10. ASSUME NEW t \in Thread, JoinBegin(t) PROVE ProcessTypeOK'
  <2>1. Arg(t) \in Net
    BY <1>10, NextCall DEF JoinBegin
  <2> QED BY <1>10, <2>1 DEF JoinBegin, Acquire, ApStopped, Inactive, OnlySupplicant, Survivors, ProcessTypeOK
<1>11. ASSUME NEW t \in Thread, JoinEnd(t) PROVE ProcessTypeOK'
  <2>1. Arg(t) \in Net
    BY <1>11, NextCall DEF JoinEnd, CallInv
  <2> QED BY <1>11, <2>1 DEF JoinEnd, StaStopped, ProcessTypeOK
<1>12. ASSUME NEW t \in Thread, Leave(t) PROVE ProcessTypeOK'
  BY <1>12 DEF Leave, LockLeft, StaStopped, ProcessTypeOK
<1>13. ASSUME NEW t \in Thread, SetMode(t) PROVE ProcessTypeOK'
  <2>1. Arg(t) \in Modes
    BY <1>13, NextCall DEF SetMode
  <2> QED BY <1>13, <2>1 DEF SetMode, Free, ApStopped, Inactive, StaStopped, Survivors, ProcessTypeOK
<1>14. ASSUME NEW t \in Thread, Revert(t) PROVE ProcessTypeOK'
  BY <1>14 DEF Revert, Free, Modes, ProcessTypeOK
<1>15. ASSUME NEW t \in Thread, ScanBegin(t) PROVE ProcessTypeOK'
  BY <1>15 DEF ScanBegin, ProcessTypeOK, radio, Acquire, Free, vars
<1>16. ASSUME NEW t \in Thread, Survey(t) PROVE ProcessTypeOK'
  BY <1>16 DEF Survey, ProcessTypeOK, radio, Acquire, Free, vars
<1>17. ASSUME NEW t \in Thread, EnterPortal(t) PROVE ProcessTypeOK'
  BY <1>17 DEF EnterPortal, ProcessTypeOK, radio, Acquire, Free, vars
<1>18. ASSUME NEW m \in Mac, Associate(m) PROVE ProcessTypeOK'
  BY <1>18 DEF Associate, ProcessTypeOK, radio, Acquire, Free, vars
<1>19. ASSUME NEW m \in Mac, Dissociate(m) PROVE ProcessTypeOK'
  BY <1>19 DEF Dissociate, ProcessTypeOK, radio, Acquire, Free, vars
<1>20. ASSUME NEW m \in Mac, LeaseExpires(m) PROVE ProcessTypeOK'
  BY <1>20 DEF LeaseExpires, ProcessTypeOK, radio, Acquire, Free, vars
<1>21. CASE Watch
  BY <1>21 DEF Watch, ProcessTypeOK, radio, Acquire, Free, vars
<1>22. CASE LeaseEvent
  BY <1>22 DEF LeaseEvent, ProcessTypeOK, radio, Acquire, Free, vars
<1>23. CASE HostapdDies
  BY <1>23 DEF HostapdDies, ProcessTypeOK, radio, Acquire, Free, vars
<1>24. CASE DnsmasqFails
  BY <1>24 DEF DnsmasqFails, ProcessTypeOK, radio, Acquire, Free, vars
<1>25. CASE UNCHANGED vars
  BY <1>25 DEF vars, ProcessTypeOK, radio
<1> QED BY <1>1, <1>2, <1>3, <1>4, <1>5, <1>6, <1>7, <1>8, <1>9, <1>10, <1>11, <1>12, <1>13, <1>14, <1>15, <1>16, <1>17, <1>18, <1>19, <1>20, <1>21, <1>22, <1>23, <1>24, <1>25 DEF Next, Step

\* Every step keeps the types of the flags.
LEMMA FlagStep ==
    ASSUME FlagTypeOK, [Next]_vars
    PROVE  FlagTypeOK'
<1>1. ASSUME NEW t \in Thread, Post(t) PROVE FlagTypeOK'
  BY <1>1 DEF Post, Acquire, Free, Continue, Return, Raise, ApStopped, Inactive, StaStopped, FlagTypeOK, radio, clients, threads
<1>2. ASSUME NEW t \in Thread, Reply(t) PROVE FlagTypeOK'
  BY <1>2 DEF Reply, Acquire, Free, Continue, Return, Raise, ApStopped, Inactive, StaStopped, FlagTypeOK, radio, clients, threads
<1>3. ASSUME NEW t \in Thread, CheckMode(t) PROVE FlagTypeOK'
  BY <1>3 DEF CheckMode, Acquire, Free, Continue, Return, Raise, ApStopped, Inactive, StaStopped, FlagTypeOK, radio, clients, threads
<1>4. ASSUME NEW t \in Thread, Relay(t) PROVE FlagTypeOK'
  BY <1>4 DEF Relay, Acquire, Free, Continue, Return, Raise, ApStopped, Inactive, StaStopped, FlagTypeOK, radio, clients, threads
<1>5. ASSUME NEW t \in Thread, ApBegin(t) PROVE FlagTypeOK'
  BY <1>5 DEF ApBegin, Acquire, Free, Continue, Return, Raise, ApStopped, Inactive, StaStopped, FlagTypeOK, radio, clients, threads
<1>6. ASSUME NEW t \in Thread, ApServes(t) PROVE FlagTypeOK'
  BY <1>6 DEF ApServes, Acquire, Free, Continue, Return, Raise, ApStopped, Inactive, StaStopped, FlagTypeOK, radio, clients, threads
<1>7. ASSUME NEW t \in Thread, ApUp(t) PROVE FlagTypeOK'
  BY <1>7 DEF ApUp, Acquire, Free, Continue, Return, Raise, ApStopped, Inactive, StaStopped, FlagTypeOK, radio, clients, threads
<1>8. ASSUME NEW t \in Thread, ApFails(t) PROVE FlagTypeOK'
  BY <1>8 DEF ApFails, Acquire, Free, Continue, Return, Raise, ApStopped, Inactive, StaStopped, FlagTypeOK, radio, clients, threads
<1>9. ASSUME NEW t \in Thread, ApStop(t) PROVE FlagTypeOK'
  BY <1>9 DEF ApStop, Acquire, Free, Continue, Return, Raise, ApStopped, Inactive, StaStopped, FlagTypeOK, radio, clients, threads
<1>10. ASSUME NEW t \in Thread, JoinBegin(t) PROVE FlagTypeOK'
  BY <1>10 DEF JoinBegin, Acquire, Free, Continue, Return, Raise, ApStopped, Inactive, StaStopped, FlagTypeOK, radio, clients, threads
<1>11. ASSUME NEW t \in Thread, JoinEnd(t) PROVE FlagTypeOK'
  BY <1>11 DEF JoinEnd, Acquire, Free, Continue, Return, Raise, ApStopped, Inactive, StaStopped, FlagTypeOK, radio, clients, threads
<1>12. ASSUME NEW t \in Thread, Leave(t) PROVE FlagTypeOK'
  BY <1>12 DEF Leave, Acquire, Free, Continue, Return, Raise, ApStopped, Inactive, StaStopped, FlagTypeOK, radio, clients, threads
<1>13. ASSUME NEW t \in Thread, SetMode(t) PROVE FlagTypeOK'
  BY <1>13 DEF SetMode, Acquire, Free, Continue, Return, Raise, ApStopped, Inactive, StaStopped, FlagTypeOK, radio, clients, threads
<1>14. ASSUME NEW t \in Thread, Revert(t) PROVE FlagTypeOK'
  BY <1>14 DEF Revert, Acquire, Free, Continue, Return, Raise, ApStopped, Inactive, StaStopped, FlagTypeOK, radio, clients, threads
<1>15. ASSUME NEW t \in Thread, ScanBegin(t) PROVE FlagTypeOK'
  BY <1>15 DEF ScanBegin, Acquire, Free, Continue, Return, Raise, ApStopped, Inactive, StaStopped, FlagTypeOK, radio, clients, threads
<1>16. ASSUME NEW t \in Thread, Survey(t) PROVE FlagTypeOK'
  BY <1>16 DEF Survey, Acquire, Free, Continue, Return, Raise, ApStopped, Inactive, StaStopped, FlagTypeOK, radio, clients, threads
<1>17. ASSUME NEW t \in Thread, EnterPortal(t) PROVE FlagTypeOK'
  BY <1>17 DEF EnterPortal, Acquire, Free, Continue, Return, Raise, ApStopped, Inactive, StaStopped, FlagTypeOK, radio, clients, threads
<1>18. ASSUME NEW m \in Mac, Associate(m) PROVE FlagTypeOK'
  BY <1>18 DEF Associate, Acquire, Free, Continue, Return, Raise, ApStopped, Inactive, StaStopped, FlagTypeOK, radio, clients, threads
<1>19. ASSUME NEW m \in Mac, Dissociate(m) PROVE FlagTypeOK'
  BY <1>19 DEF Dissociate, Acquire, Free, Continue, Return, Raise, ApStopped, Inactive, StaStopped, FlagTypeOK, radio, clients, threads
<1>20. ASSUME NEW m \in Mac, LeaseExpires(m) PROVE FlagTypeOK'
  BY <1>20 DEF LeaseExpires, Acquire, Free, Continue, Return, Raise, ApStopped, Inactive, StaStopped, FlagTypeOK, radio, clients, threads
<1>21. CASE Watch
  BY <1>21 DEF Watch, Acquire, Free, Continue, Return, Raise, ApStopped, Inactive, StaStopped, FlagTypeOK, radio, clients, threads
<1>22. CASE LeaseEvent
  BY <1>22 DEF LeaseEvent, Acquire, Free, Continue, Return, Raise, ApStopped, Inactive, StaStopped, FlagTypeOK, radio, clients, threads
<1>23. CASE HostapdDies
  BY <1>23 DEF HostapdDies, Acquire, Free, Continue, Return, Raise, ApStopped, Inactive, StaStopped, FlagTypeOK, radio, clients, threads
<1>24. CASE DnsmasqFails
  BY <1>24 DEF DnsmasqFails, Acquire, Free, Continue, Return, Raise, ApStopped, Inactive, StaStopped, FlagTypeOK, radio, clients, threads
<1>25. CASE UNCHANGED vars
  BY <1>25 DEF vars, Acquire, Free, Continue, Return, Raise, ApStopped, Inactive, StaStopped, FlagTypeOK, radio, clients, threads
<1> QED BY <1>1, <1>2, <1>3, <1>4, <1>5, <1>6, <1>7, <1>8, <1>9, <1>10, <1>11, <1>12, <1>13, <1>14, <1>15, <1>16, <1>17, <1>18, <1>19, <1>20, <1>21, <1>22, <1>23, <1>24, <1>25 DEF Next, Step

\* Every step keeps the types of what is known of the stations.
LEMMA ClientStep ==
    ASSUME ClientTypeOK, CallInv, [Next]_vars
    PROVE  ClientTypeOK'
<1>1. ASSUME NEW t \in Thread, Post(t) PROVE ClientTypeOK'
  BY <1>1 DEF Post, ApStopped, Inactive, ClientTypeOK, clients
<1>2. ASSUME NEW t \in Thread, Reply(t) PROVE ClientTypeOK'
  BY <1>2 DEF Reply, ApStopped, Inactive, ClientTypeOK, clients
<1>3. ASSUME NEW t \in Thread, CheckMode(t) PROVE ClientTypeOK'
  BY <1>3 DEF CheckMode, ApStopped, Inactive, ClientTypeOK, clients
<1>4. ASSUME NEW t \in Thread, Relay(t) PROVE ClientTypeOK'
  BY <1>4 DEF Relay, ApStopped, Inactive, ClientTypeOK, clients
<1>5. ASSUME NEW t \in Thread, ApBegin(t) PROVE ClientTypeOK'
  BY <1>5 DEF ApBegin, ApStopped, Inactive, ClientTypeOK, clients
<1>6. ASSUME NEW t \in Thread, ApServes(t) PROVE ClientTypeOK'
  BY <1>6, OldLeases DEF ApServes, ClientTypeOK
<1>7. ASSUME NEW t \in Thread, ApUp(t) PROVE ClientTypeOK'
  BY <1>7 DEF ApUp, WatchersAfter, ClientTypeOK
<1>8. ASSUME NEW t \in Thread, ApFails(t) PROVE ClientTypeOK'
  BY <1>8 DEF ApFails, ApStopped, Inactive, ClientTypeOK, clients
<1>9. ASSUME NEW t \in Thread, ApStop(t) PROVE ClientTypeOK'
  BY <1>9 DEF ApStop, ApStopped, Inactive, ClientTypeOK, clients
<1>10. ASSUME NEW t \in Thread, JoinBegin(t) PROVE ClientTypeOK'
  BY <1>10 DEF JoinBegin, ApStopped, Inactive, ClientTypeOK, clients
<1>11. ASSUME NEW t \in Thread, JoinEnd(t) PROVE ClientTypeOK'
  BY <1>11 DEF JoinEnd, ApStopped, Inactive, ClientTypeOK, clients
<1>12. ASSUME NEW t \in Thread, Leave(t) PROVE ClientTypeOK'
  BY <1>12 DEF Leave, ApStopped, Inactive, ClientTypeOK, clients
<1>13. ASSUME NEW t \in Thread, SetMode(t) PROVE ClientTypeOK'
  BY <1>13 DEF SetMode, ApStopped, Inactive, ClientTypeOK, clients
<1>14. ASSUME NEW t \in Thread, Revert(t) PROVE ClientTypeOK'
  BY <1>14 DEF Revert, ApStopped, Inactive, ClientTypeOK, clients
<1>15. ASSUME NEW t \in Thread, ScanBegin(t) PROVE ClientTypeOK'
  BY <1>15 DEF ScanBegin, ApStopped, Inactive, ClientTypeOK, clients
<1>16. ASSUME NEW t \in Thread, Survey(t) PROVE ClientTypeOK'
  BY <1>16 DEF Survey, ApStopped, Inactive, ClientTypeOK, clients
<1>17. ASSUME NEW t \in Thread, EnterPortal(t) PROVE ClientTypeOK'
  BY <1>17 DEF EnterPortal, ApStopped, Inactive, ClientTypeOK, clients
<1>18. ASSUME NEW m \in Mac, Associate(m) PROVE ClientTypeOK'
  BY <1>18 DEF Associate, ApStopped, Inactive, ClientTypeOK, clients
<1>19. ASSUME NEW m \in Mac, Dissociate(m) PROVE ClientTypeOK'
  BY <1>19 DEF Dissociate, ApStopped, Inactive, ClientTypeOK, clients
<1>20. ASSUME NEW m \in Mac, LeaseExpires(m) PROVE ClientTypeOK'
  BY <1>20 DEF LeaseExpires, ApStopped, Inactive, ClientTypeOK, clients
<1>21. CASE Watch
  BY <1>21 DEF Watch, ApStopped, Inactive, ClientTypeOK, clients
<1>22. CASE LeaseEvent
  <2>1. Head(notices) \in {"add", "del", "old"} \X Mac /\ notices' \in Seq({"add", "del", "old"} \X Mac)
    BY <1>22 DEF LeaseEvent, ClientTypeOK
  <2> QED BY <1>22, <2>1 DEF LeaseEvent, StationsAfter, ClientTypeOK
<1>23. CASE HostapdDies
  BY <1>23 DEF HostapdDies, ApStopped, Inactive, ClientTypeOK, clients
<1>24. CASE DnsmasqFails
  BY <1>24 DEF DnsmasqFails, ApStopped, Inactive, ClientTypeOK, clients
<1>25. CASE UNCHANGED vars
  BY <1>25 DEF vars, ApStopped, Inactive, ClientTypeOK, clients
<1> QED BY <1>1, <1>2, <1>3, <1>4, <1>5, <1>6, <1>7, <1>8, <1>9, <1>10, <1>11, <1>12, <1>13, <1>14, <1>15, <1>16, <1>17, <1>18, <1>19, <1>20, <1>21, <1>22, <1>23, <1>24, <1>25 DEF Next, Step

\* What sta_leave restores is an AP that was up.
LEMMA RestoreTyped ==
    ASSUME ProcessTypeOK
    PROVE  Restore \in Seq(Call)
<1>1. CASE saved = None
  BY <1>1 DEF Restore
<1>2. CASE saved # None
  <2>1. On("ap_start", saved) \in Call
    BY <1>2 DEF ProcessTypeOK, On, Call
  <2> QED BY <1>2, <2>1 DEF Restore
<1> QED BY <1>1, <1>2

\* Every step keeps the types of the threads' requests.
LEMMA ThreadStep ==
    ASSUME ThreadTypeOK, ProcessTypeOK, CallInv, [Next]_vars
    PROVE  ThreadTypeOK'
<1>1. ASSUME NEW t \in Thread, Post(t) PROVE ThreadTypeOK'
  <2>1. PICK r \in Posted : \E calls \in Program(r) :
          req' = [req EXCEPT ![t] = r] /\ todo' = [todo EXCEPT ![t] = calls]
    BY <1>1 DEF Post
  <2>2. PICK calls \in Seq(Call) : todo' = [todo EXCEPT ![t] = calls]
    BY <2>1, ProgramTyped
  <2> QED BY <1>1, <2>1, <2>2 DEF Post, Goto, ThreadTypeOK, Places
<1>2. ASSUME NEW t \in Thread, Reply(t) PROVE ThreadTypeOK'
  BY <1>2 DEF Reply, Goto, ThreadTypeOK, Places
<1>3. ASSUME NEW t \in Thread, CheckMode(t) PROVE ThreadTypeOK'
  <2>1. CASE mode # "wifi-testing"
    <3>1. Op(t) # "none" /\ Raise(t)
      BY <1>3, <2>1 DEF CheckMode
    <3> QED BY <3>1, Finishes
  <2>2. CASE mode = "wifi-testing"
    BY <1>3, <2>2, Goes DEF CheckMode, Places
  <2> QED BY <2>1, <2>2
<1>4. ASSUME NEW t \in Thread, Relay(t) PROVE ThreadTypeOK'
  <2>1. Op(t) # "none" /\ (Return(t) \/ Raise(t))
    BY <1>4 DEF Relay
  <2> QED BY <2>1, Finishes
<1>5. ASSUME NEW t \in Thread, ApBegin(t) PROVE ThreadTypeOK'
  BY <1>5, Goes DEF ApBegin, Places
<1>6. ASSUME NEW t \in Thread, ApServes(t) PROVE ThreadTypeOK'
  BY <1>6, Goes DEF ApServes, Places
<1>7. ASSUME NEW t \in Thread, ApUp(t) PROVE ThreadTypeOK'
  <2>1. Op(t) # "none" /\ (Return(t) \/ Raise(t))
    BY <1>7 DEF ApUp, CallInv
  <2> QED BY <2>1, Finishes
<1>8. ASSUME NEW t \in Thread, ApFails(t) PROVE ThreadTypeOK'
  <2>1. Op(t) # "none" /\ (Return(t) \/ Raise(t))
    BY <1>8 DEF ApFails, CallInv
  <2> QED BY <2>1, Finishes
<1>9. ASSUME NEW t \in Thread, ApStop(t) PROVE ThreadTypeOK'
  <2>1. Op(t) # "none" /\ (Return(t) \/ Raise(t))
    BY <1>9 DEF ApStop
  <2> QED BY <2>1, Finishes
<1>10. ASSUME NEW t \in Thread, JoinBegin(t) PROVE ThreadTypeOK'
  BY <1>10, Goes DEF JoinBegin, Places
<1>11. ASSUME NEW t \in Thread, JoinEnd(t) PROVE ThreadTypeOK'
  <2>1. Op(t) # "none" /\ (Return(t) \/ Raise(t))
    BY <1>11 DEF JoinEnd, CallInv
  <2> QED BY <2>1, Finishes
<1>12. ASSUME NEW t \in Thread, Leave(t) PROVE ThreadTypeOK'
  <2>1. Restore \o Rest(t) \in Seq(Call)
    BY <1>12, RestoreTyped, NextCall DEF Leave
  <2> QED BY <1>12, <2>1, Continues DEF Leave
<1>13. ASSUME NEW t \in Thread, SetMode(t) PROVE ThreadTypeOK'
  <2>1. CASE mode = Arg(t)
    <3>1. <<>> \in Seq(Call) /\ Continue(t, <<>>)
      BY <1>13, <2>1 DEF SetMode
    <3> QED BY <3>1, Continues
  <2>2. CASE mode # Arg(t)
    <3>1. Op(t) # "none" /\ Return(t)
      BY <1>13, <2>2 DEF SetMode
    <3> QED BY <3>1, Finishes
  <2> QED BY <2>1, <2>2
<1>14. ASSUME NEW t \in Thread, Revert(t) PROVE ThreadTypeOK'
  <2>1. Op(t) # "none" /\ (Return(t) \/ Raise(t))
    BY <1>14 DEF Revert
  <2> QED BY <2>1, Finishes
<1>15. ASSUME NEW t \in Thread, ScanBegin(t) PROVE ThreadTypeOK'
  <2>1. CASE ap # None
    <3>1. Op(t) # "none" /\ Return(t)
      BY <1>15, <2>1 DEF ScanBegin
    <3> QED BY <3>1, Finishes
  <2>2. CASE ap = None
    BY <1>15, <2>2, Goes DEF ScanBegin, Places
  <2> QED BY <2>1, <2>2
<1>16. ASSUME NEW t \in Thread, Survey(t) PROVE ThreadTypeOK'
  <2>1. CASE Return(t)
    BY <1>16, <2>1, Finishes DEF Survey, CallInv
  <2>2. CASE UNCHANGED <<req, todo, at, requests>>
    BY <2>2 DEF ThreadTypeOK
  <2> QED BY <1>16, <2>1, <2>2 DEF Survey
<1>17. ASSUME NEW t \in Thread, EnterPortal(t) PROVE ThreadTypeOK'
  <2>1. CASE Return(t)
    BY <1>17, <2>1, Finishes DEF EnterPortal
  <2>2. CASE /\ todo' = [todo EXCEPT ![t] = <<>>] /\ req' = [req EXCEPT ![t] = None]
             /\ Goto(t, "idle") /\ UNCHANGED requests
    BY <2>2 DEF Goto, ThreadTypeOK, Places
  <2> QED BY <1>17, <2>1, <2>2 DEF EnterPortal
<1>18. ASSUME NEW m \in Mac, Associate(m) PROVE ThreadTypeOK'
  BY <1>18 DEF Associate, ThreadTypeOK, threads
<1>19. ASSUME NEW m \in Mac, Dissociate(m) PROVE ThreadTypeOK'
  BY <1>19 DEF Dissociate, ThreadTypeOK, threads
<1>20. ASSUME NEW m \in Mac, LeaseExpires(m) PROVE ThreadTypeOK'
  BY <1>20 DEF LeaseExpires, ThreadTypeOK, threads
<1>21. CASE Watch
  BY <1>21 DEF Watch, ThreadTypeOK, threads
<1>22. CASE LeaseEvent
  BY <1>22 DEF LeaseEvent, ThreadTypeOK, threads
<1>23. CASE HostapdDies
  BY <1>23 DEF HostapdDies, ThreadTypeOK, threads
<1>24. CASE DnsmasqFails
  BY <1>24 DEF DnsmasqFails, ThreadTypeOK, threads
<1>25. CASE UNCHANGED vars
  BY <1>25 DEF vars, threads, ThreadTypeOK
<1> QED BY <1>1, <1>2, <1>3, <1>4, <1>5, <1>6, <1>7, <1>8, <1>9, <1>10, <1>11, <1>12, <1>13, <1>14, <1>15, <1>16, <1>17, <1>18, <1>19, <1>20, <1>21, <1>22, <1>23, <1>24, <1>25 DEF Next, Step

\* Every step keeps the types of a scan's attempts and its result.
LEMMA ScanStep ==
    ASSUME ScanTypeOK, [Next]_vars
    PROVE  ScanTypeOK'
<1>1. ASSUME NEW t \in Thread, Post(t) PROVE ScanTypeOK'
  BY <1>1 DEF Post, scans, ScanTypeOK
<1>2. ASSUME NEW t \in Thread, Reply(t) PROVE ScanTypeOK'
  BY <1>2 DEF Reply, ScanTypeOK
<1>3. ASSUME NEW t \in Thread, CheckMode(t) PROVE ScanTypeOK'
  BY <1>3 DEF CheckMode, scans, ScanTypeOK
<1>4. ASSUME NEW t \in Thread, Relay(t) PROVE ScanTypeOK'
  BY <1>4 DEF Relay, scans, ScanTypeOK
<1>5. ASSUME NEW t \in Thread, ApBegin(t) PROVE ScanTypeOK'
  BY <1>5 DEF ApBegin, scans, ScanTypeOK
<1>6. ASSUME NEW t \in Thread, ApServes(t) PROVE ScanTypeOK'
  BY <1>6 DEF ApServes, scans, ScanTypeOK
<1>7. ASSUME NEW t \in Thread, ApUp(t) PROVE ScanTypeOK'
  BY <1>7 DEF ApUp, scans, ScanTypeOK
<1>8. ASSUME NEW t \in Thread, ApFails(t) PROVE ScanTypeOK'
  BY <1>8 DEF ApFails, scans, ScanTypeOK
<1>9. ASSUME NEW t \in Thread, ApStop(t) PROVE ScanTypeOK'
  BY <1>9 DEF ApStop, scans, ScanTypeOK
<1>10. ASSUME NEW t \in Thread, JoinBegin(t) PROVE ScanTypeOK'
  BY <1>10 DEF JoinBegin, scans, ScanTypeOK
<1>11. ASSUME NEW t \in Thread, JoinEnd(t) PROVE ScanTypeOK'
  BY <1>11 DEF JoinEnd, scans, ScanTypeOK
<1>12. ASSUME NEW t \in Thread, Leave(t) PROVE ScanTypeOK'
  BY <1>12 DEF Leave, scans, ScanTypeOK
<1>13. ASSUME NEW t \in Thread, SetMode(t) PROVE ScanTypeOK'
  BY <1>13 DEF SetMode, scans, ScanTypeOK
<1>14. ASSUME NEW t \in Thread, Revert(t) PROVE ScanTypeOK'
  BY <1>14 DEF Revert, scans, ScanTypeOK
<1>15. ASSUME NEW t \in Thread, ScanBegin(t) PROVE ScanTypeOK'
  BY <1>15 DEF ScanBegin, scans, ScanTypeOK
<1>16. ASSUME NEW t \in Thread, Survey(t) PROVE ScanTypeOK'
  <2>1. tries[t] \in 0..(SCAN_ATTEMPTS - 1) /\ quiet[t] \in BOOLEAN
    BY DEF ScanTypeOK
  <2>2. result' \in [Thread -> {None, "networks", "error"}]
    BY <1>16 DEF Survey, ScanTypeOK
  <2>3. tries' \in [Thread -> 0..(SCAN_ATTEMPTS - 1)]
    BY <1>16, <2>1 DEF Survey, ScanTypeOK
  <2>4. quiet' \in [Thread -> BOOLEAN]
    BY <1>16, <2>1 DEF Survey, ScanTypeOK
  <2> QED BY <2>2, <2>3, <2>4 DEF ScanTypeOK
<1>17. ASSUME NEW t \in Thread, EnterPortal(t) PROVE ScanTypeOK'
  BY <1>17 DEF EnterPortal, scans, ScanTypeOK
<1>18. ASSUME NEW m \in Mac, Associate(m) PROVE ScanTypeOK'
  BY <1>18 DEF Associate, scans, ScanTypeOK
<1>19. ASSUME NEW m \in Mac, Dissociate(m) PROVE ScanTypeOK'
  BY <1>19 DEF Dissociate, scans, ScanTypeOK
<1>20. ASSUME NEW m \in Mac, LeaseExpires(m) PROVE ScanTypeOK'
  BY <1>20 DEF LeaseExpires, scans, ScanTypeOK
<1>21. CASE Watch
  BY <1>21 DEF Watch, scans, ScanTypeOK
<1>22. CASE LeaseEvent
  BY <1>22 DEF LeaseEvent, scans, ScanTypeOK
<1>23. CASE HostapdDies
  BY <1>23 DEF HostapdDies, scans, ScanTypeOK
<1>24. CASE DnsmasqFails
  BY <1>24 DEF DnsmasqFails, scans, ScanTypeOK
<1>25. CASE UNCHANGED vars
  BY <1>25 DEF vars, scans, ScanTypeOK
<1> QED BY <1>1, <1>2, <1>3, <1>4, <1>5, <1>6, <1>7, <1>8, <1>9, <1>10, <1>11, <1>12, <1>13, <1>14, <1>15, <1>16, <1>17, <1>18, <1>19, <1>20, <1>21, <1>22, <1>23, <1>24, <1>25 DEF Next, Step

\* Whatever runs on the radio, and what a call may count on.
RadioCore == LockInv /\ OneRole /\ CallInv /\ watchers <= 1 /\ OneWatcher

\* A thread's step that leaves the processes and the lock alone.
LEMMA QuietStep ==
    ASSUME RadioCore, NEW t \in Thread, at[t] \notin Holding, at'[t] \notin Holding, Others(t),
           UNCHANGED <<lock, radio, clients>>,
           at'[t] = "lock" => Op(t)' \in {"ap_start", "sta_join", "scan"},
           at'[t] = "survey" => Op(t)' = "scan"
    PROVE  RadioCore'
<1> USE DEF RadioCore, Others, radio, clients
<1>1. LockInv'
  BY DEF LockInv
<1>2. OneRole' /\ OneWatcher' /\ watchers' <= 1
  BY DEF OneRole, OneWatcher
<1>3. CallInv'
  BY DEF CallInv, Holding
<1> QED BY <1>1, <1>2, <1>3

\* Every step keeps the radio's one role, its lock and its one watcher.
LEMMA CoreStep ==
    ASSUME ProcessTypeOK, ClientTypeOK, ThreadTypeOK, RadioCore, [Next]_vars
    PROVE  RadioCore'
<1> USE DEF RadioCore
<1>1. ASSUME NEW t \in Thread, Post(t) PROVE RadioCore'
  <2>1. at'[t] = "call" /\ \A u \in Thread \ {t} : at'[u] = at[u] /\ todo'[u] = todo[u]
    BY <1>1 DEF Post, Goto, ThreadTypeOK
  <2>2. at'[t] = "call" /\ Others(t)
    BY <2>1 DEF Others, Op, Arg
  <2> QED BY <1>1, <2>2, QuietStep DEF Post, Holding
<1>2. ASSUME NEW t \in Thread, Reply(t) PROVE RadioCore'
  <2>1. at'[t] = "idle" /\ Others(t)
    BY <1>2 DEF Reply, Goto, ThreadTypeOK, Others, Op, Arg
  <2> QED BY <1>2, <2>1, QuietStep DEF Reply, Holding
<1>3. ASSUME NEW t \in Thread, CheckMode(t) PROVE RadioCore'
  <2>1. CASE mode # "wifi-testing"
    <3>1. Op(t) # "none" /\ Raise(t)
      BY <1>3, <2>1 DEF CheckMode
    <3>2. at'[t] = "call" /\ Others(t)
      BY <3>1, Finishes
    <3> QED BY <1>3, <3>2, QuietStep DEF CheckMode, Holding
  <2>2. CASE mode = "wifi-testing"
    <3>1. at'[t] = "lock" /\ Others(t) /\ Op(t)' = Op(t)
      BY <1>3, <2>2, Goes DEF CheckMode, Places
    <3> QED BY <1>3, <3>1, QuietStep DEF CheckMode, Holding
  <2> QED BY <2>1, <2>2
<1>4. ASSUME NEW t \in Thread, Relay(t) PROVE RadioCore'
  <2>0. Op(t) # "none" /\ (Return(t) \/ Raise(t))
    BY <1>4 DEF Relay
  <2>1. at'[t] = "call" /\ Others(t)
    BY <2>0, Finishes
  <2> QED BY <1>4, <2>1, QuietStep DEF Relay, Holding
<1>5. ASSUME NEW t \in Thread, ApBegin(t) PROVE RadioCore'
  <2>1. at'[t] = "beacon" /\ Others(t) /\ Op(t)' = Op(t) /\ Arg(t)' = Arg(t)
    BY <1>5, Goes DEF ApBegin, Places
  <2>2. LockInv'
    BY <1>5, <2>1 DEF Others, ApBegin, Acquire, OnlySupplicant, Survivors, LockInv, Holding
  <2>3. OneRole' /\ OneWatcher' /\ watchers' <= 1
    BY <1>5, <2>1 DEF Others, ApBegin, Acquire, OnlySupplicant, Survivors, LockInv, OneRole, CallInv, OneWatcher, Holding, ClientTypeOK
  <2>4. /\ Op(t) = "ap_start" /\ hproc' = Arg(t) /\ wpa' = None /\ ap' = None /\ sta' = None
        /\ polled' => watchers' = 0
    BY <1>5 DEF ApBegin, OnlySupplicant
  <2>5. \A u \in Thread \ {t} : at'[u] = at[u] /\ at[u] \notin Holding /\ Op(u)' = Op(u)
    BY <1>5, <2>1 DEF Others, ApBegin, Acquire, LockInv, Holding
  <2>6. CallInv'
    BY <2>1, <2>4, <2>5 DEF CallInv, Holding
  <2> QED BY <2>2, <2>3, <2>6
<1>6. ASSUME NEW t \in Thread, ApServes(t) PROVE RadioCore'
  <2>1. at'[t] = "serve" /\ Others(t) /\ Op(t)' = Op(t) /\ Arg(t)' = Arg(t)
    BY <1>6, Goes DEF ApServes, Places
  <2>2. LockInv'
    BY <1>6, <2>1 DEF Others, ApServes, LockInv, Holding
  <2>3. OneRole' /\ OneWatcher' /\ watchers' <= 1
    BY <1>6, <2>1 DEF Others, ApServes, LockInv, OneRole, CallInv, OneWatcher, Holding, ClientTypeOK
  <2>4. CallInv'
    BY <1>6, <2>1 DEF Others, ApServes, LockInv, CallInv, OneWatcher, Holding, ProcessTypeOK, ClientTypeOK
  <2> QED BY <2>2, <2>3, <2>4
<1>7. ASSUME NEW t \in Thread, ApUp(t) PROVE RadioCore'
  <2>0. Op(t) # "none" /\ (Return(t) \/ Raise(t))
    BY <1>7 DEF ApUp, CallInv
  <2>1. at'[t] = "call" /\ Others(t)
    BY <2>0, Finishes
  <2>2. LockInv'
    BY <1>7, <2>1 DEF Others, ApUp, WatchersAfter, LockInv, Holding
  <2>3. OneRole' /\ OneWatcher' /\ watchers' <= 1
    BY <1>7, <2>1 DEF Others, ApUp, WatchersAfter, LockInv, OneRole, CallInv, OneWatcher, Holding, ClientTypeOK
  <2>4. CallInv'
    BY <1>7, <2>1 DEF Others, ApUp, WatchersAfter, LockInv, CallInv, OneWatcher, Holding, ProcessTypeOK, ClientTypeOK
  <2> QED BY <2>2, <2>3, <2>4
<1>8. ASSUME NEW t \in Thread, ApFails(t) PROVE RadioCore'
  <2>0. Op(t) # "none" /\ (Return(t) \/ Raise(t))
    BY <1>8 DEF ApFails, CallInv
  <2>1. at'[t] = "call" /\ Others(t)
    BY <2>0, Finishes
  <2>2. LockInv'
    BY <1>8, <2>1 DEF Others, ApFails, LockInv, Holding
  <2>3. OneRole' /\ OneWatcher' /\ watchers' <= 1
    BY <1>8, <2>1 DEF Others, ApFails, LockInv, OneRole, CallInv, OneWatcher, Holding, ClientTypeOK
  <2>4. CallInv'
    BY <1>8, <2>1 DEF Others, ApFails, LockInv, CallInv, OneWatcher, Holding, ProcessTypeOK, ClientTypeOK
  <2> QED BY <2>2, <2>3, <2>4
<1>9. ASSUME NEW t \in Thread, ApStop(t) PROVE RadioCore'
  <2>0. Op(t) # "none" /\ (Return(t) \/ Raise(t))
    BY <1>9 DEF ApStop
  <2>1. at'[t] = "call" /\ Others(t)
    BY <2>0, Finishes
  <2>2. LockInv'
    BY <1>9, <2>1 DEF Others, ApStop, Free, ApStopped, Inactive, Survivors, LockInv, Holding
  <2>3. OneRole' /\ OneWatcher' /\ watchers' <= 1
    BY <1>9, <2>1 DEF Others, ApStop, Free, ApStopped, Inactive, Survivors, LockInv, OneRole, CallInv, OneWatcher, Holding, ClientTypeOK
  <2>4. CallInv'
    BY <1>9, <2>1 DEF Others, ApStop, Free, ApStopped, Inactive, Survivors, LockInv, CallInv, OneWatcher, Holding, ProcessTypeOK, ClientTypeOK
  <2> QED BY <2>2, <2>3, <2>4
<1>10. ASSUME NEW t \in Thread, JoinBegin(t) PROVE RadioCore'
  <2>1. at'[t] = "associate" /\ Others(t) /\ Op(t)' = Op(t) /\ Arg(t)' = Arg(t)
    BY <1>10, Goes DEF JoinBegin, Places
  <2>2. LockInv'
    BY <1>10, <2>1 DEF Others, JoinBegin, Acquire, ApStopped, Inactive, OnlySupplicant, Survivors, LockInv, Holding
  <2>3. OneRole' /\ OneWatcher' /\ watchers' <= 1
    BY <1>10, <2>1 DEF Others, JoinBegin, Acquire, ApStopped, Inactive, OnlySupplicant, Survivors, LockInv, OneRole, CallInv, OneWatcher, Holding, ClientTypeOK
  <2>4. CallInv'
    BY <1>10, <2>1 DEF Others, JoinBegin, Acquire, ApStopped, Inactive, OnlySupplicant, Survivors, LockInv, CallInv, OneWatcher, Holding, ProcessTypeOK, ClientTypeOK
  <2> QED BY <2>2, <2>3, <2>4
<1>11. ASSUME NEW t \in Thread, JoinEnd(t) PROVE RadioCore'
  <2>0. Op(t) # "none" /\ (Return(t) \/ Raise(t))
    BY <1>11 DEF JoinEnd, CallInv
  <2>1. at'[t] = "call" /\ Others(t)
    BY <2>0, Finishes
  <2>2. LockInv'
    BY <1>11, <2>1 DEF Others, JoinEnd, StaStopped, clients, LockInv, Holding
  <2>3. OneRole' /\ OneWatcher' /\ watchers' <= 1
    BY <1>11, <2>1 DEF Others, JoinEnd, StaStopped, clients, LockInv, OneRole, CallInv, OneWatcher, Holding, ClientTypeOK
  <2>4. CallInv'
    BY <1>11, <2>1 DEF Others, JoinEnd, StaStopped, clients, LockInv, CallInv, OneWatcher, Holding, ProcessTypeOK, ClientTypeOK
  <2> QED BY <2>2, <2>3, <2>4
<1>12. ASSUME NEW t \in Thread, Leave(t) PROVE RadioCore'
  <2>0. Restore \o Rest(t) \in Seq(Call)
    BY <1>12, RestoreTyped, NextCall DEF Leave
  <2>1. at'[t] = "call" /\ Others(t)
    BY <1>12, <2>0, Continues DEF Leave
  <2>2. LockInv'
    BY <1>12, <2>1 DEF Others, Leave, LockLeft, StaStopped, clients, LockInv, Holding
  <2>3. OneRole' /\ OneWatcher' /\ watchers' <= 1
    BY <1>12, <2>1 DEF Others, Leave, LockLeft, StaStopped, clients, LockInv, OneRole, CallInv, OneWatcher, Holding, ClientTypeOK
  <2>4. CallInv'
    BY <1>12, <2>1 DEF Others, Leave, LockLeft, StaStopped, clients, LockInv, CallInv, OneWatcher, Holding, ProcessTypeOK, ClientTypeOK
  <2> QED BY <2>2, <2>3, <2>4
<1>13. ASSUME NEW t \in Thread, SetMode(t) PROVE RadioCore'
  <2>1. at'[t] = "call" /\ Others(t)
    <3>1. CASE mode = Arg(t)
      <4>1. <<>> \in Seq(Call) /\ Continue(t, <<>>)
        BY <1>13, <3>1 DEF SetMode
      <4> QED BY <4>1, Continues
    <3>2. CASE mode # Arg(t)
      <4>1. Op(t) # "none" /\ Return(t)
        BY <1>13, <3>2 DEF SetMode
      <4> QED BY <4>1, Finishes
    <3> QED BY <3>1, <3>2
  <2>2. LockInv'
    BY <1>13, <2>1 DEF Others, SetMode, Free, ApStopped, Inactive, StaStopped, Survivors, clients, LockInv, Holding
  <2>3. OneRole' /\ OneWatcher' /\ watchers' <= 1
    BY <1>13, <2>1 DEF Others, SetMode, Free, ApStopped, Inactive, StaStopped, Survivors, clients, LockInv, OneRole, CallInv, OneWatcher, Holding, ClientTypeOK
  <2>4. CallInv'
    BY <1>13, <2>1 DEF Others, SetMode, Free, ApStopped, Inactive, StaStopped, Survivors, clients, LockInv, CallInv, OneWatcher, Holding, ProcessTypeOK, ClientTypeOK
  <2> QED BY <2>2, <2>3, <2>4
<1>14. ASSUME NEW t \in Thread, Revert(t) PROVE RadioCore'
  <2>0. Op(t) # "none" /\ (Return(t) \/ Raise(t))
    BY <1>14 DEF Revert
  <2>1. at'[t] = "call" /\ Others(t)
    BY <2>0, Finishes
  <2>2. LockInv'
    BY <1>14, <2>1 DEF Others, Revert, Free, clients, LockInv, Holding
  <2>3. OneRole' /\ OneWatcher' /\ watchers' <= 1
    BY <1>14, <2>1 DEF Others, Revert, Free, clients, LockInv, OneRole, CallInv, OneWatcher, Holding, ClientTypeOK
  <2>4. CallInv'
    BY <1>14, <2>1 DEF Others, Revert, Free, clients, LockInv, CallInv, OneWatcher, Holding, ProcessTypeOK, ClientTypeOK
  <2> QED BY <2>2, <2>3, <2>4
<1>15. ASSUME NEW t \in Thread, ScanBegin(t) PROVE RadioCore'
  <2>1. CASE ap # None
    <3>1. Op(t) # "none" /\ Return(t)
      BY <1>15, <2>1 DEF ScanBegin
    <3>2. at'[t] = "call" /\ Others(t)
      BY <3>1, Finishes
    <3> QED BY <1>15, <3>2, QuietStep DEF ScanBegin, Holding
  <2>2. CASE ap = None
    <3>1. at'[t] = "survey" /\ Others(t) /\ Op(t)' = Op(t)
      BY <1>15, <2>2, Goes DEF ScanBegin, Places
    <3> QED BY <1>15, <3>1, QuietStep DEF ScanBegin, Holding
  <2> QED BY <2>1, <2>2
<1>16. ASSUME NEW t \in Thread, Survey(t) PROVE RadioCore'
  <2>1. Op(t) = "scan"
    BY <1>16 DEF Survey, CallInv
  <2>2. CASE Return(t)
    <3>1. at'[t] = "call" /\ Others(t)
      BY <2>1, <2>2, Finishes
    <3> QED BY <1>16, <3>1, QuietStep DEF Survey, Holding
  <2>3. CASE UNCHANGED <<todo, at>>
    <3>1. at'[t] = "survey" /\ Others(t) /\ Op(t)' = Op(t)
      BY <1>16, <2>3 DEF Survey, Others, Op, Arg
    <3> QED BY <1>16, <2>1, <3>1, QuietStep DEF Survey, Holding
  <2> QED BY <1>16, <2>2, <2>3 DEF Survey
<1>17. ASSUME NEW t \in Thread, EnterPortal(t) PROVE RadioCore'
  <2>1. at'[t] \in {"idle", "call"} /\ Others(t)
    <3>1. CASE Return(t)
      BY <1>17, <3>1, Finishes DEF EnterPortal
    <3>2. CASE todo' = [todo EXCEPT ![t] = <<>>] /\ Goto(t, "idle")
      BY <3>2 DEF Goto, ThreadTypeOK, Others, Op, Arg
    <3> QED BY <1>17, <3>1, <3>2 DEF EnterPortal
  <2> QED BY <1>17, <2>1, QuietStep DEF EnterPortal, Holding
<1>18. ASSUME NEW m \in Mac, Associate(m) PROVE RadioCore'
  <2>1. at' = at /\ \A t \in Thread : Op(t)' = Op(t) /\ Arg(t)' = Arg(t)
    BY <1>18 DEF Associate, threads, Op, Arg
  <2>2. LockInv'
    BY <1>18, <2>1 DEF Associate, radio, LockInv, Holding
  <2>3. OneRole' /\ OneWatcher' /\ watchers' <= 1
    BY <1>18, <2>1 DEF Associate, radio, LockInv, OneRole, CallInv, OneWatcher, Holding, ClientTypeOK
  <2>4. CallInv'
    BY <1>18, <2>1 DEF Associate, radio, LockInv, CallInv, OneWatcher, Holding, ProcessTypeOK, ClientTypeOK
  <2> QED BY <2>2, <2>3, <2>4
<1>19. ASSUME NEW m \in Mac, Dissociate(m) PROVE RadioCore'
  <2>1. at' = at /\ \A t \in Thread : Op(t)' = Op(t) /\ Arg(t)' = Arg(t)
    BY <1>19 DEF Dissociate, threads, Op, Arg
  <2>2. LockInv'
    BY <1>19, <2>1 DEF Dissociate, radio, LockInv, Holding
  <2>3. OneRole' /\ OneWatcher' /\ watchers' <= 1
    BY <1>19, <2>1 DEF Dissociate, radio, LockInv, OneRole, CallInv, OneWatcher, Holding, ClientTypeOK
  <2>4. CallInv'
    BY <1>19, <2>1 DEF Dissociate, radio, LockInv, CallInv, OneWatcher, Holding, ProcessTypeOK, ClientTypeOK
  <2> QED BY <2>2, <2>3, <2>4
<1>20. ASSUME NEW m \in Mac, LeaseExpires(m) PROVE RadioCore'
  <2>1. at' = at /\ \A t \in Thread : Op(t)' = Op(t) /\ Arg(t)' = Arg(t)
    BY <1>20 DEF LeaseExpires, threads, Op, Arg
  <2>2. LockInv'
    BY <1>20, <2>1 DEF LeaseExpires, radio, LockInv, Holding
  <2>3. OneRole' /\ OneWatcher' /\ watchers' <= 1
    BY <1>20, <2>1 DEF LeaseExpires, radio, LockInv, OneRole, CallInv, OneWatcher, Holding, ClientTypeOK
  <2>4. CallInv'
    BY <1>20, <2>1 DEF LeaseExpires, radio, LockInv, CallInv, OneWatcher, Holding, ProcessTypeOK, ClientTypeOK
  <2> QED BY <2>2, <2>3, <2>4
<1>21. CASE Watch
  <2>1. at' = at /\ \A t \in Thread : Op(t)' = Op(t) /\ Arg(t)' = Arg(t)
    BY <1>21 DEF Watch, threads, Op, Arg
  <2>2. LockInv'
    BY <1>21, <2>1 DEF Watch, radio, LockInv, Holding
  <2>3. OneRole' /\ OneWatcher' /\ watchers' <= 1
    BY <1>21, <2>1 DEF Watch, radio, LockInv, OneRole, CallInv, OneWatcher, Holding, ClientTypeOK
  <2>4. CallInv'
    BY <1>21, <2>1 DEF Watch, radio, LockInv, CallInv, OneWatcher, Holding, ProcessTypeOK, ClientTypeOK
  <2> QED BY <2>2, <2>3, <2>4
<1>22. CASE LeaseEvent
  <2>1. at' = at /\ \A t \in Thread : Op(t)' = Op(t) /\ Arg(t)' = Arg(t)
    BY <1>22 DEF LeaseEvent, threads, Op, Arg
  <2>2. LockInv'
    BY <1>22, <2>1 DEF LeaseEvent, radio, LockInv, Holding
  <2>3. OneRole' /\ OneWatcher' /\ watchers' <= 1
    BY <1>22, <2>1 DEF LeaseEvent, radio, LockInv, OneRole, CallInv, OneWatcher, Holding, ClientTypeOK
  <2>4. CallInv'
    BY <1>22, <2>1 DEF LeaseEvent, radio, LockInv, CallInv, OneWatcher, Holding, ProcessTypeOK, ClientTypeOK
  <2> QED BY <2>2, <2>3, <2>4
<1>23. CASE HostapdDies
  <2>1. at' = at /\ \A t \in Thread : Op(t)' = Op(t) /\ Arg(t)' = Arg(t)
    BY <1>23 DEF HostapdDies, threads, Op, Arg
  <2>2. LockInv'
    BY <1>23, <2>1 DEF HostapdDies, LockInv, Holding
  <2>3. OneRole' /\ OneWatcher' /\ watchers' <= 1
    BY <1>23, <2>1 DEF HostapdDies, LockInv, OneRole, CallInv, OneWatcher, Holding, ClientTypeOK
  <2>4. CallInv'
    BY <1>23, <2>1 DEF HostapdDies, LockInv, CallInv, OneWatcher, Holding, ProcessTypeOK, ClientTypeOK
  <2> QED BY <2>2, <2>3, <2>4
<1>24. CASE DnsmasqFails
  <2>1. at' = at /\ \A t \in Thread : Op(t)' = Op(t) /\ Arg(t)' = Arg(t)
    BY <1>24 DEF DnsmasqFails, threads, Op, Arg
  <2>2. LockInv'
    BY <1>24, <2>1 DEF DnsmasqFails, clients, LockInv, Holding
  <2>3. OneRole' /\ OneWatcher' /\ watchers' <= 1
    BY <1>24, <2>1 DEF DnsmasqFails, clients, LockInv, OneRole, CallInv, OneWatcher, Holding, ClientTypeOK
  <2>4. CallInv'
    BY <1>24, <2>1 DEF DnsmasqFails, clients, LockInv, CallInv, OneWatcher, Holding, ProcessTypeOK, ClientTypeOK
  <2> QED BY <2>2, <2>3, <2>4
<1>25. CASE UNCHANGED vars
  BY <1>25 DEF vars, radio, clients, threads, Op, Arg, LockInv, OneRole, CallInv, OneWatcher, Holding
<1> QED BY <1>1, <1>2, <1>3, <1>4, <1>5, <1>6, <1>7, <1>8, <1>9, <1>10, <1>11, <1>12, <1>13, <1>14, <1>15, <1>16, <1>17, <1>18, <1>19, <1>20, <1>21, <1>22, <1>23, <1>24, <1>25 DEF Next, Step

\* Nothing runs on the radio when the portal starts.
LEMMA RadioInit ==
    ASSUME Init
    PROVE  RadioInv /\ OneWatcher
<1>1. ProcessTypeOK
  BY DEF Init, ProcessTypeOK, Modes
<1>2. FlagTypeOK
  BY DEF Init, FlagTypeOK
<1>3. ClientTypeOK
  BY DEF Init, ClientTypeOK
<1>4. ThreadTypeOK
  <2>1. <<>> \in Seq(Call)
    OBVIOUS
  <2> QED BY <2>1 DEF Init, ThreadTypeOK, Places
<1>5. ScanTypeOK
  BY DEF Init, ScanTypeOK
<1>6. LockInv /\ OneRole /\ CallInv /\ watchers <= 1 /\ OneWatcher
  BY DEF Init, LockInv, OneRole, CallInv, OneWatcher, Holding
<1> QED BY <1>1, <1>2, <1>3, <1>4, <1>5, <1>6, TypeParts DEF RadioInv

\* RadioInv is inductive, and OneWatcher with it.
LEMMA RadioStep ==
    ASSUME RadioInv, OneWatcher, [Next]_vars
    PROVE  RadioInv' /\ OneWatcher'
<1>1. ProcessTypeOK /\ FlagTypeOK /\ ClientTypeOK /\ ThreadTypeOK /\ ScanTypeOK /\ RadioCore /\ CallInv
  BY TypeParts DEF RadioInv, RadioCore
<1>2. ProcessTypeOK' /\ FlagTypeOK' /\ ClientTypeOK' /\ ThreadTypeOK' /\ ScanTypeOK'
  BY <1>1, ProcessStep, FlagStep, ClientStep, ThreadStep, ScanStep
<1>3. TypeOK'
  BY <1>2 DEF TypeOK, ProcessTypeOK, FlagTypeOK, ClientTypeOK, ThreadTypeOK, ScanTypeOK, Places
<1>4. RadioCore'
  BY <1>1, CoreStep
<1> QED BY <1>3, <1>4 DEF RadioInv, RadioCore

-----------------------------------------------------------------------------
\* One radio has one role, whatever requests run at once, fail or change the mode:
\* the hostapd that runs is the one ap_stop would kill, no wpa_supplicant runs
\* beside it, and _ap_ssid and _sta_ssid name what was started.
THEOREM RadioInvariant == Spec => []RadioInv
<1>1. RadioInv /\ OneWatcher /\ [Next]_vars => (RadioInv /\ OneWatcher)'
  BY RadioStep
<1> QED BY <1>1, RadioInit, PTL DEF Spec

\* An AP that is up has one hostapd-watch thread, however soon it was started
\* after the one before it: ap_start sleeps for longer than a watcher does.
THEOREM SingleWatcher == Spec => []OneWatcher
<1>1. RadioInv /\ OneWatcher /\ [Next]_vars => (RadioInv /\ OneWatcher)'
  BY RadioStep
<1> QED BY <1>1, RadioInit, PTL DEF Spec

-----------------------------------------------------------------------------
(* The radio implements ExclusiveUse: one role ends before another begins.   *)

\* How a step may change what the controller reports.
Change ==
    \/ UNCHANGED <<ap, sta>>
    \/ ap' = None /\ sta' = None
    \/ ap = None /\ sta = None /\ (ap' = None \/ sta' = None)

\* Only ap_start and sta_join report a role, and they have ended the one before.
LEMMA ReportStep ==
    ASSUME RadioInv, [Next]_vars
    PROVE  Change
<1>1. ASSUME NEW t \in Thread, Post(t) PROVE Change
  BY <1>1 DEF Post, Change, radio
<1>2. ASSUME NEW t \in Thread, Reply(t) PROVE Change
  BY <1>2 DEF Reply, Change, radio
<1>3. ASSUME NEW t \in Thread, CheckMode(t) PROVE Change
  BY <1>3 DEF CheckMode, Change, radio
<1>4. ASSUME NEW t \in Thread, Relay(t) PROVE Change
  BY <1>4 DEF Relay, Change, radio
<1>5. ASSUME NEW t \in Thread, ApBegin(t) PROVE Change
  BY <1>5 DEF ApBegin, Change, radio
<1>6. ASSUME NEW t \in Thread, ApServes(t) PROVE Change
  BY <1>6 DEF ApServes, Change, radio
<1>7. ASSUME NEW t \in Thread, ApUp(t) PROVE Change
  <2>1. ap = None /\ sta = None
    BY <1>7 DEF ApUp, RadioInv, CallInv, Holding
  <2> QED BY <1>7, <2>1 DEF ApUp, Change
<1>8. ASSUME NEW t \in Thread, ApFails(t) PROVE Change
  BY <1>8 DEF ApFails, Change, radio
<1>9. ASSUME NEW t \in Thread, ApStop(t) PROVE Change
  BY <1>9 DEF ApStop, Change, ApStopped, Inactive, RadioInv, OneRole
<1>10. ASSUME NEW t \in Thread, JoinBegin(t) PROVE Change
  BY <1>10 DEF JoinBegin, Change, ApStopped, Inactive
<1>11. ASSUME NEW t \in Thread, JoinEnd(t) PROVE Change
  <2>1. ap = None /\ sta = None
    BY <1>11 DEF JoinEnd, RadioInv, CallInv, Holding
  <2> QED BY <1>11, <2>1 DEF JoinEnd, Change
<1>12. ASSUME NEW t \in Thread, Leave(t) PROVE Change
  BY <1>12 DEF Leave, Change, StaStopped, RadioInv, OneRole
<1>13. ASSUME NEW t \in Thread, SetMode(t) PROVE Change
  <2>1. UNCHANGED <<ap, sta>> \/ (ap' = None /\ sta' = None)
    BY <1>13 DEF SetMode, ApStopped, Inactive, StaStopped
  <2> QED BY <2>1 DEF Change
<1>14. ASSUME NEW t \in Thread, Revert(t) PROVE Change
  BY <1>14 DEF Revert, Change, radio
<1>15. ASSUME NEW t \in Thread, ScanBegin(t) PROVE Change
  BY <1>15 DEF ScanBegin, Change, radio
<1>16. ASSUME NEW t \in Thread, Survey(t) PROVE Change
  BY <1>16 DEF Survey, Change, radio
<1>17. ASSUME NEW t \in Thread, EnterPortal(t) PROVE Change
  BY <1>17 DEF EnterPortal, Change, radio
<1>18. ASSUME NEW m \in Mac, Associate(m) PROVE Change
  BY <1>18 DEF Associate, Change, radio
<1>19. ASSUME NEW m \in Mac, Dissociate(m) PROVE Change
  BY <1>19 DEF Dissociate, Change, radio
<1>20. ASSUME NEW m \in Mac, LeaseExpires(m) PROVE Change
  BY <1>20 DEF LeaseExpires, Change, radio
<1>21. CASE Watch
  BY <1>21 DEF Watch, Change, radio
<1>22. CASE LeaseEvent
  BY <1>22 DEF LeaseEvent, Change, radio
<1>23. CASE HostapdDies
  BY <1>23 DEF HostapdDies, Change, radio
<1>24. CASE DnsmasqFails
  BY <1>24 DEF DnsmasqFails, Change, radio
<1>25. CASE UNCHANGED vars
  BY <1>25 DEF vars, Change, radio
<1> QED BY <1>1, <1>2, <1>3, <1>4, <1>5, <1>6, <1>7, <1>8, <1>9, <1>10, <1>11, <1>12, <1>13, <1>14, <1>15, <1>16, <1>17, <1>18, <1>19, <1>20, <1>21, <1>22, <1>23, <1>24, <1>25 DEF Next, Step

\* Whatever requests run at once, the reported role passes through an idle radio:
\* a set_mode, a join or an access point never takes over from another role.
THEOREM RadioImplementsExclusiveUse == Spec => OneRoleAtATime
<1>1. Init => Radio!Init
  BY DEF Init, Radio!Init, RadioUsers
<1>2. RadioInv /\ RadioInv' /\ [Next]_vars => [Radio!Next]_RadioUsers
  <2> SUFFICES ASSUME RadioInv, RadioInv', [Next]_vars PROVE [Radio!Next]_RadioUsers
    OBVIOUS
  <2>1. ap \in Ssid \cup {None} /\ sta \in Net \cup {None} /\ ap' \in Ssid \cup {None} /\ sta' \in Net \cup {None}
    BY DEF RadioInv, TypeOK
  <2>2. ap = None \/ sta = None
    BY DEF RadioInv, OneRole
  <2>3. CASE UNCHANGED <<ap, sta>>
    BY <2>3 DEF RadioUsers
  <2>4. CASE ap' = None /\ sta' = None
    BY <2>4 DEF RadioUsers, Radio!Next, Radio!Close
  <2>5. CASE ap = None /\ sta = None /\ sta' = None /\ ap' # None
    <3>1. RadioUsers = {} /\ RadioUsers' = {<<"ap", ap'>>}
      BY <2>5 DEF RadioUsers
    <3> QED BY <2>1, <2>5, <3>1 DEF Radio!Next, Radio!Open
  <2>6. CASE ap = None /\ sta = None /\ ap' = None /\ sta' # None
    <3>1. RadioUsers = {} /\ RadioUsers' = {<<"sta", sta'>>}
      BY <2>6 DEF RadioUsers
    <3> QED BY <2>1, <2>6, <3>1 DEF Radio!Next, Radio!Open
  <2> QED BY <2>3, <2>4, <2>5, <2>6, ReportStep DEF Change
<1> QED BY <1>1, <1>2, RadioInvariant, PTL DEF Spec, OneRoleAtATime, Radio!Spec
=============================================================================
