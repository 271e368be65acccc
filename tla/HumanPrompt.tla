----------------------------- MODULE HumanPrompt -----------------------------
(* The operator prompt of pi/portal.py: a test script posts a message and     *)
(* blocks until somebody clicks Done or Cancel on the portal's page, the      *)
(* timeout is over, or the bench is reset.                                    *)
(*                                                                            *)
(* A prompt is known by a number; it stands for the message and for the       *)
(* threading.Event made for it.  The module's three variables are guarded by  *)
(* _human_lock, but the wait is not.                                          *)
EXTENDS Naturals

CONSTANTS
    Caller,     \* handler threads of POST /api/human-interaction
    MaxPosts,   \* bound: prompts posted
    MaxResets   \* bound: bench resets

ASSUME PostsAssumption  == MaxPosts \in Nat
ASSUME ResetsAssumption == MaxResets \in Nat

VARIABLES
    event,      \* _human_event
    message,    \* _human_message
    confirmed,  \* _human_confirmed
    woken,      \* the prompts whose Event is set
    pc,         \* where each handler is
    mine,       \* the prompt a handler has posted
    on,         \* the Event a handler waits on
    responded,  \* what its wait returned
    shown,      \* the message on the page's overlay
    click,      \* a click on its way, and what the page showed then
    made, resets,
    verdict,    \* history: the click that was accepted for a prompt
    seen,       \* history: what the page showed at that click
    answer      \* history: what the script was told

promptVars == <<event, message, confirmed, woken, pc, mine, on, responded, shown,
                click, made, resets, verdict, seen, answer>>

NoPrompt == 0
Prompt   == 1..MaxPosts
Button   == {"done", "cancel"}
Click    == [button : Button, shown : Prompt \cup {NoPrompt}]
Answer   == {"none", "confirmed", "cancelled", "timeout", "raised"}
NoClick  == [button |-> "none"]

PromptTypeOK ==
    /\ event \in Prompt \cup {NoPrompt} /\ message \in Prompt \cup {NoPrompt}
    /\ confirmed \in BOOLEAN /\ woken \subseteq Prompt
    /\ pc \in [Caller -> {"idle", "posted", "wait", "cleanup"}]
    /\ mine \in [Caller -> Prompt \cup {NoPrompt}]
    /\ on \in [Caller -> Prompt \cup {NoPrompt}]
    /\ responded \in [Caller -> BOOLEAN]
    /\ shown \in Prompt \cup {NoPrompt} /\ click \in Click \cup {NoClick}
    /\ made \in 0..MaxPosts /\ resets \in 0..MaxResets
    /\ verdict \in [Prompt -> Button \cup {"none"}]
    /\ seen \in [Prompt -> Prompt \cup {NoPrompt}]
    /\ answer \in [Prompt -> Answer]

PromptInit ==
    /\ event = NoPrompt /\ message = NoPrompt /\ confirmed = FALSE /\ woken = {}
    /\ pc = [c \in Caller |-> "idle"] /\ mine = [c \in Caller |-> NoPrompt]
    /\ on = [c \in Caller |-> NoPrompt] /\ responded = [c \in Caller |-> FALSE]
    /\ shown = NoPrompt /\ click = NoClick /\ made = 0 /\ resets = 0
    /\ verdict = [p \in Prompt |-> "none"] /\ seen = [p \in Prompt |-> NoPrompt]
    /\ answer = [p \in Prompt |-> "none"]

-----------------------------------------------------------------------------
(* _handle_human_interaction *)

\* No other request is pending; else the answer is 409 and nothing changes.
PendingIgnored == TRUE                              \* mutant
NonePending == event = NoPrompt

PostPrompt(c) ==
    /\ pc[c] = "idle" /\ made < MaxPosts /\ NonePending
    /\ made' = made + 1
    /\ event' = made' /\ message' = made' /\ confirmed' = FALSE
    /\ mine' = [mine EXCEPT ![c] = made']
    /\ pc' = [pc EXCEPT ![c] = "posted"]
    /\ UNCHANGED <<woken, on, responded, shown, click, resets, verdict, seen, answer>>

\* The wait is on whatever _human_event is by then; None has no `wait`.
Wait(c) ==
    /\ pc[c] = "posted" /\ event # NoPrompt
    /\ on' = [on EXCEPT ![c] = event]
    /\ pc' = [pc EXCEPT ![c] = "wait"]
    /\ UNCHANGED <<event, message, confirmed, woken, mine, responded, shown, click,
                   made, resets, verdict, seen, answer>>

WaitRaises(c) ==
    /\ pc[c] = "posted" /\ event = NoPrompt
    /\ answer' = [answer EXCEPT ![mine[c]] = "raised"]
    /\ pc' = [pc EXCEPT ![c] = "idle"]
    /\ UNCHANGED <<event, message, confirmed, woken, mine, on, responded, shown, click,
                   made, resets, verdict, seen>>

\* The Event is set, or the timeout is over.
ExpiresNever(c) == FALSE                            \* mutant
Expires(c) == on[c] \notin woken

WaitReturns(c) ==
    /\ pc[c] = "wait" /\ (on[c] \in woken \/ Expires(c))
    /\ responded' = [responded EXCEPT ![c] = on[c] \in woken]
    /\ pc' = [pc EXCEPT ![c] = "cleanup"]
    /\ UNCHANGED <<event, message, confirmed, woken, mine, on, shown, click, made,
                   resets, verdict, seen, answer>>

ToldAnyway(c) == IF confirmed THEN "confirmed" ELSE "cancelled"     \* mutant
Told(c) == IF ~responded[c] THEN "timeout"
           ELSE IF confirmed THEN "confirmed" ELSE "cancelled"

Cleanup(c) ==
    /\ pc[c] = "cleanup"
    /\ event' = NoPrompt /\ message' = NoPrompt
    /\ answer' = [answer EXCEPT ![mine[c]] = Told(c)]
    /\ pc' = [pc EXCEPT ![c] = "idle"]
    /\ UNCHANGED <<confirmed, woken, mine, on, responded, shown, click, made, resets,
                   verdict, seen>>

-----------------------------------------------------------------------------
(* The page, and the handlers of its two buttons. *)

\* A request is pending until its Event is set.
Pending == event # NoPrompt /\ event \notin woken

\* The page takes over a message only when it showed none.
Poll ==
    /\ shown' = IF ~Pending THEN NoPrompt ELSE IF shown = NoPrompt THEN message ELSE shown
    /\ UNCHANGED <<event, message, confirmed, woken, pc, mine, on, responded, click,
                   made, resets, verdict, seen, answer>>

\* The overlay's buttons, or a script that calls the same endpoints.
Press ==
    /\ click = NoClick
    /\ \E b \in Button : click' = [button |-> b, shown |-> shown]
    /\ UNCHANGED <<event, message, confirmed, woken, pc, mine, on, responded, shown,
                   made, resets, verdict, seen, answer>>

\* _handle_human_done and _handle_human_cancel; the page then hides the overlay.
Accept ==
    /\ click # NoClick /\ Pending
    /\ confirmed' = (click.button = "done")
    /\ woken' = woken \cup {event}
    /\ verdict' = [verdict EXCEPT ![event] = click.button]
    /\ seen' = [seen EXCEPT ![event] = click.shown]
    /\ click' = NoClick /\ shown' = NoPrompt
    /\ UNCHANGED <<event, message, pc, mine, on, responded, made, resets, answer>>

Reject ==
    /\ click # NoClick /\ ~Pending
    /\ click' = NoClick
    /\ UNCHANGED <<event, message, confirmed, woken, pc, mine, on, responded, shown,
                   made, resets, verdict, seen, answer>>

\* bench_reset
Reset ==
    /\ resets < MaxResets /\ message # NoPrompt
    /\ resets' = resets + 1
    /\ message' = NoPrompt /\ confirmed' = FALSE
    /\ woken' = IF event # NoPrompt THEN woken \cup {event} ELSE woken
    /\ event' = NoPrompt
    /\ UNCHANGED <<pc, mine, on, responded, shown, click, made, verdict, seen, answer>>

-----------------------------------------------------------------------------
Handle(c) == Wait(c) \/ WaitRaises(c) \/ WaitReturns(c) \/ Cleanup(c)

PromptNext ==
    \/ \E c \in Caller : PostPrompt(c) \/ Handle(c)
    \/ Poll \/ Press \/ Accept \/ Reject
    \/ Reset

PromptSpec == PromptInit /\ [][PromptNext]_promptVars

\* Handler threads run on, and a wait with a timeout returns.
FairPromptSpec == PromptSpec /\ \A c \in Caller : WF_promptVars(Handle(c))

-----------------------------------------------------------------------------
(* Properties. *)

\* A handler that has not been woken.
Blocked(c) == pc[c] \in {"posted", "wait"} /\ mine[c] \notin woken

\* FR-017: only one request is pending at a time, and it is the one that the
\* buttons answer.
OnePending == \A c \in Caller : Blocked(c) => event = mine[c]

\* FR-017: a script that is told `confirmed`, or `cancelled`, is told so for a
\* click on its own prompt.
OwnAnswer ==
    \A p \in Prompt :
        /\ answer[p] = "confirmed" => verdict[p] = "done"
        /\ answer[p] = "cancelled" => verdict[p] = "cancel"

\* Both hold until the first bench reset, which cancels a prompt by itself.
OnePendingAtFirst == resets = 0 => OnePending
OwnAnswerAtFirst  == resets = 0 => OwnAnswer

\* `confirmed` means that somebody clicked Done on this prompt, even so.
ConfirmedByDone == \A p \in Prompt : answer[p] = "confirmed" => verdict[p] = "done"

\* A script whose prompt was accepted as done is not told of a timeout.
DoneIsHeard == \A p \in Prompt : verdict[p] = "done" => answer[p] # "timeout"

\* The operator who clicks Done has the prompt before him that it confirms.
DoneIsMeant ==
    \A p \in Prompt : verdict[p] = "done" => seen[p] \in {p, NoPrompt}

\* Every script that posts a prompt gets its thread back, bench reset or not.
PromptAnswered == \A c \in Caller : pc[c] # "idle" ~> pc[c] = "idle"

\* The inductive invariant behind the first two: without a bench reset there
\* is one handler at a time, and the module's variables are about its prompt.
OneHandler ==
    /\ \A c \in Caller : pc[c] # "idle" => event = mine[c] /\ mine[c] # NoPrompt
    /\ \A c, d \in Caller : pc[c] # "idle" /\ pc[d] # "idle" => c = d

WaitsOnOwn == \A c \in Caller : pc[c] \in {"wait", "cleanup"} => on[c] = mine[c]

WokenByClick ==
    /\ \A p \in Prompt : p \in woken <=> verdict[p] # "none"
    /\ event # NoPrompt => (confirmed <=> verdict[event] = "done")
    /\ \A c \in Caller : pc[c] = "cleanup" /\ responded[c] => mine[c] \in woken

FreshAfter == \A p \in Prompt : p > made => verdict[p] = "none" /\ answer[p] = "none"

PromptInv ==
    /\ PromptTypeOK
    /\ event <= made
    /\ resets = 0 => OneHandler /\ WaitsOnOwn /\ WokenByClick /\ FreshAfter /\ OwnAnswer
=============================================================================
