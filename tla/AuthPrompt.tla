----------------------------- MODULE AuthPrompt -----------------------------
(***************************************************************************)
(* The prompt bridge: a connecting thread (ssh.rs, UiPrompter::prompt and  *)
(* ui_prompt) emits a batch of questions and blocks for at most 300 s; the *)
(* page (ui/main.js) asks them one after the other in its two modals, each *)
(* of which has ONE resolver for the whole page, and calls                 *)
(* auth_prompt_reply.  Several connections may ask at once: tabs, transfer *)
(* threads, tunnels.                                                       *)
(***************************************************************************)
EXTENDS Naturals, Sequences, SequencesExt

CONSTANTS
    Prompts,    \* prompt ids: PROMPT_ID never repeats
    None,
    MaxBatch    \* bound: questions per batch

ASSUME PromptAssumption == None \notin Prompts /\ MaxBatch \in Nat

VARIABLES
    waiter,   \* the blocked thread of each id
    replies,  \* keys of the auth_replies map
    events,   \* ssh-auth-prompt events on their way
    asks,     \* questions of the batch still to be asked: the modal of each
    batch,    \* history: number of questions of the batch
    handler,  \* the page's event handler of each id
    owner,    \* whose resolver a modal holds (None: hidden)
    title,    \* whose question a modal shows
    answers,  \* the handler's `answers`: the title each was typed under
    calls,    \* auth_prompt_reply invocations on their way
    given     \* what the thread was given

authVars == <<waiter, replies, events, asks, batch, handler, owner, title, answers,
              calls, given>>
pageVars == <<asks, handler, owner, title, answers>>

(* askSecret for hidden input, askText for echoed input.                    *)
Modals == {"secret", "text"}

AuthInit ==
    /\ waiter = [p \in Prompts |-> "idle"]
    /\ replies = {}
    /\ events = {}
    /\ asks = [p \in Prompts |-> <<>>]
    /\ batch = [p \in Prompts |-> 0]
    /\ handler = [p \in Prompts |-> "none"]
    /\ owner = [m \in Modals |-> None]
    /\ title = [m \in Modals |-> None]
    /\ answers = [p \in Prompts |-> <<>>]
    /\ calls = {}
    /\ given = [p \in Prompts |-> <<>>]

-----------------------------------------------------------------------------
(* The connecting thread *)

(* Register the sender, then emit.  The server may ask nothing at all.      *)
Ask(p) ==
    /\ waiter[p] = "idle"
    /\ waiter' = [waiter EXCEPT ![p] = "waiting"]
    /\ replies' = replies \cup {p}
    /\ events' = events \cup {p}
    /\ \E b \in BoundedSeq(Modals, MaxBatch) :
          /\ asks' = [asks EXCEPT ![p] = b]
          /\ batch' = [batch EXCEPT ![p] = Len(b)]
    /\ UNCHANGED <<handler, owner, title, answers, calls, given>>

(* Mutant: the clock stands still while the question is on the screen.      *)
TimeOutUnlessShown(p) ==
    /\ waiter[p] = "waiting"
    /\ \A m \in Modals : owner[m] # p
    /\ waiter' = [waiter EXCEPT ![p] = "timed out"]
    /\ UNCHANGED <<replies, events, pageVars, batch, calls, given>>

(* recv_timeout: an empty answer list; the map keeps the sender.            *)
TimeOut(p) ==
    /\ waiter[p] = "waiting"
    /\ waiter' = [waiter EXCEPT ![p] = "timed out"]
    /\ UNCHANGED <<replies, events, pageVars, batch, calls, given>>

(* Mutant: the reply goes to some waiting thread, as if ids were ignored.   *)
ReplyToAny(c) ==
    /\ c \in calls
    /\ calls' = calls \ {c}
    /\ \E p \in replies :
          /\ replies' = replies \ {p}
          /\ IF waiter[p] = "waiting"
             THEN /\ waiter' = [waiter EXCEPT ![p] = "answered"]
                  /\ given' = [given EXCEPT ![p] = c.answers]
             ELSE UNCHANGED <<waiter, given>>
    /\ UNCHANGED <<events, pageVars, batch>>

(* auth_prompt_reply: the sender leaves the map; a thread that has given up *)
(* hears nothing.                                                           *)
Reply(c) ==
    /\ c \in calls
    /\ calls' = calls \ {c}
    /\ replies' = replies \ {c.id}
    /\ IF c.id \in replies /\ waiter[c.id] = "waiting"
       THEN /\ waiter' = [waiter EXCEPT ![c.id] = "answered"]
            /\ given' = [given EXCEPT ![c.id] = c.answers]
       ELSE UNCHANGED <<waiter, given>>
    /\ UNCHANGED <<events, pageVars, batch>>

-----------------------------------------------------------------------------
(* The page *)

(* The handler is done: it invokes auth_prompt_reply.                       *)
Invoke(p, a) ==
    /\ handler' = [handler EXCEPT ![p] = "done"]
    /\ calls' = calls \cup {[id |-> p, answers |-> a]}

(* The handler's loop, with `mine` answered and the modals as in `o`: the   *)
(* next question, by askSecret or askText, or the reply.  Asking replaces   *)
(* the modal's resolver and title, whoever had them.                        *)
Continue(p, mine, o) ==
    /\ answers' = [answers EXCEPT ![p] = mine]
    /\ IF asks[p] = <<>>
       THEN /\ Invoke(p, mine)
            /\ owner' = o
            /\ UNCHANGED <<asks, title>>
       ELSE /\ owner' = [o EXCEPT ![Head(asks[p])] = p]
            /\ title' = [title EXCEPT ![Head(asks[p])] = p]
            /\ asks' = [asks EXCEPT ![p] = Tail(@)]
            /\ handler' = [handler EXCEPT ![p] = "asking"]
            /\ UNCHANGED calls

HandleEvent(p) ==
    /\ p \in events
    /\ events' = events \ {p}
    /\ Continue(p, <<>>, owner)
    /\ UNCHANGED <<waiter, replies, batch, given>>

(* The user submits what the modal shows: the resolver runs once.           *)
Submit(m) ==
    /\ owner[m] # None
    /\ LET p == owner[m]
       IN  Continue(p, Append(answers[p], title[m]), [owner EXCEPT ![m] = None])
    /\ UNCHANGED <<waiter, replies, events, batch, given>>

(* Mutant: a cancelled batch sends the answers collected so far.            *)
CancelSendsPart(m) ==
    /\ owner[m] # None
    /\ owner' = [owner EXCEPT ![m] = None]
    /\ Invoke(owner[m], answers[owner[m]])
    /\ UNCHANGED <<waiter, replies, events, asks, batch, title, answers, given>>

(* Cancelling one question cancels the batch: an empty list is sent.        *)
Cancel(m) ==
    /\ owner[m] # None
    /\ owner' = [owner EXCEPT ![m] = None]
    /\ answers' = [answers EXCEPT ![owner[m]] = <<>>]
    /\ Invoke(owner[m], <<>>)
    /\ UNCHANGED <<waiter, replies, events, asks, batch, title, given>>

-----------------------------------------------------------------------------
AuthNext ==
    \/ \E p \in Prompts : Ask(p) \/ TimeOut(p) \/ HandleEvent(p)
    \/ \E c \in calls : Reply(c)
    \/ \E m \in Modals : Submit(m) \/ Cancel(m)

(* Timers fire, events and calls are delivered.                             *)
AuthSpec ==
    /\ AuthInit
    /\ [][AuthNext]_authVars
    /\ \A p \in Prompts : WF_authVars(TimeOut(p)) /\ WF_authVars(HandleEvent(p))
    /\ WF_authVars(\E c \in calls : Reply(c))

(* ... and a user who answers every modal that is shown.                    *)
AttentiveSpec == AuthSpec /\ \A m \in Modals : WF_authVars(Submit(m))

-----------------------------------------------------------------------------
(* Properties *)

(* Batches of several connections interleave in two shared modals, and are  *)
(* cut short by timeouts and cancellations: a thread is still given either  *)
(* nothing or one answer per question, each typed under its own question.   *)
AnswersAreOwn ==
    \A p \in Prompts :
        /\ \A i \in DOMAIN given[p] : given[p][i] = p
        /\ given[p] # <<>> => Len(given[p]) = batch[p]

(* An answered batch reaches its thread unless the thread has given up: its *)
(* sender is in the map and the call is on its way.                         *)
NoReplyLost ==
    \A p \in Prompts :
        handler[p] = "done" /\ waiter[p] = "waiting" =>
            p \in replies /\ \E c \in calls : c.id = p

(* A connecting thread is never blocked for ever on the user, whatever      *)
(* became of its modal.                                                     *)
ThreadReturns == \A p \in Prompts : (waiter[p] = "waiting") ~> (waiter[p] # "waiting")

(* The comment in ui/main.js: the prompts are answered one after the other  *)
(* and the answers are sent back.  When a second connection asks, its       *)
(* question takes over the modal, and the first handler never resumes, even *)
(* with a user who answers all that is shown.                               *)
EveryBatchIsReplied == \A p \in Prompts : (handler[p] = "asking") ~> (handler[p] = "done")

=============================================================================
