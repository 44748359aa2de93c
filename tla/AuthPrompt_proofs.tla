-------------------------- MODULE AuthPrompt_proofs --------------------------
(***************************************************************************)
(* Theorems about the prompt bridge, for every set of prompts and every    *)
(* size of a batch.                                                        *)
(***************************************************************************)
EXTENDS AuthPrompt, TLAPS

Types ==
    /\ waiter \in [Prompts -> {"idle", "waiting", "timed out", "answered"}]
    /\ handler \in [Prompts -> {"none", "asking", "done"}]
    /\ asks \in [Prompts -> Seq(Modals)]
    /\ batch \in [Prompts -> Nat]
    /\ owner \in [Modals -> Prompts \cup {None}]
    /\ title \in [Modals -> Prompts \cup {None}]
    /\ answers \in [Prompts -> Seq(Prompts)]
    /\ given \in [Prompts -> Seq(Prompts)]
    /\ events \subseteq Prompts

(* A list of answers of p: all typed under its own titles, none or all.     *)
OwnList(p, a, n) == a \in Seq({p}) /\ (a # <<>> => Len(a) = n)

(* A batch that nobody has begun to ask.                                    *)
Begun ==
    \A p \in Prompts :
        /\ waiter[p] = "idle" => handler[p] = "none" /\ p \notin events /\ given[p] = <<>>
        /\ p \in events => handler[p] = "none" /\ Len(asks[p]) = batch[p]

(* A resolver that a modal holds is that of a handler which has one         *)
(* question on the screen, under its own title, and knows how many are      *)
(* left; a handler that has lost its modal is never heard of again.         *)
Shown ==
    \A m \in Modals : owner[m] # None =>
        /\ title[m] = owner[m]
        /\ handler[owner[m]] = "asking"
        /\ answers[owner[m]] \in Seq({owner[m]})
        /\ Len(answers[owner[m]]) + Len(asks[owner[m]]) + 1 = batch[owner[m]]

OneModal == \A m, n \in Modals : owner[m] # None /\ owner[m] = owner[n] => m = n

Sent ==
    \A c \in calls :
        /\ c.id \in Prompts /\ handler[c.id] = "done"
        /\ OwnList(c.id, c.answers, batch[c.id])

Given == \A p \in Prompts : OwnList(p, given[p], batch[p])

Heard ==
    \A p \in Prompts : waiter[p] = "waiting" =>
        /\ p \in replies
        /\ handler[p] = "done" => \E c \in calls : c.id = p

AuthInv == Types /\ Begun /\ Shown /\ OneModal /\ Sent /\ Given /\ Heard

-----------------------------------------------------------------------------
(* A call on its way is among the calls.                                    *)
LEMMA CallIsThere ==
    ASSUME NEW p, NEW a, NEW before
    PROVE  \E c \in before \cup {[id |-> p, answers |-> a]} : c.id = p
<1>1. [id |-> p, answers |-> a] \in before \cup {[id |-> p, answers |-> a]}
    OBVIOUS
<1>2. [id |-> p, answers |-> a].id = p
    OBVIOUS
<1> QED
    BY <1>1, <1>2, Zenon

(* One question less to ask, one answer more.                               *)
LEMMA OneMore ==
    ASSUME NEW x \in Nat, NEW y \in Nat, NEW n, x + y + 1 = n
    PROVE  (x + 1) + y = n
OBVIOUS

LEMMA InitAuthInv == AuthInit => AuthInv
<1> SUFFICES ASSUME AuthInit PROVE AuthInv
    OBVIOUS
<1>1. \A S : <<>> \in Seq(S)
    OBVIOUS
<1>2. Types
    BY <1>1 DEF AuthInit, Types
<1>3. Begun /\ Shown /\ OneModal /\ Sent /\ Heard
    BY DEF AuthInit, Begun, Shown, OneModal, Sent, Heard
<1>4. Given
    BY <1>1 DEF AuthInit, Given, OwnList
<1> QED
    BY <1>2, <1>3, <1>4 DEF AuthInv

(* The size of a batch of p matters only to the lists of p.                 *)
LEMMA AskKeeps ==
    ASSUME AuthInv, NEW p \in Prompts, Ask(p)
    PROVE  AuthInv'
<1>1. PICK b \in BoundedSeq(Modals, MaxBatch) :
          asks' = [asks EXCEPT ![p] = b] /\ batch' = [batch EXCEPT ![p] = Len(b)]
    BY DEF Ask
<1>2. b \in Seq(Modals) /\ Len(b) \in Nat
  <2>1. PICK m \in 0..MaxBatch : b \in [1..m -> Modals]
      BY DEF BoundedSeq, SeqOf
  <2> QED
      BY <2>1, PromptAssumption
<1>3. waiter[p] = "idle" /\ handler[p] = "none" /\ given[p] = <<>>
    BY DEF Ask, AuthInv, Begun
<1>4. \A q \in Prompts : q # p => asks'[q] = asks[q] /\ batch'[q] = batch[q]
    BY <1>1 DEF AuthInv, Types
<1>5. asks'[p] = b /\ batch'[p] = Len(b)
    BY <1>1 DEF AuthInv, Types
<1>6. \A m \in Modals : owner[m] # p
    BY <1>3, PromptAssumption DEF AuthInv, Shown
<1>7. Types'
    BY <1>1, <1>2 DEF Ask, AuthInv, Types
<1>8. Begun'
    BY <1>3, <1>4, <1>5 DEF Ask, AuthInv, Types, Begun
<1>9. Shown'
  <2> SUFFICES ASSUME NEW m \in Modals, owner'[m] # None
               PROVE  /\ title'[m] = owner'[m]
                      /\ handler'[owner'[m]] = "asking"
                      /\ answers'[owner'[m]] \in Seq({owner'[m]})
                      /\ Len(answers'[owner'[m]]) + Len(asks'[owner'[m]]) + 1 = batch'[owner'[m]]
      BY DEF Shown
  <2>1. UNCHANGED <<owner, title, handler, answers>>
      BY DEF Ask
  <2>2. owner[m] \in Prompts /\ owner[m] # p
      BY <1>6, <2>1 DEF AuthInv, Types
  <2>3. asks'[owner[m]] = asks[owner[m]] /\ batch'[owner[m]] = batch[owner[m]]
      BY <1>4, <2>2
  <2> QED
      BY <2>1, <2>3 DEF AuthInv, Shown
<1>10. Sent'
    BY <1>3, <1>4 DEF Ask, AuthInv, Sent
<1>11. Given'
    BY <1>3, <1>4 DEF Ask, AuthInv, Given, OwnList
<1>12. Heard' /\ OneModal'
    BY <1>3 DEF Ask, AuthInv, Types, Heard, OneModal
<1> QED
    BY <1>7, <1>8, <1>9, <1>10, <1>11, <1>12 DEF AuthInv

LEMMA TimeOutKeeps ==
    ASSUME AuthInv, NEW p \in Prompts, TimeOut(p)
    PROVE  AuthInv'
<1>1. \A q \in Prompts : waiter'[q] = waiter[q] \/ waiter'[q] = "timed out"
    BY DEF TimeOut, AuthInv, Types
<1>2. Types' /\ Begun' /\ Heard'
    BY <1>1 DEF TimeOut, pageVars, AuthInv, Types, Begun, Heard
<1> QED
    BY <1>2 DEF TimeOut, pageVars, AuthInv, Shown, OneModal, Sent, Given

LEMMA ReplyKeeps ==
    ASSUME AuthInv, NEW c \in calls, Reply(c)
    PROVE  AuthInv'
<1>1. c.id \in Prompts /\ OwnList(c.id, c.answers, batch[c.id]) /\ handler[c.id] = "done"
    BY DEF AuthInv, Sent
<1>2. waiter[c.id] # "idle"
    BY <1>1 DEF AuthInv, Begun
<1>3. c.answers \in Seq(Prompts)
    BY <1>1 DEF OwnList
<1>4. /\ waiter'[c.id] # "waiting"
      /\ \A q \in Prompts : q # c.id => waiter'[q] = waiter[q] /\ given'[q] = given[q]
      /\ given'[c.id] \in {given[c.id], c.answers}
      /\ waiter'[c.id] # "idle"
    BY <1>1, <1>2 DEF Reply, AuthInv, Types, Heard
<1>5. Types'
    BY <1>1, <1>3 DEF Reply, pageVars, AuthInv, Types
<1>6. Begun'
    BY <1>4 DEF Reply, pageVars, AuthInv, Begun
<1>7. Sent' /\ Shown' /\ OneModal'
    BY DEF Reply, pageVars, AuthInv, Sent, Shown, OneModal
<1>8. Given'
    BY <1>1, <1>4 DEF Reply, AuthInv, Given
<1>9. Heard'
    BY <1>4 DEF Reply, pageVars, AuthInv, Heard
<1> QED
    BY <1>5, <1>6, <1>7, <1>8, <1>9 DEF AuthInv

-----------------------------------------------------------------------------
(* The handler of p goes on: all it needs is to have no modal, and one      *)
(* answer for each question it has asked.                                   *)
LEMMA ContinueKeeps ==
    ASSUME AuthInv, NEW p \in Prompts, NEW mine \in Seq({p}), NEW o \in [Modals -> Prompts \cup {None}],
           \A m \in Modals : o[m] # p /\ o[m] \in {owner[m], None},
           Len(mine) + Len(asks[p]) = batch[p],
           waiter[p] # "idle", handler[p] # "done",
           p \notin events', events' \subseteq events,
           UNCHANGED <<waiter, replies, batch, given>>,
           Continue(p, mine, o)
    PROVE  AuthInv'
<1>1. /\ answers' = [answers EXCEPT ![p] = mine]
      /\ answers'[p] = mine
      /\ \A q \in Prompts : q # p => answers'[q] = answers[q]
    BY DEF Continue, AuthInv, Types
<1>2. mine \in Seq(Prompts) /\ Len(mine) \in Nat
    OBVIOUS
<1>3. p # None
    BY PromptAssumption
<1>4. \A q \in Prompts : q # p => handler'[q] = handler[q] /\ asks'[q] = asks[q]
    BY DEF Continue, Invoke, AuthInv, Types
<1>5. CASE asks[p] = <<>>
  <2>1. /\ handler' = [handler EXCEPT ![p] = "done"]
        /\ calls' = calls \cup {[id |-> p, answers |-> mine]}
        /\ owner' = o /\ asks' = asks /\ title' = title
      BY <1>5 DEF Continue, Invoke
  <2>2. Types'
      BY <1>1, <1>2, <2>1 DEF AuthInv, Types
  <2>3. OwnList(p, mine, batch[p])
    <3>1. Len(asks[p]) = 0
        BY <1>5
    <3> QED
        BY <1>2, <3>1 DEF OwnList
  <2>4. Sent'
    <3>1. handler'[p] = "done"
        BY <2>1 DEF AuthInv, Types
    <3>2. \A c \in calls : handler'[c.id] = "done" /\ c.id \in Prompts /\ OwnList(c.id, c.answers, batch[c.id])
        BY <1>4, <3>1 DEF AuthInv, Sent
    <3> QED
        BY <2>1, <2>3, <3>1, <3>2 DEF Sent
  <2>5. Begun'
      BY <1>4, <2>1 DEF AuthInv, Types, Begun
  <2>6. Heard'
    <3>1. \E c \in calls' : c.id = p
        BY <2>1, CallIsThere
    <3>2. \A q \in Prompts : (\E c \in calls : c.id = q) => \E c \in calls' : c.id = q
        BY <2>1
    <3>3. ASSUME NEW q \in Prompts, waiter'[q] = "waiting"
          PROVE  q \in replies' /\ (handler'[q] = "done" => \E c \in calls' : c.id = q)
      <4>1. q \in replies
          BY <3>3 DEF AuthInv, Heard
      <4>2. CASE q = p
          BY <3>1, <4>1, <4>2
      <4>3. CASE q # p
        <5>1. handler'[q] = "done" => \E c \in calls : c.id = q
            BY <1>4, <3>3, <4>3 DEF AuthInv, Heard
        <5> QED
            BY <3>2, <4>1, <5>1
      <4> QED
          BY <4>2, <4>3
    <3> QED
        BY <3>3 DEF Heard
  <2>7. OneModal'
      BY <2>1 DEF AuthInv, OneModal
  <2>8. Shown'
    <3> SUFFICES ASSUME NEW m \in Modals, owner'[m] # None
                 PROVE  /\ title'[m] = owner'[m]
                        /\ handler'[owner'[m]] = "asking"
                        /\ answers'[owner'[m]] \in Seq({owner'[m]})
                        /\ Len(answers'[owner'[m]]) + Len(asks'[owner'[m]]) + 1 = batch'[owner'[m]]
        BY DEF Shown
    <3>1. owner'[m] = owner[m] /\ owner[m] # p /\ owner[m] \in Prompts
        BY <2>1 DEF AuthInv, Types
    <3>2. answers'[owner[m]] = answers[owner[m]] /\ handler'[owner[m]] = handler[owner[m]]
        BY <1>1, <1>4, <3>1
    <3> QED
        BY <2>1, <3>1, <3>2 DEF AuthInv, Shown
  <2> QED
      BY <2>2, <2>4, <2>5, <2>6, <2>7, <2>8 DEF AuthInv, Given
<1>6. CASE asks[p] # <<>>
  <2> DEFINE h == Head(asks[p])
  <2>1. /\ handler' = [handler EXCEPT ![p] = "asking"]
        /\ calls' = calls
        /\ owner' = [o EXCEPT ![h] = p]
        /\ title' = [title EXCEPT ![h] = p]
        /\ asks' = [asks EXCEPT ![p] = Tail(asks[p])]
      BY <1>6 DEF Continue
  <2>2. /\ asks[p] \in Seq(Modals) /\ h \in Modals
        /\ Tail(asks[p]) \in Seq(Modals)
        /\ Len(Tail(asks[p])) \in Nat /\ Len(asks[p]) \in Nat
        /\ Len(Tail(asks[p])) + 1 = Len(asks[p])
    <3>1. asks[p] \in Seq(Modals)
        BY DEF AuthInv, Types
    <3> HIDE DEF Modals
    <3> QED
        BY <1>6, <3>1
  <2> HIDE DEF h
  <2>3. Types'
      BY <1>1, <1>2, <2>1, <2>2 DEF AuthInv, Types
  <2>4. Begun'
      BY <1>4, <2>1 DEF AuthInv, Types, Begun
  <2>5. handler'[p] = "asking" /\ asks'[p] = Tail(asks[p])
      BY <2>1 DEF AuthInv, Types
  <2>6. Sent'
    <3>1. \A c \in calls : c.id # p
        BY DEF AuthInv, Sent
    <3> QED
        BY <1>4, <2>1, <3>1 DEF AuthInv, Sent
  <2>7. Heard'
      BY <1>4, <2>1, <2>5 DEF AuthInv, Heard
  <2>8. OneModal'
      BY <1>3, <2>1, <2>2 DEF AuthInv, OneModal
  <2>9. Shown'
    <3> SUFFICES ASSUME NEW m \in Modals, owner'[m] # None
                 PROVE  /\ title'[m] = owner'[m]
                        /\ handler'[owner'[m]] = "asking"
                        /\ answers'[owner'[m]] \in Seq({owner'[m]})
                        /\ Len(answers'[owner'[m]]) + Len(asks'[owner'[m]]) + 1 = batch'[owner'[m]]
        BY DEF Shown
    <3>1. CASE m = h
      <4>1. owner'[m] = p /\ title'[m] = p
          BY <2>1, <2>2, <3>1 DEF AuthInv, Types
      <4>2. Len(mine) + Len(Tail(asks[p])) + 1 = batch[p]
          BY <1>2, <2>2
      <4> QED
          BY <1>1, <2>5, <4>1, <4>2
    <3>2. CASE m # h
      <4>1. owner'[m] = owner[m] /\ owner[m] # p /\ owner[m] \in Prompts /\ title'[m] = title[m]
          BY <2>1, <3>2 DEF AuthInv, Types
      <4>2. /\ answers'[owner[m]] = answers[owner[m]] /\ handler'[owner[m]] = handler[owner[m]]
            /\ asks'[owner[m]] = asks[owner[m]]
          BY <1>1, <1>4, <4>1
      <4> QED
          BY <4>1, <4>2 DEF AuthInv, Shown
    <3> QED
        BY <3>1, <3>2
  <2> QED
      BY <2>3, <2>4, <2>6, <2>7, <2>8, <2>9 DEF AuthInv, Given
<1> QED
    BY <1>5, <1>6

-----------------------------------------------------------------------------
LEMMA HandleEventKeeps ==
    ASSUME AuthInv, NEW p \in Prompts, HandleEvent(p)
    PROVE  AuthInv'
<1>1. /\ p \in events /\ events' = events \ {p}
      /\ Continue(p, <<>>, owner)
      /\ UNCHANGED <<waiter, replies, batch, given>>
    BY DEF HandleEvent
<1>2. handler[p] = "none" /\ waiter[p] # "idle" /\ Len(asks[p]) = batch[p]
    BY <1>1 DEF AuthInv, Begun
<1>3. \A m \in Modals : owner[m] # p
    BY <1>2, PromptAssumption DEF AuthInv, Shown
<1>4. owner \in [Modals -> Prompts \cup {None}] /\ batch[p] \in Nat
    BY DEF AuthInv, Types
<1>5. <<>> \in Seq({p}) /\ Len(<<>>) + Len(asks[p]) = batch[p]
    BY <1>2, <1>4
<1> QED
    BY <1>1, <1>2, <1>3, <1>4, <1>5, ContinueKeeps

(* The handler whose resolver the modal m holds has no other modal.         *)
LEMMA OwnerFacts ==
    ASSUME AuthInv, NEW m \in Modals, owner[m] # None
    PROVE  /\ owner[m] \in Prompts /\ owner[m] \notin events
           /\ waiter[owner[m]] # "idle" /\ handler[owner[m]] = "asking"
           /\ [owner EXCEPT ![m] = None] \in [Modals -> Prompts \cup {None}]
           /\ \A n \in Modals :
                 /\ [owner EXCEPT ![m] = None][n] # owner[m]
                 /\ [owner EXCEPT ![m] = None][n] \in {owner[n], None}
<1>1. owner \in [Modals -> Prompts \cup {None}] /\ owner[m] \in Prompts
    BY DEF AuthInv, Types
<1>2. handler[owner[m]] = "asking"
    BY DEF AuthInv, Shown
<1>3. owner[m] \notin events /\ waiter[owner[m]] # "idle"
    BY <1>1, <1>2 DEF AuthInv, Begun
<1>4. \A n \in Modals : n # m => owner[n] # owner[m]
    BY DEF AuthInv, OneModal
<1>5. [owner EXCEPT ![m] = None] \in [Modals -> Prompts \cup {None}]
    BY <1>1
<1>6. \A n \in Modals : [owner EXCEPT ![m] = None][n] = IF n = m THEN None ELSE owner[n]
    BY <1>1
<1> QED
    BY <1>1, <1>2, <1>3, <1>4, <1>5, <1>6

LEMMA SubmitKeeps ==
    ASSUME AuthInv, NEW m \in Modals, Submit(m)
    PROVE  AuthInv'
<1> DEFINE p == owner[m]
           o == [owner EXCEPT ![m] = None]
           mine == Append(answers[p], title[m])
<1>1. /\ owner[m] # None
      /\ Continue(p, mine, o)
      /\ UNCHANGED <<waiter, replies, events, batch, given>>
    BY DEF Submit
<1>2. /\ p \in Prompts /\ p \notin events /\ waiter[p] # "idle" /\ handler[p] = "asking"
      /\ o \in [Modals -> Prompts \cup {None}]
      /\ \A n \in Modals : o[n] # p /\ o[n] \in {owner[n], None}
    BY <1>1, OwnerFacts
<1>3. /\ title[m] = p /\ answers[p] \in Seq({p})
      /\ Len(answers[p]) + Len(asks[p]) + 1 = batch[p]
    BY <1>1 DEF AuthInv, Shown
<1>4. asks[p] \in Seq(Modals)
    BY <1>2 DEF AuthInv, Types
<1> HIDE DEF p, o
<1>5. Len(asks[p]) \in Nat
    BY <1>4
<1>6. mine \in Seq({p}) /\ Len(mine) = Len(answers[p]) + 1 /\ Len(answers[p]) \in Nat
    BY <1>3
<1> HIDE DEF mine
<1>7. Len(mine) + Len(asks[p]) = batch[p]
  <2> DEFINE x == Len(answers[p])
             y == Len(asks[p])
  <2>1. x \in Nat /\ y \in Nat /\ x + y + 1 = batch[p]
      BY <1>3, <1>5, <1>6
  <2>2. Len(mine) = x + 1
      BY <1>6
  <2> HIDE DEF x, y
  <2>3. (x + 1) + y = batch[p]
      BY <2>1, OneMore
  <2> QED
      BY <2>2, <2>3 DEF y
<1> QED
    BY <1>1, <1>2, <1>6, <1>7, ContinueKeeps

LEMMA CancelKeeps ==
    ASSUME AuthInv, NEW m \in Modals, Cancel(m)
    PROVE  AuthInv'
<1> DEFINE p == owner[m]
           o == [owner EXCEPT ![m] = None]
<1>1. /\ owner[m] # None /\ owner' = o
      /\ answers' = [answers EXCEPT ![p] = <<>>]
      /\ handler' = [handler EXCEPT ![p] = "done"]
      /\ calls' = calls \cup {[id |-> p, answers |-> <<>>]}
      /\ UNCHANGED <<waiter, replies, events, asks, batch, title, given>>
    BY DEF Cancel, Invoke
<1>2. /\ p \in Prompts /\ p \notin events /\ waiter[p] # "idle" /\ handler[p] = "asking"
      /\ o \in [Modals -> Prompts \cup {None}]
      /\ \A n \in Modals : o[n] # p /\ o[n] \in {owner[n], None}
    BY <1>1, OwnerFacts
<1> HIDE DEF p, o
<1>3. <<>> \in Seq(Prompts) /\ <<>> \in Seq({p})
    OBVIOUS
<1>4. handler'[p] = "done" /\ \A q \in Prompts : q # p => handler'[q] = handler[q] /\ answers'[q] = answers[q]
    BY <1>1, <1>2 DEF AuthInv, Types
<1>5. Types'
    BY <1>1, <1>2, <1>3 DEF AuthInv, Types
<1>6. Begun' /\ Given'
    BY <1>1, <1>2, <1>4 DEF AuthInv, Begun, Given
<1>7. Sent'
  <2>1. OwnList(p, <<>>, batch[p])
      BY <1>3 DEF OwnList
  <2>2. \A c \in calls : c.id \in Prompts /\ handler'[c.id] = "done" /\ OwnList(c.id, c.answers, batch[c.id])
      BY <1>4 DEF AuthInv, Sent
  <2> QED
      BY <1>1, <1>2, <1>4, <2>1, <2>2 DEF Sent
<1>8. Heard'
  <2>1. \E c \in calls' : c.id = p
      BY <1>1, CallIsThere
  <2>2. ASSUME NEW q \in Prompts, waiter'[q] = "waiting", q # p
        PROVE  q \in replies' /\ (handler'[q] = "done" => \E c \in calls' : c.id = q)
      BY <1>1, <1>4, <2>2 DEF AuthInv, Heard
  <2>3. waiter'[p] = "waiting" => p \in replies'
      BY <1>1, <1>2 DEF AuthInv, Heard
  <2> QED
      BY <2>1, <2>2, <2>3 DEF Heard
<1>9. OneModal'
    BY <1>1, <1>2 DEF AuthInv, OneModal
<1>10. Shown'
  <2> SUFFICES ASSUME NEW n \in Modals, owner'[n] # None
               PROVE  /\ title'[n] = owner'[n]
                      /\ handler'[owner'[n]] = "asking"
                      /\ answers'[owner'[n]] \in Seq({owner'[n]})
                      /\ Len(answers'[owner'[n]]) + Len(asks'[owner'[n]]) + 1 = batch'[owner'[n]]
      BY DEF Shown
  <2>1. owner'[n] = owner[n] /\ owner[n] # p /\ owner[n] \in Prompts
      BY <1>1, <1>2 DEF AuthInv, Types
  <2>2. answers'[owner[n]] = answers[owner[n]] /\ handler'[owner[n]] = handler[owner[n]]
      BY <1>4, <2>1
  <2> QED
      BY <1>1, <2>1, <2>2 DEF AuthInv, Shown
<1> QED
    BY <1>5, <1>6, <1>7, <1>8, <1>9, <1>10 DEF AuthInv

-----------------------------------------------------------------------------
(* The theorems *)

LEMMA StepAuthInv == AuthInv /\ [AuthNext]_authVars => AuthInv'
<1>1. ASSUME AuthInv, UNCHANGED authVars
      PROVE  AuthInv'
    BY <1>1 DEF authVars, AuthInv, Types, Begun, Shown, OneModal, Sent, Given, Heard
<1> QED
    BY <1>1, AskKeeps, TimeOutKeeps, ReplyKeeps, HandleEventKeeps, SubmitKeeps, CancelKeeps
    DEF AuthNext

LEMMA AuthInvariant == AuthSpec => []AuthInv
BY InitAuthInv, StepAuthInv, PTL DEF AuthSpec

(* Any number of connections take each other's modals, time out and are     *)
(* cancelled: what a thread is given are its own answers, all or none.      *)
THEOREM PromptAnswersAreOwn == AuthSpec => []AnswersAreOwn
<1>1. ASSUME Given PROVE AnswersAreOwn
  <2>1. ASSUME NEW p \in Prompts
        PROVE  /\ \A i \in DOMAIN given[p] : given[p][i] = p
               /\ given[p] # <<>> => Len(given[p]) = batch[p]
    <3>1. given[p] \in Seq({p}) /\ (given[p] # <<>> => Len(given[p]) = batch[p])
        BY <1>1 DEF Given, OwnList
    <3> QED
        BY <3>1
  <2> QED
      BY <2>1 DEF AnswersAreOwn
<1> QED
    BY <1>1, AuthInvariant, PTL DEF AuthInv

(* A reply that was sent finds its thread, if it still waits.               *)
THEOREM PromptRepliesArrive == AuthSpec => []NoReplyLost
<1>1. Heard => NoReplyLost
    BY DEF Heard, NoReplyLost
<1> QED
    BY <1>1, AuthInvariant, PTL DEF AuthInv

=============================================================================
