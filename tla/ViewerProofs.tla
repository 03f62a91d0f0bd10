----------------------------- MODULE ViewerProofs ----------------------------
(***************************************************************************)
(* What the viewer shows and asks for, for any number of rows, requests    *)
(* and answers in flight: one part after the other, as the modules do.     *)
(* Each proves that its invariant is inductive and then the property.      *)
(***************************************************************************)
EXTENDS Desk, Picking, Door, Atlas, Paging, FiniteSetTheorems, SequenceTheorems, TLAPS

(***************************************************************************)
(* What a confirmed delete takes, for any number of records, requests and  *)
(* answers in flight.                                                      *)
(*                                                                         *)
(* DeletesAreConfirmed says nothing of the requests that still travel:     *)
(* CallsMatch follows an answer back to the detail that asked for it, by   *)
(* the mount it came from, and ToldEnough carries the count of episodes a  *)
(* challenge showed up to the delete, because rows only lose episodes.     *)
(***************************************************************************)
Tokens == 1 .. Len(issued)

DeskTypes ==
    /\ rows \in [Items -> Int] /\ \A i \in Items : rows[i] >= Gone
    /\ issued \in Seq([item : Items, at : Int, impact : Int])
    /\ pending \subseteq Tokens
    /\ now \in Int
    /\ desk \in [item : Items \cup {Nothing}, mount : Nat,
                 confirm : {"none", "forget", "unconsolidate"},
                 token : Tokens \cup {NoToken}, busy : BOOLEAN]
    /\ calls \subseteq [kind : {"ask", "forget", "unconsolidate"}, item : Items,
                        token : Tokens \cup {NoToken}, from : Nat,
                        answer : {"none", "challenge", "done", "error"}]
    /\ desk.confirm # "none" => desk.item \in Items

(* A token the dialog holds is about the record it is open on, and an      *)
(* answer on its way to this mount is about its record.                    *)
TokenMatches == desk.token # NoToken => issued[desk.token].item = desk.item

CallsMatch ==
    \A c \in calls :
        /\ c.from <= desk.mount
        /\ c.from = desk.mount => c.item = desk.item
        /\ c.answer = "challenge" => c.token # NoToken /\ issued[c.token].item = c.item

(* A record never has more episodes than any challenge said.               *)
ToldEnough == \A t \in Tokens : rows[issued[t].item] <= issued[t].impact

DeletedAsTold ==
    \A d \in deleted :
        /\ d.token \in Tokens
        /\ issued[d.token].item = d.item /\ d.at < issued[d.token].at + ConfirmTtl
        /\ d.lost <= issued[d.token].impact

DeskInv == DeskTypes /\ TokenMatches /\ CallsMatch /\ ToldEnough /\ DeletedAsTold

(***************************************************************************)
(* Initial states, and steps that leave the server alone.                  *)
(***************************************************************************)
LEMMA DeskInitInv == DeskInit => DeskInv
<1> SUFFICES ASSUME DeskInit PROVE DeskInv
  OBVIOUS
<1>1. Len(issued) = 0 /\ Tokens = {} /\ issued \in Seq([item : Items, at : Int, impact : Int])
  BY DEF DeskInit, Tokens
<1>2. DeskTypes
  BY <1>1, DeskAssumption DEF DeskInit, DeskTypes, Mounted, Gone, Nothing, NoToken
<1>3. TokenMatches /\ CallsMatch /\ ToldEnough /\ DeletedAsTold
  BY <1>1 DEF DeskInit, TokenMatches, CallsMatch, ToldEnough, DeletedAsTold, Mounted
<1> QED
  BY <1>2, <1>3 DEF DeskInv

LEMMA ServerStill ==
    ASSUME ToldEnough, DeletedAsTold, UNCHANGED <<rows, issued, deleted>>
    PROVE  ToldEnough' /\ DeletedAsTold'
BY DEF ToldEnough, DeletedAsTold, Tokens

(* What a step of the page keeps: the server is still, the detail stays or *)
(* is another mount, and every call is an old one or an honest one.        *)
LEMMA PageStep ==
    ASSUME DeskInv, Here,
           desk' \in [item : Items \cup {Nothing}, mount : Nat,
                      confirm : {"none", "forget", "unconsolidate"},
                      token : Tokens \cup {NoToken}, busy : BOOLEAN],
           desk'.confirm # "none" => desk'.item \in Items,
           desk'.token # NoToken => issued[desk'.token].item = desk'.item,
           \/ desk'.mount = desk.mount /\ desk'.item = desk.item
           \/ desk'.mount = desk.mount + 1,
           \A c \in calls' \ calls :
              /\ c \in [kind : {"ask", "forget", "unconsolidate"}, item : Items,
                        token : Tokens \cup {NoToken}, from : Nat,
                        answer : {"none", "challenge", "done", "error"}]
              /\ c.from <= desk.mount
              /\ c.from = desk.mount => c.item = desk.item
              /\ c.answer # "challenge"
    PROVE  DeskInv'
<1> USE DEF Here
<1>1. Tokens' = Tokens /\ ToldEnough' /\ DeletedAsTold'
  BY ServerStill DEF DeskInv, Tokens
<1>2. DeskTypes'
  BY <1>1 DEF DeskInv, DeskTypes
<1>3. TokenMatches'
  BY DEF TokenMatches
<1>4. CallsMatch'
  <2> SUFFICES ASSUME NEW c \in calls'
               PROVE  /\ c.from <= desk'.mount
                      /\ c.from = desk'.mount => c.item = desk'.item
                      /\ c.answer = "challenge" => c.token # NoToken /\ issued[c.token].item = c.item
    BY DEF CallsMatch
  <2>1. /\ c.from \in Nat /\ c.from <= desk.mount
        /\ c.from = desk.mount => c.item = desk.item
        /\ c.answer = "challenge" => c.token # NoToken /\ issued[c.token].item = c.item
    BY DEF DeskInv, DeskTypes, CallsMatch
  <2>2. desk.mount \in Nat
    BY DEF DeskInv, DeskTypes
  <2> QED
    BY <2>1, <2>2
<1> QED
  BY <1>1, <1>2, <1>3, <1>4 DEF DeskInv

(***************************************************************************)
(* The page.                                                               *)
(***************************************************************************)
LEMMA NewCall ==
    ASSUME DeskInv, NEW kind \in {"ask", "forget", "unconsolidate"},
           NEW t \in Tokens \cup {NoToken}, desk.item \in Items
    PROVE  LET c == Call(kind, desk.item, t) IN
           /\ c \in [kind : {"ask", "forget", "unconsolidate"}, item : Items,
                     token : Tokens \cup {NoToken}, from : Nat,
                     answer : {"none", "challenge", "done", "error"}]
           /\ c.from = desk.mount /\ c.item = desk.item /\ c.answer = "none"
BY DEF Call, DeskInv, DeskTypes

LEMMA PageSteps ==
    ASSUME DeskInv,
           \/ \E i \in Items \cup {Nothing} : Select(i)
           \/ AskForget \/ OpenUnconsolidate \/ Confirm \/ Dismiss
    PROVE  DeskInv'
<1> USE DEF DeskInv, DeskTypes, TokenMatches
<1>1. ASSUME NEW i \in Items \cup {Nothing}, Select(i) PROVE DeskInv'
  <2>1. desk' = Mounted(i, desk.mount + 1) /\ Here /\ calls' = calls
    BY <1>1 DEF Select
  <2> QED
    BY <2>1, PageStep DEF Mounted
<1>2. CASE AskForget
  <2>1. /\ desk.item \in Items /\ Here
        /\ desk' = [desk EXCEPT !.confirm = "forget", !.token = NoToken]
        /\ calls' = calls \cup {Call("ask", desk.item, NoToken)}
    BY <1>2 DEF AskForget, Send
  <2>2. /\ desk.mount \in Nat
        /\ desk' \in [item : Items \cup {Nothing}, mount : Nat,
                      confirm : {"none", "forget", "unconsolidate"},
                      token : Tokens \cup {NoToken}, busy : BOOLEAN]
        /\ desk'.mount = desk.mount /\ desk'.item = desk.item /\ desk'.token = NoToken
    BY <2>1
  <2>3. \A c \in calls' \ calls :
        /\ c \in [kind : {"ask", "forget", "unconsolidate"}, item : Items,
                  token : Tokens \cup {NoToken}, from : Nat,
                  answer : {"none", "challenge", "done", "error"}]
        /\ c.from = desk.mount /\ c.item = desk.item /\ c.answer = "none"
    <3>1. \A c \in calls' \ calls : c = Call("ask", desk.item, NoToken)
      BY <2>1
    <3> QED
      BY <2>1, <3>1, NewCall
  <2> QED
    BY <2>1, <2>2, <2>3, PageStep
<1>3. CASE OpenUnconsolidate
  <2>1. /\ desk.item \in Items /\ Here /\ calls' = calls
        /\ desk' = [desk EXCEPT !.confirm = "unconsolidate"]
    BY <1>3 DEF OpenUnconsolidate, Items
  <2> QED
    BY <2>1, PageStep
<1>4. CASE Confirm
  <2> DEFINE t == IF desk.confirm = "forget" THEN desk.token ELSE NoToken
  <2>1. /\ desk.confirm \in {"forget", "unconsolidate"} /\ desk.item \in Items /\ Here
        /\ desk' = [desk EXCEPT !.busy = TRUE]
        /\ calls' = calls \cup {Call(desk.confirm, desk.item, t)}
    BY <1>4 DEF Confirm, Send
  <2>2. t \in Tokens \cup {NoToken}
    OBVIOUS
  <2> HIDE DEF t
  <2>3. /\ desk.mount \in Nat
        /\ desk' \in [item : Items \cup {Nothing}, mount : Nat,
                      confirm : {"none", "forget", "unconsolidate"},
                      token : Tokens \cup {NoToken}, busy : BOOLEAN]
        /\ desk'.mount = desk.mount /\ desk'.item = desk.item /\ desk'.token = desk.token
    BY <2>1
  <2>4. \A c \in calls' \ calls :
        /\ c \in [kind : {"ask", "forget", "unconsolidate"}, item : Items,
                  token : Tokens \cup {NoToken}, from : Nat,
                  answer : {"none", "challenge", "done", "error"}]
        /\ c.from = desk.mount /\ c.item = desk.item /\ c.answer = "none"
    <3>1. \A c \in calls' \ calls : c = Call(desk.confirm, desk.item, t)
      BY <2>1
    <3> QED
      BY <2>1, <2>2, <3>1, NewCall
  <2>5. /\ desk'.item \in Items
        /\ desk'.token # NoToken => issued[desk'.token].item = desk'.item
    BY <2>1, <2>3
  <2> HIDE DEF DeskInv, DeskTypes, TokenMatches
  <2>6. Here
    BY <2>1
  <2> QED
    BY <2>3, <2>4, <2>5, <2>6, PageStep
<1>5. CASE Dismiss
  <2>1. /\ Here /\ calls' = calls
        /\ desk' = [desk EXCEPT !.confirm = "none", !.token = NoToken]
    BY <1>5 DEF Dismiss
  <2> QED
    BY <2>1, PageStep
<1> QED
  BY <1>1, <1>2, <1>3, <1>4, <1>5

LEMMA AnswerSteps ==
    ASSUME DeskInv, NEW call \in calls, Arrives(call)
    PROVE  DeskInv'
<1> USE DEF DeskInv, DeskTypes, TokenMatches
<1>1. Here
  BY DEF Arrives
<1>2. CASE Asked(call)
  <2>1. \/ desk' = desk
        \/ desk' = [desk EXCEPT !.token = call.token] /\ Alive(call) /\ call.answer = "challenge"
    BY <1>2 DEF Asked
  <2>2. calls' = calls \ {call}
    BY <1>2 DEF Asked
  <2>3. desk'.token # NoToken => issued[desk'.token].item = desk'.item
    BY <2>1 DEF CallsMatch, Alive
  <2> QED
    BY <1>1, <2>1, <2>2, <2>3, PageStep
<1>3. CASE Worked(call)
  <2>1. desk' = Mounted(Nothing, desk.mount + 1) /\ calls' = calls \ {call}
    BY <1>3 DEF Worked
  <2> QED
    BY SMTT(30), <1>1, <2>1, PageStep DEF Mounted
<1>4. CASE Failed(call)
  <2> DEFINE again == [call EXCEPT !.kind = "ask", !.token = NoToken, !.answer = "none"]
  <2>1. \A c \in calls' \ calls : c = again
    BY <1>4 DEF Failed
  <2>2. /\ again \in [kind : {"ask", "forget", "unconsolidate"}, item : Items,
                      token : Tokens \cup {NoToken}, from : Nat,
                      answer : {"none", "challenge", "done", "error"}]
        /\ again.from = call.from /\ again.item = call.item /\ again.answer = "none"
    OBVIOUS
  <2> HIDE DEF again
  <2>3. call.from <= desk.mount /\ (call.from = desk.mount => call.item = desk.item)
    BY DEF CallsMatch
  <2>4. /\ desk' \in [item : Items \cup {Nothing}, mount : Nat,
                      confirm : {"none", "forget", "unconsolidate"},
                      token : Tokens \cup {NoToken}, busy : BOOLEAN]
        /\ desk'.item = desk.item /\ desk'.mount = desk.mount /\ desk'.confirm = desk.confirm
        /\ desk'.token \in {desk.token, NoToken}
    BY <1>4 DEF Failed
  <2> QED
    BY <1>1, <2>1, <2>2, <2>3, <2>4, PageStep
<1> QED
  BY <1>2, <1>3, <1>4 DEF Arrives

LEMMA LostStep ==
    ASSUME DeskInv, NEW call \in calls, Lost(call)
    PROVE  DeskInv'
<1> USE DEF DeskInv, DeskTypes, TokenMatches
<1> DEFINE broken == [call EXCEPT !.answer = "error"]
<1>1. Here /\ desk' = desk /\ \A c \in calls' \ calls : c = broken
  BY DEF Lost
<1>2. /\ broken \in [kind : {"ask", "forget", "unconsolidate"}, item : Items,
                     token : Tokens \cup {NoToken}, from : Nat,
                     answer : {"none", "challenge", "done", "error"}]
      /\ broken.from = call.from /\ broken.item = call.item /\ broken.answer = "error"
  OBVIOUS
<1> HIDE DEF broken
<1>3. call.from <= desk.mount /\ (call.from = desk.mount => call.item = desk.item)
  BY DEF CallsMatch
<1> QED
  BY <1>1, <1>2, <1>3, PageStep

(***************************************************************************)
(* The server.                                                             *)
(***************************************************************************)
(* An answer replaces its call: same record, same mount, a token it has.   *)
LEMMA AnswerMatches ==
    ASSUME DeskTypes, CallsMatch, NEW call \in calls,
           NEW answer \in {"none", "challenge", "done", "error"}, NEW token,
           Answered(call, answer, token), UNCHANGED desk,
           Tokens \subseteq Tokens', token \in Tokens' \cup {NoToken},
           \A t \in Tokens : issued'[t] = issued[t],
           answer = "challenge" => token # NoToken /\ issued'[token].item = call.item
    PROVE  /\ CallsMatch'
           /\ calls' \subseteq [kind : {"ask", "forget", "unconsolidate"}, item : Items,
                                token : Tokens' \cup {NoToken}, from : Nat,
                                answer : {"none", "challenge", "done", "error"}]
<1> DEFINE new == [call EXCEPT !.answer = answer, !.token = token]
<1>1. calls' = (calls \ {call}) \cup {new}
  BY DEF Answered
<1>2. /\ new \in [kind : {"ask", "forget", "unconsolidate"}, item : Items,
                  token : Tokens' \cup {NoToken}, from : Nat,
                  answer : {"none", "challenge", "done", "error"}]
      /\ new.from = call.from /\ new.item = call.item /\ new.answer = answer /\ new.token = token
  BY ZenonT(30) DEF DeskTypes
<1> HIDE DEF new
<1>3. CallsMatch'
  <2> SUFFICES ASSUME NEW c \in calls'
               PROVE  /\ c.from <= desk.mount
                      /\ c.from = desk.mount => c.item = desk.item
                      /\ c.answer = "challenge" => c.token # NoToken /\ issued'[c.token].item = c.item
    BY DEF CallsMatch
  <2>1. CASE c = new
    BY <1>2, <2>1 DEF CallsMatch
  <2>2. CASE c \in calls
    <3>1. c.token \in Tokens \cup {NoToken}
      BY <2>2 DEF DeskTypes
    <3> QED
      BY <2>2, <3>1 DEF CallsMatch
  <2> QED
    BY <1>1, <2>1, <2>2
<1>4. \A c \in calls' : c \in [kind : {"ask", "forget", "unconsolidate"}, item : Items,
                               token : Tokens' \cup {NoToken}, from : Nat,
                               answer : {"none", "challenge", "done", "error"}]
  BY <1>1, <1>2 DEF DeskTypes
<1> QED
  BY <1>3, <1>4

LEMMA ChallengeStep ==
    ASSUME DeskInv, NEW call \in calls, Challenge(call), rows[call.item] # Gone,
           UNCHANGED <<now, desk>>
    PROVE  DeskInv'
<1> DEFINE rec == [item |-> call.item, at |-> now, impact |-> rows[call.item]]
           n == Len(issued) + 1
<1>1. DeskTypes /\ TokenMatches /\ CallsMatch /\ ToldEnough /\ DeletedAsTold
  BY DEF DeskInv
<1>2. call.item \in Items /\ issued \in Seq([item : Items, at : Int, impact : Int])
      /\ rec \in [item : Items, at : Int, impact : Int]
  BY <1>1 DEF DeskTypes
<1>3. issued' = Append(issued, rec) /\ rows' = rows /\ deleted' = deleted
  BY DEF Challenge
<1> HIDE DEF rec
<1>4. /\ Len(issued) \in Nat /\ Len(issued') = n /\ issued'[n] = rec
      /\ \A t \in Tokens : issued'[t] = issued[t]
      /\ issued' \in Seq([item : Items, at : Int, impact : Int])
  BY <1>2, <1>3, AppendProperties DEF Tokens
<1>5. Tokens' = Tokens \cup {n}
  BY <1>4 DEF Tokens
<1>6. pending' \subseteq Tokens'
  BY <1>1, <1>4, <1>5 DEF Challenge, DeskTypes
<1>7. rec.item = call.item /\ rec.impact = rows[call.item] /\ n # NoToken
  BY <1>4 DEF rec, NoToken
<1>8. Answered(call, "challenge", n)
  BY <1>4 DEF Challenge
<1> HIDE DEF n
<1>9. /\ CallsMatch'
      /\ calls' \subseteq [kind : {"ask", "forget", "unconsolidate"}, item : Items,
                           token : Tokens' \cup {NoToken}, from : Nat,
                           answer : {"none", "challenge", "done", "error"}]
  BY <1>1, <1>4, <1>5, <1>7, <1>8, AnswerMatches
<1>10. DeskTypes' /\ TokenMatches'
  BY <1>1, <1>3, <1>4, <1>5, <1>6, <1>9 DEF DeskTypes, TokenMatches
<1>11. ToldEnough'
  <2>1. \A t \in Tokens : rows[issued[t].item] <= issued[t].impact
    BY <1>1 DEF ToldEnough
  <2>2. rows[rec.item] <= rec.impact
    BY <1>1, <1>2, <1>7 DEF DeskTypes
  <2> QED
    BY <1>3, <1>4, <1>5, <2>1, <2>2 DEF ToldEnough
<1>12. DeletedAsTold'
  BY <1>1, <1>3, <1>4, <1>5 DEF DeletedAsTold
<1> QED
  BY <1>9, <1>10, <1>11, <1>12 DEF DeskInv

LEMMA IssuedType ==
    ASSUME DeskTypes, NEW t \in Tokens
    PROVE  issued[t] \in [item : Items, at : Int, impact : Int]
BY ElementOfSeq DEF DeskTypes, Tokens

LEMMA RowsLess ==
    ASSUME DeskTypes, NEW i \in Items, NEW k \in Int, k <= rows[i], k >= Gone,
           rows' = [rows EXCEPT ![i] = k]
    PROVE  rows' \in [Items -> Int] /\ \A j \in Items : rows'[j] <= rows[j] /\ rows'[j] >= Gone
<1>1. rows \in [Items -> Int] /\ \A j \in Items : rows[j] >= Gone
  BY DEF DeskTypes
<1> QED
  BY <1>1

(* What the other steps of the server do to the rows only takes away.      *)
LEMMA RowsShrink ==
    ASSUME DeskTypes, ToldEnough, UNCHANGED issued,
           rows' \in [Items -> Int], \A i \in Items : rows'[i] <= rows[i]
    PROVE  ToldEnough'
<1>1. ASSUME NEW t \in Tokens PROVE rows'[issued[t].item] <= issued[t].impact
  <2>1. issued[t] \in [item : Items, at : Int, impact : Int]
    BY IssuedType
  <2>2. rows[issued[t].item] <= issued[t].impact
    BY DEF ToldEnough
  <2>3. rows[issued[t].item] \in Int /\ rows'[issued[t].item] <= rows[issued[t].item]
        /\ rows'[issued[t].item] \in Int
    BY <2>1 DEF DeskTypes
  <2> QED
    BY <2>1, <2>2, <2>3
<1> QED
  BY <1>1 DEF ToldEnough, Tokens

LEMMA DeleteStep ==
    ASSUME DeskInv, NEW call \in calls, Delete(call), Consumes(call.token, call.item),
           UNCHANGED <<now, desk>>
    PROVE  DeskInv'
<1>1. DeskTypes /\ TokenMatches /\ CallsMatch /\ ToldEnough /\ DeletedAsTold
  BY DEF DeskInv
<1>2. /\ issued' = issued /\ Tokens' = Tokens /\ pending' \subseteq pending
      /\ rows' = [rows EXCEPT ![call.item] = Gone]
      /\ deleted' = deleted \cup {[item |-> call.item, token |-> call.token,
                                   lost |-> rows[call.item], at |-> now]}
      /\ Answered(call, "done", call.token)
  BY DEF Delete, Tokens
<1>3. call.item \in Items /\ call.token \in Tokens
  BY <1>1 DEF Consumes, DeskTypes
<1>4. rows' \in [Items -> Int] /\ (\A i \in Items : rows'[i] <= rows[i] /\ rows'[i] >= Gone)
  <2>1. Gone \in Int /\ rows[call.item] >= Gone /\ Gone >= Gone
    BY <1>1, <1>3 DEF DeskTypes, Gone
  <2> QED
    BY <1>1, <1>2, <1>3, <2>1, RowsLess DEF Gone
<1>5. ToldEnough'
  BY <1>1, <1>2, <1>4, RowsShrink
<1>6. /\ CallsMatch'
      /\ calls' \subseteq [kind : {"ask", "forget", "unconsolidate"}, item : Items,
                           token : Tokens' \cup {NoToken}, from : Nat,
                           answer : {"none", "challenge", "done", "error"}]
  BY <1>1, <1>2, <1>3, AnswerMatches
<1>7. DeskTypes' /\ TokenMatches'
  BY <1>1, <1>2, <1>4, <1>6 DEF DeskTypes, TokenMatches
<1>8. rows[call.item] <= issued[call.token].impact /\ now < issued[call.token].at + ConfirmTtl
  <2>1. issued[call.token].at \in Int /\ now \in Int
    BY <1>1, <1>3, IssuedType DEF DeskTypes
  <2> QED
    BY <1>1, <1>3, <2>1, DeskAssumption DEF ToldEnough, Consumes
<1>9. DeletedAsTold'
  BY <1>1, <1>2, <1>3, <1>8 DEF DeletedAsTold, Consumes
<1> QED
  BY <1>5, <1>6, <1>7, <1>9 DEF DeskInv

LEMMA PlainAnswer ==
    ASSUME DeskInv, NEW call \in calls, NEW answer \in {"done", "error"}, NEW token,
           token \in {call.token, NoToken}, Answered(call, answer, token),
           UNCHANGED <<now, desk, issued, pending, deleted>>,
           rows' \in [Items -> Int], \A i \in Items : rows'[i] <= rows[i] /\ rows'[i] >= Gone
    PROVE  DeskInv'
<1>1. DeskTypes /\ TokenMatches /\ CallsMatch /\ ToldEnough /\ DeletedAsTold
  BY DEF DeskInv
<1>2. Tokens' = Tokens /\ token \in Tokens' \cup {NoToken}
  BY <1>1 DEF Tokens, DeskTypes
<1>3. /\ CallsMatch'
      /\ calls' \subseteq [kind : {"ask", "forget", "unconsolidate"}, item : Items,
                           token : Tokens' \cup {NoToken}, from : Nat,
                           answer : {"none", "challenge", "done", "error"}]
  BY <1>1, <1>2, AnswerMatches
<1>4. DeskTypes' /\ TokenMatches' /\ DeletedAsTold'
  BY <1>1, <1>2, <1>3 DEF DeskTypes, TokenMatches, DeletedAsTold
<1> QED
  BY <1>1, <1>3, <1>4, RowsShrink DEF DeskInv

LEMMA ServerSteps ==
    ASSUME DeskInv, NEW call \in calls, ServeForget(call) \/ ServeUnconsolidate(call)
    PROVE  DeskInv'
<1>1. DeskTypes /\ call.item \in Items
  BY DEF DeskInv, DeskTypes
<1>2. \A i \in Items : rows[i] <= rows[i] /\ rows[i] >= Gone
  BY <1>1 DEF DeskTypes
<1>3. CASE ServeForget(call)
  <2>1. CASE rows[call.item] = Gone \/ ~allowed
    BY <1>1, <1>2, <1>3, <2>1, PlainAnswer DEF ServeForget, Refuse, DeskTypes
  <2>2. CASE ~ (rows[call.item] = Gone \/ ~allowed) /\ Consumes(call.token, call.item)
    BY <1>3, <2>2, DeleteStep DEF ServeForget
  <2>3. CASE ~ (rows[call.item] = Gone \/ ~allowed) /\ ~Consumes(call.token, call.item)
    BY <1>3, <2>3, ChallengeStep DEF ServeForget
  <2> QED
    BY <2>1, <2>2, <2>3
<1>4. CASE ServeUnconsolidate(call)
  <2>1. rows' \in [Items -> Int] /\ (\A i \in Items : rows'[i] <= rows[i] /\ rows'[i] >= Gone)
    <3>1. CASE rows' = rows
      BY <1>1, <1>2, <3>1 DEF DeskTypes
    <3>2. CASE rows' = [rows EXCEPT ![call.item] = Gone]
      <4>1. Gone \in Int /\ rows[call.item] >= Gone /\ Gone >= Gone
        BY <1>1 DEF DeskTypes, Gone
      <4> QED
        BY <1>1, <3>2, <4>1, RowsLess DEF Gone
    <3> QED
      BY <1>4, <3>1, <3>2 DEF ServeUnconsolidate
  <2>2. \E answer \in {"done", "error"} : Answered(call, answer, NoToken)
    BY <1>4 DEF ServeUnconsolidate
  <2> QED
    BY <1>4, <2>1, <2>2, PlainAnswer DEF ServeUnconsolidate
<1> QED
  BY <1>3, <1>4

LEMMA OutsideSteps ==
    ASSUME DeskInv, DeskTick \/ \E i \in Items : Elsewise(i)
    PROVE  DeskInv'
<1>1. DeskTypes /\ TokenMatches /\ CallsMatch /\ ToldEnough /\ DeletedAsTold
  BY DEF DeskInv
<1>2. UNCHANGED <<issued, pending, desk, calls, deleted>> /\ Tokens' = Tokens /\ now' \in Int
  BY <1>1 DEF DeskTick, Elsewise, DeskTypes, Tokens
<1>3. rows' \in [Items -> Int] /\ (\A i \in Items : rows'[i] <= rows[i] /\ rows'[i] >= Gone)
  <2>1. CASE DeskTick
    BY <1>1, <2>1 DEF DeskTick, DeskTypes
  <2>2. ASSUME NEW i \in Items, Elsewise(i)
        PROVE  rows' \in [Items -> Int] /\ (\A j \in Items : rows'[j] <= rows[j] /\ rows'[j] >= Gone)
    <3>1. rows' = [rows EXCEPT ![i] = rows[i] - 1]
      BY <2>2 DEF Elsewise
    <3>2. rows[i] \in Int /\ rows[i] >= Gone /\ rows[i] # Gone
      BY <1>1, <2>2 DEF Elsewise, DeskTypes
    <3>3. rows[i] - 1 \in Int /\ rows[i] - 1 <= rows[i] /\ rows[i] - 1 >= Gone
      BY <3>2 DEF Gone
    <3> QED
      BY <1>1, <3>1, <3>3, RowsLess
  <2> QED
    BY <2>1, <2>2
<1>4. ToldEnough'
  BY <1>1, <1>2, <1>3, RowsShrink
<1> QED
  BY <1>1, <1>2, <1>3, <1>4 DEF DeskInv, DeskTypes, TokenMatches, CallsMatch, DeletedAsTold

LEMMA DeskNextInv == DeskInv /\ [DeskNext]_deskVars => DeskInv'
<1> SUFFICES ASSUME DeskInv, [DeskNext]_deskVars PROVE DeskInv'
  OBVIOUS
<1>1. CASE UNCHANGED deskVars
  BY <1>1 DEF deskVars, DeskInv, DeskTypes, TokenMatches, CallsMatch, ToldEnough,
              DeletedAsTold, Tokens
<1>2. CASE DeskNext
  BY <1>2, PageSteps, AnswerSteps, LostStep, ServerSteps, OutsideSteps DEF DeskNext
<1> QED
  BY <1>1, <1>2

(* The dialog offers to delete the record it is about, and no delete ever  *)
(* took more than its challenge told, however many answers cross.          *)
THEOREM DeletesAreConfirmedHolds == DeskSpec => []DeletesAreConfirmed
<1>1. DeskInv => DeletesAreConfirmed
  BY DEF DeskInv, TokenMatches, DeletedAsTold, DeletesAreConfirmed
<1> QED
  BY <1>1, DeskInitInv, DeskNextInv, PTL DEF DeskSpec

------------------------------------------------------------------------------
(***************************************************************************)
(* The dialog of Picking.  That it is there for the picks it was asked for *)
(* is inductive with the type of the form alone: while it shows, it is     *)
(* modal, and the answers that still arrive close it or leave it be.       *)
(***************************************************************************)
FormType == form \in [on : BOOLEAN, mount : Nat, busy : BOOLEAN]

PickInv == FormType /\ DialogWasAsked

(* What needs the page behind the dialog finds no dialog.                  *)
LEMMA BehindIsShut ==
    ASSUME PickInv, Behind
    PROVE  ~form.on
BY DEF PickInv, DialogWasAsked, Behind

LEMMA PickInitInv == PickInit => PickInv
BY DEF PickInit, PickInv, FormType, DialogWasAsked, Shut

(* A step that leaves the picks alone and does not open the dialog.        *)
LEMMA DialogStays ==
    ASSUME PickInv, FormType', form'.on => form.on,
           UNCHANGED <<picked, pressed>>
    PROVE  PickInv'
BY DEF PickInv, DialogWasAsked, Shown, ScopesOf, Scope

(* A step of the page behind leaves the form as it is: there is none.      *)
LEMMA PageBehind ==
    ASSUME PickInv, Behind, UNCHANGED form
    PROVE  PickInv'
<1>1. ~form.on
  BY BehindIsShut
<1> QED
  BY <1>1 DEF PickInv, FormType, DialogWasAsked

LEMMA PressStep ==
    ASSUME PickInv, PressCrystallize
    PROVE  PickInv'
<1>1. FormType' /\ form'.on
  BY DEF PickInv, FormType, PressCrystallize
<1>2. picked' = picked /\ pressed' = picked /\ picked # NotPicking /\ Cardinality(ScopesOf(picked)) = 1
  BY DEF PressCrystallize
<1>3. Shown'
  BY <1>1, <1>2 DEF Shown, ScopesOf, Scope, NotPicking
<1> QED
  BY <1>1, <1>2, <1>3 DEF PickInv, DialogWasAsked

LEMMA DialogSteps ==
    ASSUME PickInv,
           \/ SubmitTrait \/ CancelDialog
           \/ \E post \in posts : ServeTrait(post) \/ PostBreaks(post) \/ TraitFails(post)
           \/ \E m \in PMemories : DeletePicked(m)
           \/ Debounce \/ UNCHANGED pickVars
    PROVE  PickInv'
<1>1. FormType' /\ (form'.on => form.on)
  BY DEF PickInv, FormType, SubmitTrait, CancelDialog, ServeTrait, PostBreaks, TraitFails,
         DeletePicked, Debounce, pickVars
<1>2. UNCHANGED <<picked, pressed>>
  BY DEF SubmitTrait, CancelDialog, ServeTrait, PostBreaks, TraitFails,
         DeletePicked, Debounce, pickVars
<1> QED
  BY <1>1, <1>2, DialogStays

(* An answer that worked closes whatever dialog there is.                  *)
LEMMA DoneStep ==
    ASSUME PickInv, NEW post \in posts, TraitDone(post)
    PROVE  PickInv'
BY DEF PickInv, FormType, DialogWasAsked, TraitDone, Closed

LEMMA PickNextInv == PickInv /\ [PickNext]_pickVars => PickInv'
<1> SUFFICES ASSUME PickInv, [PickNext]_pickVars PROVE PickInv'
  OBVIOUS
<1>1. CASE \/ \E term \in TermsTyped \cup {Empty} : Type(term)
           \/ SubmitSearch
           \/ \E next \in Views : ChangeView(next)
           \/ ChangeScope \/ TogglePicking
           \/ \E m \in PMemories : TogglePick(m)
  <2>1. Behind /\ UNCHANGED form
    BY <1>1 DEF Type, SubmitSearch, ChangeView, ChangeScope, TogglePicking, TogglePick
  <2> QED
    BY <2>1, PageBehind
<1>2. CASE PressCrystallize
  BY <1>2, PressStep
<1>3. CASE \E post \in posts : TraitDone(post)
  BY <1>3, DoneStep
<1>4. CASE \/ SubmitTrait \/ CancelDialog
           \/ \E post \in posts : ServeTrait(post) \/ PostBreaks(post) \/ TraitFails(post)
           \/ \E m \in PMemories : DeletePicked(m)
           \/ Debounce \/ UNCHANGED pickVars
  BY <1>4, DialogSteps
<1> QED
  BY <1>1, <1>2, <1>3, <1>4 DEF PickNext

(* DialogWasAsked of Picking: no answer to an earlier dialog opens one,    *)
(* nor changes the picks under the one that is there.                      *)
THEOREM DialogWasAskedHolds == PickSpec => []DialogWasAsked
<1>1. PickInv => DialogWasAsked
  BY DEF PickInv
<1> QED
  BY <1>1, PickInitInv, PickNextInv, PTL DEF PickSpec

------------------------------------------------------------------------------
(***************************************************************************)
(* The door.  A session that lets a request in ends with its credentials   *)
(* and its hours: CookieMatches ties the end that is signed to the hour it *)
(* was issued, and a restart leaves no answer of the process before it.    *)
(* What LoginAttempts holds are sign-ins that failed since the last good   *)
(* one, so the count that blocks never exceeds theirs.                     *)
(***************************************************************************)
CookieRecords == [until : Int, key : Secrets \cup {Open}, at : Int, lasts : Nat]

DoorTypes ==
    /\ auth \in Secrets \cup {Open} /\ hours \in Hours /\ hour \in Nat
    /\ cookie \in CookieRecords
    /\ failed \in Seq(Nat)
    /\ failures \subseteq DOMAIN failed

CookieMatches == cookie.until = cookie.at + cookie.lasts

DoorInv == DoorTypes /\ CookieMatches /\ TheDoorOpensAgain

LEMMA DoorInitInv == DoorInit => DoorInv
<1> SUFFICES ASSUME DoorInit PROVE DoorInv
  OBVIOUS
<1>1. cookie = NoCookie /\ cookie \in CookieRecords
  BY DEF DoorInit, NoCookie, CookieRecords
<1>2. DoorTypes
  BY <1>1, DoorAssumption DEF DoorInit, DoorTypes
<1>3. CookieMatches
  BY <1>1 DEF NoCookie, CookieMatches
<1>4. TheDoorOpensAgain
  BY DEF DoorInit, TheDoorOpensAgain, SessionsEnd, LockoutEnds
<1> QED
  BY <1>2, <1>3, <1>4 DEF DoorInv

(* A step that gives no answer, and changes neither the credentials nor    *)
(* the log of failures.                                                    *)
LEMMA DoorQuiet ==
    ASSUME TheDoorOpensAgain, UNCHANGED <<auth, response, failed>>
    PROVE  TheDoorOpensAgain'
BY DEF TheDoorOpensAgain, SessionsEnd, LockoutEnds

(* An answer that is neither a page behind the session nor a refusal to    *)
(* look at a password claims nothing.                                      *)
LEMMA DoorPlain ==
    ASSUME response'.by = "none", response'.status # 429
    PROVE  TheDoorOpensAgain'
BY DEF TheDoorOpensAgain, SessionsEnd, LockoutEnds

LEMMA AnswerIsPlain ==
    ASSUME NEW code, code # 429, Answering(code)
    PROVE  TheDoorOpensAgain'
<1>1. response'.by = "none" /\ response'.status = code
  BY DEF Answering, Status
<1> QED
  BY <1>1, DoorPlain

(* The failures that are held, and recent, are failures of the log.        *)
LEMMA RecentAreFailed ==
    ASSUME DoorTypes
    PROVE  LET Late == {i \in DOMAIN failed : hour - failed[i] < WindowLen} IN
           /\ Recent \subseteq failures
           /\ Cardinality(Recent) \in Nat /\ Cardinality(Late) \in Nat
           /\ Cardinality(Recent) <= Cardinality(Late)
<1> DEFINE Late == {i \in DOMAIN failed : hour - failed[i] < WindowLen}
<1>1. Recent \subseteq failures /\ Recent \subseteq Late /\ Late \subseteq DOMAIN failed
  BY DEF Recent, DoorTypes
<1>2. DOMAIN failed = 1 .. Len(failed) /\ Len(failed) \in Nat
  BY DEF DoorTypes
<1>3. IsFiniteSet(DOMAIN failed)
  BY <1>2, FS_Interval
<1>4. IsFiniteSet(Late)
  BY <1>1, <1>3, FS_Subset
<1>5. IsFiniteSet(Recent) /\ Cardinality(Recent) <= Cardinality(Late)
  BY <1>1, <1>4, FS_Subset
<1> QED
  BY <1>1, <1>4, <1>5, FS_CardinalityType

LEMMA SubmitStep ==
    ASSUME DoorInv, SubmitForm
    PROVE  DoorInv'
<1> DEFINE Late == {i \in DOMAIN failed : hour - failed[i] < WindowLen}
<1>1. /\ Recent \subseteq failures
      /\ Cardinality(Recent) \in Nat /\ Cardinality(Late) \in Nat
      /\ Cardinality(Recent) <= Cardinality(Late)
  BY RecentAreFailed DEF DoorInv
<1>2. UNCHANGED <<auth, hours, hour, cookie, failed>> /\ failures' = Recent
  BY DEF SubmitForm, Answering, Reading
<1>3. DoorTypes' /\ CookieMatches'
  BY <1>1, <1>2 DEF DoorInv, DoorTypes, CookieMatches
<1>4. CASE Cardinality(Recent) >= MaxAttempts /\ Answering(429)
  <2>1. response' = [status |-> 429, by |-> "none", cookie |-> NoCookie, at |-> hour]
    BY <1>4 DEF Answering, Status
  <2>2. Cardinality(Late) >= MaxAttempts
    BY <1>1, <1>4, DoorAssumption
  <2> QED
    BY <1>2, <1>3, <2>1, <2>2 DEF DoorInv, TheDoorOpensAgain, SessionsEnd, LockoutEnds
<1>5. CASE UNCHANGED response
  BY <1>2, <1>3, <1>5, DoorQuiet DEF DoorInv
<1> QED
  BY <1>4, <1>5 DEF SubmitForm, Reading

LEMMA FormStep ==
    ASSUME DoorInv, NEW i, NEW fits, NEW secret, FormRead(i, fits, secret)
    PROVE  DoorInv'
<1>1. TheDoorOpensAgain'
  BY AnswerIsPlain DEF FormRead
<1>2. UNCHANGED <<auth, hours, hour>>
  BY DEF FormRead, Answering
<1>3. CASE failures' = {} /\ failed' = <<>> /\ cookie' = Issued
  <2>1. cookie' \in CookieRecords /\ cookie'.until = cookie'.at + cookie'.lasts
    BY <1>3, DoorAssumption DEF Issued, CookieRecords, DoorInv, DoorTypes
  <2>2. <<>> \in Seq(Nat)
    OBVIOUS
  <2> QED
    BY <1>1, <1>2, <1>3, <2>1, <2>2 DEF DoorInv, DoorTypes, CookieMatches
<1>4. CASE Failing /\ UNCHANGED cookie
  <2>1. failed' \in Seq(Nat) /\ DOMAIN failed' = DOMAIN failed \cup {Len(failed) + 1}
    BY <1>4 DEF Failing, DoorInv, DoorTypes
  <2> QED
    BY <1>1, <1>2, <1>4, <2>1 DEF Failing, DoorInv, DoorTypes, CookieMatches
<1> QED
  BY <1>3, <1>4 DEF FormRead

LEMMA OutStep ==
    ASSUME DoorInv, SignOut
    PROVE  DoorInv'
<1>1. TheDoorOpensAgain'
  BY AnswerIsPlain DEF SignOut
<1>2. cookie' \in CookieRecords /\ cookie'.until = cookie'.at + cookie'.lasts
  BY DEF SignOut, NoCookie, CookieRecords
<1> QED
  BY <1>1, <1>2 DEF SignOut, Answering, DoorInv, DoorTypes, CookieMatches

(* A visit let in by its session: it was issued under these credentials,   *)
(* and its end is still to come.                                           *)
LEMMA VisitStep ==
    ASSUME DoorInv, NEW local, NEW basic, Visit(local, basic)
    PROVE  DoorInv'
<1>1. DoorTypes' /\ CookieMatches'
  BY DEF Visit, Answering, DoorInv, DoorTypes, CookieMatches
<1>2. CASE Answering(403) \/ Answering(401)
  BY <1>1, <1>2, AnswerIsPlain DEF DoorInv
<1>3. CASE /\ SignedIn(basic)
           /\ response' = [Status(200) EXCEPT !.by = IF BasicAuth(basic) THEN "basic" ELSE "cookie",
                                              !.cookie = cookie]
           /\ UNCHANGED <<auth, hours, hour, restarts>>
  <2>1. /\ response'.status = 200 /\ response'.cookie = cookie /\ response'.at = hour
        /\ response'.by = IF BasicAuth(basic) THEN "basic" ELSE "cookie"
    BY <1>3 DEF Status
  <2>2. LockoutEnds'
    BY <2>1 DEF LockoutEnds
  <2>3. ASSUME response'.by = "cookie"
        PROVE  Verified(cookie)
    BY <1>3, <2>1, <2>3 DEF SignedIn
  <2>4. ASSUME Verified(cookie)
        PROVE  cookie.key = auth /\ hour < cookie.at + cookie.lasts
    BY <2>4 DEF Verified, DoorInv, DoorTypes, CookieRecords, CookieMatches
  <2>5. SessionsEnd'
    BY <1>3, <2>1, <2>3, <2>4 DEF SessionsEnd
  <2> QED
    BY <1>1, <2>2, <2>5 DEF DoorInv, TheDoorOpensAgain
<1> QED
  BY <1>2, <1>3 DEF Visit

LEMMA PostStep ==
    ASSUME DoorInv, NEW route, NEW local, NEW basic, NEW kind, Post(route, local, basic, kind)
    PROVE  DoorInv'
<1>1. UNCHANGED <<auth, hours, hour, failures, cookie, failed>>
  BY DEF Post, Answering, Reading
<1> DEFINE refusal ==
         IF ~HostAllowed(local) THEN 403
         ELSE IF route = "mcp" /\ ~BasicAuth(basic) THEN 401
         ELSE IF route = "api" /\ ~SignedIn(basic) THEN 401
         ELSE IF kind = "not JSON" THEN 415
         ELSE IF route = "api" /\ kind = "from elsewhere" THEN 403
         ELSE IF kind = "declared too large" THEN 413
         ELSE 0
<1>2. IF refusal # 0 THEN Answering(refusal) ELSE UNCHANGED response
  BY DEF Post, Reading
<1>3. refusal # 429
  OBVIOUS
<1>4. TheDoorOpensAgain'
  <2> HIDE DEF refusal
  <2>1. CASE refusal # 0
    BY <1>2, <1>3, <2>1, AnswerIsPlain
  <2>2. CASE refusal = 0
    BY <1>1, <1>2, <2>2, DoorQuiet DEF DoorInv
  <2> QED
    BY <2>1, <2>2
<1> QED
  BY <1>1, <1>4 DEF DoorInv, DoorTypes, CookieMatches

LEMMA BodyStep ==
    ASSUME DoorInv, NEW i, NEW code \in {200, 400, 413}, BodyRead(i, code)
    PROVE  DoorInv'
<1>1. TheDoorOpensAgain'
  BY AnswerIsPlain DEF BodyRead
<1> QED
  BY <1>1 DEF BodyRead, Answering, DoorInv, DoorTypes, CookieMatches

LEMMA RestartStep ==
    ASSUME DoorInv, NEW secret \in Secrets \cup {Open}, NEW length \in Hours, RestartServer(secret, length)
    PROVE  DoorInv'
<1>1. response'.by = "none" /\ response'.status = 0
  BY DEF RestartServer, Status
<1>2. TheDoorOpensAgain'
  BY <1>1, DoorPlain
<1>3. failed' \in Seq(Nat) /\ failures' \subseteq DOMAIN failed'
  BY DEF RestartServer
<1> QED
  BY <1>2, <1>3 DEF RestartServer, DoorInv, DoorTypes, CookieMatches

LEMMA DoorNextInv == DoorInv /\ [DoorNext]_doorVars => DoorInv'
<1> SUFFICES ASSUME DoorInv, [DoorNext]_doorVars PROVE DoorInv'
  OBVIOUS
<1>1. CASE AnHourPasses
  BY <1>1, DoorQuiet DEF AnHourPasses, DoorInv, DoorTypes, CookieMatches
<1>2. CASE UNCHANGED doorVars
  BY <1>2, DoorQuiet DEF doorVars, DoorInv, DoorTypes, CookieMatches
<1>3. CASE SubmitForm \/ SignOut
  BY <1>3, SubmitStep, OutStep
<1>4. ASSUME NEW i \in DOMAIN reading, NEW fits \in BOOLEAN, NEW secret \in Secrets, FormRead(i, fits, secret)
      PROVE  DoorInv'
  BY <1>4, FormStep
<1>5. ASSUME NEW i \in DOMAIN reading, NEW code \in {200, 400, 413}, BodyRead(i, code)
      PROVE  DoorInv'
  BY <1>5, BodyStep
<1>6. ASSUME NEW local, NEW basic, Visit(local, basic)
      PROVE  DoorInv'
  BY <1>6, VisitStep
<1>7. ASSUME NEW local, NEW basic, NEW route, NEW kind, Post(route, local, basic, kind)
      PROVE  DoorInv'
  BY <1>7, PostStep
<1>8. ASSUME NEW secret \in Secrets \cup {Open}, NEW length \in Hours, RestartServer(secret, length)
      PROVE  DoorInv'
  BY <1>8, RestartStep
<1>9. CASE \E i \in DOMAIN reading :
              \/ \E fits \in BOOLEAN, secret \in Secrets : FormRead(i, fits, secret)
              \/ \E code \in {200, 400, 413} : BodyRead(i, code)
  BY <1>4, <1>5, <1>9
<1>10. CASE \E local \in Matters(auth = Open), basic \in Matters(auth # Open) :
               \/ Visit(local, basic)
               \/ \E route \in {"api", "mcp"},
                     kind \in {"not JSON", "from elsewhere", "declared too large", "own"} :
                     Post(route, local, basic, kind)
  BY <1>6, <1>7, <1>10
<1>11. CASE \E secret \in Secrets \cup {Open}, length \in Hours : RestartServer(secret, length)
  BY <1>8, <1>11
<1> QED
  BY <1>1, <1>2, <1>3, <1>9, <1>10, <1>11 DEF DoorNext

(* TheDoorOpensAgain of Door: what a session lets in was signed under the  *)
(* credentials of now and has not lasted its hours, and a person is turned *)
(* away only while that many sign-ins failed within the window.            *)
THEOREM TheDoorOpensAgainHolds == DoorSpec => []TheDoorOpensAgain
<1>1. DoorInv => TheDoorOpensAgain
  BY DEF DoorInv
<1> QED
  BY <1>1, DoorInitInv, DoorNextInv, PTL DEF DoorSpec

------------------------------------------------------------------------------
(***************************************************************************)
(* The graph.  Every statement of the answer adds links between nodes it   *)
(* adds itself or that came before it (NoDangling of the body), and counts *)
(* no turn twice: a pair was used together in some of the turns there are, *)
(* and the sample is read after the last edge (CountsCovered).  The turns  *)
(* the strength was computed with lag behind it by the writes at most.     *)
(***************************************************************************)
BodyRecords(b) ==
    /\ b.nodes \subseteq Nodes
    /\ \A l \in b.links : l.ends \subseteq b.nodes /\ l.n \in Nat
    /\ b.divisor \in Nat

AtlasTypes ==
    /\ couse \in [PairsOf(GMemories) -> Nat] /\ turns \in Nat /\ writes \in Nat
    /\ alive \subseteq Nodes
    /\ DOMAIN body = {"at", "nodes", "links", "divisor", "turns"}
    /\ body = [at |-> body.at, nodes |-> body.nodes, links |-> body.links,
                divisor |-> body.divisor, turns |-> body.turns]
    /\ BodyRecords(body)

LinkCovered(l, sample) ==
    /\ l.n <= sample
    /\ l.share = "every turn" => sample <= l.n + writes
    /\ l.share = "some turns" => l.n < sample
    /\ l.share = "unknown" => sample <= writes

CountsCovered ==
    /\ \A p \in PairsOf(GMemories) : couse[p] <= turns
    /\ body.at = "edges" => body.divisor <= turns /\ turns <= body.divisor + writes
    /\ body.at # "sent" => \A l \in body.links : LinkCovered(l, turns)
    /\ body.at = "sent" => \A l \in body.links : LinkCovered(l, body.turns)

DrawingSound ==
    /\ \A l \in drawing.links : l.ends \subseteq drawing.nodes
    /\ LocalIsOnePiece

AtlasInv == AtlasTypes /\ CountsCovered /\ DrawingSound

LEMMA AtlasInitInv == AtlasInit => AtlasInv
<1> SUFFICES ASSUME AtlasInit PROVE AtlasInv
  OBVIOUS
<1>1. AtlasTypes /\ CountsCovered
  BY DEF AtlasInit, AtlasTypes, BodyRecords, CountsCovered, Asking
<1>2. DrawingSound
  BY DEF AtlasInit, DrawingSound, LocalIsOnePiece, Undrawn
<1> QED
  BY <1>1, <1>2 DEF AtlasInv

LEMMA LinksStayCovered ==
    ASSUME UNCHANGED <<turns, writes, body>>
    PROVE  /\ \A l : LinkCovered(l, turns)' <=> LinkCovered(l, turns)
           /\ \A l : LinkCovered(l, body.turns)' <=> LinkCovered(l, body.turns)
BY DEF LinkCovered

(* A statement that adds nodes, and links between nodes that are there.    *)
LEMMA ReadAdds ==
    ASSUME AtlasInv, NEW from, NEW to, NEW nodes, NEW links, Read(from, to, nodes, links),
           from # "sent", to \notin {"edges", "sent"}, nodes \subseteq Nodes,
           \A l \in links : l.ends \subseteq body.nodes \cup nodes /\ l.n \in Nat /\ LinkCovered(l, turns)
    PROVE  AtlasInv'
<1>1. /\ body' = [at |-> to, nodes |-> body.nodes \cup nodes, links |-> body.links \cup links,
                  divisor |-> body.divisor, turns |-> body.turns]
      /\ body.at # "sent"
      /\ UNCHANGED <<alive, couse, turns, writes, drawing>>
  BY DEF Read, AtlasInv, AtlasTypes
<1>2. AtlasTypes'
  BY <1>1 DEF AtlasInv, AtlasTypes, BodyRecords
<1>3. \A l : LinkCovered(l, turns)' <=> LinkCovered(l, turns)
  BY <1>1 DEF LinkCovered
<1>4. CountsCovered'
  BY <1>1, <1>3 DEF AtlasInv, CountsCovered
<1>5. DrawingSound'
  BY <1>1 DEF AtlasInv, DrawingSound, LocalIsOnePiece
<1> QED
  BY <1>2, <1>4, <1>5 DEF AtlasInv

(* A link of another layer counts nothing.                                 *)
LEMMA LinkIs ==
    ASSUME AtlasInv, NEW l, l.n = 0, l.share = None
    PROVE  l.n \in Nat /\ LinkCovered(l, turns)
BY DEF AtlasInv, AtlasTypes, LinkCovered, None

(* What the branch says of n uses when the turns are now that many more.   *)
LEMMA ShareIs ==
    ASSUME NEW n \in Nat, NEW among \in Nat, NEW sample \in Nat, NEW more \in Nat,
           n <= sample, among <= sample, sample <= among + more
    PROVE  /\ Share(n, among) = "every turn" => sample <= n + more
           /\ Share(n, among) = "some turns" => n < sample
           /\ Share(n, among) = "unknown" => sample <= more
<1>1. CASE among = 0
  BY <1>1 DEF Share
<1>2. CASE among # 0 /\ n >= among
  BY <1>2 DEF Share
<1>3. CASE among # 0 /\ ~(n >= among)
  BY <1>3 DEF Share
<1> QED
  BY <1>1, <1>2, <1>3

LEMMA ReadSteps ==
    ASSUME AtlasInv,
           \/ ReadMemories \/ ReadTraits
           \/ \E wanted \in BOOLEAN : ReadEpisodes(wanted) \/ ReadRelated(wanted)
           \/ \E minN \in 1..2 : ReadCoUse(minN)
    PROVE  AtlasInv'
<1>1. /\ turns \in Nat /\ writes \in Nat /\ alive \subseteq Nodes /\ body.nodes \subseteq Nodes
      /\ Ids \subseteq body.nodes /\ Ids \subseteq GMemories
  BY DEF AtlasInv, AtlasTypes, BodyRecords, Ids
<1>2. CASE ReadMemories
  <2>1. PICK M \in SUBSET (alive \cap GMemories) : Read("memories", "traits", M, {})
    BY <1>2 DEF ReadMemories
  <2> QED
    BY <1>1, <2>1, ReadAdds
<1>3. CASE ReadTraits
  <2> DEFINE traits == alive \cap GTraits
             links  == UNION {Evidence(t) : t \in traits}
  <2>1. Read("traits", "episodes", traits, links)
    BY <1>3 DEF ReadTraits
  <2>2. ASSUME NEW l \in links
        PROVE  l.ends \subseteq body.nodes \cup traits /\ l.n \in Nat /\ LinkCovered(l, turns)
    <3>1. PICK t \in traits : l \in Evidence(t)
      OBVIOUS
    <3>2. PICK m \in Ids : l = Link(m, t, "evidence")
      BY <3>1 DEF Evidence
    <3>3. l.ends = {m, t} /\ l.n = 0 /\ l.share = None
      BY <3>2 DEF Link
    <3> QED
      BY <1>1, <3>2, <3>3, LinkIs
  <2> HIDE DEF traits, links
  <2>3. traits \subseteq Nodes
    BY <1>1 DEF traits
  <2> QED
    BY <1>1, <2>1, <2>2, <2>3, ReadAdds
<1>4. ASSUME NEW wanted \in BOOLEAN, ReadEpisodes(wanted)
      PROVE  AtlasInv'
  <2> DEFINE some  == IF wanted THEN {e \in alive \cap GEpisodes : origin[e] \in Ids} ELSE {}
             links == {Link(e, origin[e], "origin") : e \in some}
  <2>1. Read("episodes", "related", some, links)
    BY <1>4 DEF ReadEpisodes
  <2>2. ASSUME NEW l \in links
        PROVE  l.ends \subseteq body.nodes \cup some /\ l.n \in Nat /\ LinkCovered(l, turns)
    <3>1. PICK e \in some : l = Link(e, origin[e], "origin")
      OBVIOUS
    <3>2. origin[e] \in body.nodes
      BY <1>1, <3>1
    <3>3. l.ends = {e, origin[e]} /\ l.n = 0 /\ l.share = None
      BY <3>1 DEF Link
    <3> QED
      BY <3>1, <3>2, <3>3, LinkIs
  <2>3. some \subseteq Nodes
    BY <1>1
  <2> HIDE DEF some, links
  <2> QED
    BY <1>1, <2>1, <2>2, <2>3, ReadAdds
<1>5. ASSUME NEW wanted \in BOOLEAN, ReadRelated(wanted)
      PROVE  AtlasInv'
  <2> DEFINE links == IF wanted
                      THEN {Link(m, n, "related") : m \in Ids \cap alive, n \in Ids \cap alive}
                              \cap {[ends |-> p, kind |-> "related", n |-> 0, share |-> None] : p \in Alike}
                      ELSE {}
  <2>1. Read("related", "couse", {}, links)
    BY <1>5 DEF ReadRelated
  <2>2. ASSUME NEW l \in links
        PROVE  l.ends \subseteq body.nodes /\ l.n \in Nat /\ LinkCovered(l, turns)
    <3>1. PICK m \in Ids \cap alive, n \in Ids \cap alive : l = Link(m, n, "related")
      OBVIOUS
    <3>2. l.ends = {m, n} /\ l.n = 0 /\ l.share = None
      BY <3>1 DEF Link
    <3> QED
      BY <1>1, <3>1, <3>2, LinkIs
  <2> HIDE DEF links
  <2> QED
    BY <1>1, <2>1, <2>2, ReadAdds
<1>6. ASSUME NEW minN \in 1..2, ReadCoUse(minN)
      PROVE  AtlasInv'
  <2> DEFINE often == {p \in PairsOf(Ids \cap alive) : couse[p] >= minN}
             links == {[ends |-> p, kind |-> "co_use", n |-> couse[p], share |-> Share(couse[p], body.divisor)] :
                          p \in often}
  <2>1. Read("edges", "turns", {}, links) /\ body.at = "edges"
    BY <1>6 DEF ReadCoUse, Read
  <2>2. /\ body.divisor \in Nat /\ body.divisor <= turns /\ turns <= body.divisor + writes
        /\ \A p \in PairsOf(GMemories) : couse[p] \in Nat /\ couse[p] <= turns
    BY <2>1 DEF AtlasInv, AtlasTypes, BodyRecords, CountsCovered
  <2>3. ASSUME NEW l \in links
        PROVE  l.ends \subseteq body.nodes /\ l.n \in Nat /\ LinkCovered(l, turns)
    <3>1. PICK p \in often :
              l = [ends |-> p, kind |-> "co_use", n |-> couse[p], share |-> Share(couse[p], body.divisor)]
      OBVIOUS
    <3>2. p \subseteq Ids /\ p \in PairsOf(GMemories)
      BY <1>1, <3>1 DEF PairsOf
    <3>3. couse[p] \in Nat /\ couse[p] <= turns
      BY <2>2, <3>2
    <3>4. l.ends = p /\ l.n = couse[p] /\ l.share = Share(couse[p], body.divisor)
      BY <3>1
    <3>5. LinkCovered(l, turns)
      BY <1>1, <2>2, <3>3, <3>4, ShareIs DEF LinkCovered
    <3> QED
      BY <1>1, <3>2, <3>3, <3>4, <3>5
  <2> HIDE DEF links
  <2> QED
    BY <1>1, <2>1, <2>3, ReadAdds
<1> QED
  BY <1>2, <1>3, <1>4, <1>5, <1>6

(* The two reads of the turns: what is divided by, and the sample.         *)
LEMMA TurnsRead ==
    ASSUME AtlasInv, ReadDivisor \/ ReadTurns
    PROVE  AtlasInv'
<1>1. UNCHANGED <<alive, couse, turns, writes, drawing>> /\ body.at # "sent"
  BY DEF ReadDivisor, ReadTurns
<1>2. \/ body' = [at |-> "edges", nodes |-> body.nodes, links |-> body.links, divisor |-> turns, turns |-> body.turns]
      \/ body' = [at |-> "sent", nodes |-> body.nodes, links |-> body.links, divisor |-> body.divisor, turns |-> turns]
  BY DEF ReadDivisor, ReadTurns, AtlasInv, AtlasTypes
<1>3. AtlasTypes'
  BY <1>1, <1>2 DEF AtlasInv, AtlasTypes, BodyRecords
<1>4. ASSUME NEW l \in body.links
      PROVE  LinkCovered(l, turns) /\ LinkCovered(l, turns)'
  <2>1. LinkCovered(l, turns)
    BY <1>1 DEF AtlasInv, CountsCovered
  <2> QED
    BY <1>1, <2>1 DEF LinkCovered
<1>5. ASSUME body'.at = "edges", body'.divisor = turns, body'.links = body.links
      PROVE  CountsCovered'
  <2>1. turns <= turns + writes
    BY DEF AtlasInv, AtlasTypes
  <2> QED
    BY <1>1, <1>4, <1>5, <2>1 DEF AtlasInv, AtlasTypes, CountsCovered
<1>6. ASSUME body'.at = "sent", body'.turns = turns, body'.links = body.links
      PROVE  CountsCovered'
  <2>1. \A l \in body.links : LinkCovered(l, body.turns)'
    BY <1>1, <1>4, <1>6 DEF LinkCovered
  <2> QED
    BY <1>1, <1>6, <2>1 DEF AtlasInv, CountsCovered
<1>7. CountsCovered'
  BY <1>2, <1>5, <1>6
<1> QED
  BY <1>1, <1>3, <1>7 DEF AtlasInv, DrawingSound, LocalIsOnePiece

(* The others take rows and forget counts, or add a turn and a use in it.  *)
LEMMA OtherSteps ==
    ASSUME AtlasInv,
           \/ \E m \in GMemories, withEpisodes \in BOOLEAN : DropMemory(m, withEpisodes)
           \/ \E e \in GEpisodes, m \in GMemories : ConsolidateInto(e, m)
           \/ \E p \in DOMAIN couse : TurnUses(p)
    PROVE  AtlasInv'
<1>1. UNCHANGED <<body, drawing>> /\ body.at # "sent"
  BY DEF DropMemory, ConsolidateInto, TurnUses, Writes
<1>2. alive' \subseteq alive
  BY DEF DropMemory, ConsolidateInto, TurnUses
<1> DEFINE Covered == /\ couse' \in [PairsOf(GMemories) -> Nat] /\ turns' \in Nat /\ turns <= turns'
                      /\ writes' = writes + 1 /\ turns' <= turns + 1
                      /\ \A p \in PairsOf(GMemories) : couse'[p] <= turns'
<1>3. Covered
  <2>1. ASSUME NEW m \in GMemories, NEW withEpisodes, DropMemory(m, withEpisodes)
        PROVE  Covered
    BY <2>1 DEF DropMemory, Writes, AtlasInv, AtlasTypes, CountsCovered
  <2>2. ASSUME NEW e \in GEpisodes, NEW m \in GMemories, ConsolidateInto(e, m)
        PROVE  Covered
    BY <2>2 DEF ConsolidateInto, Writes, AtlasInv, AtlasTypes, CountsCovered
  <2>3. ASSUME NEW p \in DOMAIN couse, TurnUses(p)
        PROVE  Covered
    BY <2>3 DEF TurnUses, Writes, AtlasInv, AtlasTypes, CountsCovered
  <2> QED
    BY <2>1, <2>2, <2>3
<1>4. AtlasTypes'
  BY <1>1, <1>2, <1>3 DEF AtlasInv, AtlasTypes, BodyRecords
<1>5. ASSUME NEW l \in body.links
      PROVE  LinkCovered(l, turns)'
  <2>1. LinkCovered(l, turns) /\ l.n \in Nat /\ turns \in Nat /\ writes \in Nat
    BY <1>1 DEF AtlasInv, AtlasTypes, BodyRecords, CountsCovered
  <2>2. turns' \in Nat /\ turns <= turns' /\ turns' <= turns + 1 /\ writes' = writes + 1
    BY <1>3
  <2> DEFINE before == turns  after == turns'  n == l.n  few == writes  more == writes'
  <2>3. /\ n <= after
        /\ before <= n + few => after <= n + more
        /\ n < before => n < after
        /\ before <= few => after <= more
    <3> HIDE DEF before, after, n, few, more
    <3>1. before \in Nat /\ after \in Nat /\ n \in Nat /\ few \in Nat /\ more = few + 1
      BY <2>1, <2>2 DEF before, after, n, few, more
    <3>2. n <= before /\ before <= after /\ after <= before + 1
      BY <2>1, <2>2 DEF before, after, n, LinkCovered
    <3> QED
      BY <3>1, <3>2
  <2> QED
    BY <2>1, <2>3 DEF LinkCovered
<1>6. body'.at # "sent" /\ (body'.at = "edges" => body'.divisor <= turns' /\ turns' <= body'.divisor + writes')
  BY <1>1, <1>3 DEF AtlasInv, AtlasTypes, BodyRecords, CountsCovered
<1>7. CountsCovered'
  BY <1>1, <1>3, <1>5, <1>6 DEF CountsCovered
<1> QED
  BY <1>1, <1>4, <1>7 DEF AtlasInv, DrawingSound, LocalIsOnePiece

------------------------------------------------------------------------------
(* A walk of the local graph goes along links that are drawn.              *)

(* Where a walk comes by is itself within its steps of the centre.         *)
LEMMA WalkStaysNear ==
    ASSUME NEW links, NEW center, NEW depth \in Nat, NEW steps \in 0..depth,
           NEW walk \in [0..steps -> Nodes], walk[0] = center,
           \A i \in 1..steps : \E l \in links : l.ends = {walk[i - 1], walk[i]}
    PROVE  \A j \in 0..steps : walk[j] \in Ball(links, center, depth)
<1> TAKE j \in 0..steps
<1> DEFINE start == [i \in 0..j |-> walk[i]]
<1>1. j \in 0..depth /\ start \in [0..j -> Nodes] /\ start[0] = center /\ start[j] = walk[j]
  OBVIOUS
<1>2. \A i \in 1..j : \E l \in links : l.ends = {start[i - 1], start[i]}
  <2> TAKE i \in 1..j
  <2>1. i \in 1..steps /\ start[i] = walk[i] /\ start[i - 1] = walk[i - 1]
    OBVIOUS
  <2> QED
    BY <2>1
<1> HIDE DEF start
<1> QED
  BY <1>1, <1>2 DEF Ball

LEMMA FilteredIsOnePiece ==
    ASSUME NEW off, NEW matches, NEW center, NEW depth \in Nat, NEW orphans \in BOOLEAN,
           body.nodes \subseteq Nodes
    PROVE  LET drawn == Filtered(off, matches, center, depth, orphans) IN
           /\ \A l \in drawn.links : l.ends \subseteq drawn.nodes
           /\ drawn.center # None => drawn.nodes \subseteq Ball(drawn.links, drawn.center, drawn.depth)
<1> DEFINE nodes   == LayerNodes(off) \cap matches
           links   == AliveLinks(nodes, off)
           local   == center \in nodes
           kept    == IF local THEN nodes \cap Ball(links, center, depth) ELSE nodes
           near    == Within(links, kept)
           linked  == UNION {l.ends : l \in near}
           painted == IF orphans THEN kept ELSE kept \cap linked
           drawn   == Filtered(off, matches, center, depth, orphans)
<1>1. drawn = [nodes |-> painted, links |-> Within(near, painted),
               center |-> IF local THEN center ELSE None, depth |-> depth]
  BY DEF Filtered
<1>2. \A l \in links : l.ends \subseteq nodes
  BY DEF AliveLinks, Within
<1>3. \A l \in Within(near, painted) : l.ends \subseteq painted
  BY DEF Within
<1>4. ASSUME local, NEW node \in painted
      PROVE  node \in Ball(Within(near, painted), center, depth)
  <2>1. node \in nodes /\ node \in Ball(links, center, depth) /\ kept = nodes \cap Ball(links, center, depth)
    BY <1>4
  <2>2. PICK steps \in 0..depth : \E walk \in [0..steps -> Nodes] :
          /\ walk[0] = center /\ walk[steps] = node
          /\ \A i \in 1..steps : \E l \in links : l.ends = {walk[i - 1], walk[i]}
    BY <2>1 DEF Ball
  <2>3. PICK walk \in [0..steps -> Nodes] :
          /\ walk[0] = center /\ walk[steps] = node
          /\ \A i \in 1..steps : \E l \in links : l.ends = {walk[i - 1], walk[i]}
    BY <2>2
  <2>4. \A j \in 0..steps : walk[j] \in Ball(links, center, depth)
    BY <2>3, WalkStaysNear
  <2>5. \A j \in 0..steps : walk[j] \in nodes
    <3> TAKE j \in 0..steps
    <3>1. CASE j = 0
      BY <1>4, <2>3, <3>1
    <3>2. CASE j # 0
      <4>1. j \in 1..steps
        BY <3>2
      <4>2. PICK l \in links : l.ends = {walk[j - 1], walk[j]}
        BY <2>3, <4>1
      <4> QED
        BY <1>2, <4>2
    <3> QED
      BY <3>1, <3>2
  <2>6. \A j \in 0..steps : walk[j] \in kept
    BY <2>1, <2>4, <2>5
  <2>7. \A i \in 1..steps : \E l \in near : l.ends = {walk[i - 1], walk[i]}
    <3> TAKE i \in 1..steps
    <3>1. PICK l \in links : l.ends = {walk[i - 1], walk[i]}
      BY <2>3
    <3>2. i \in 0..steps /\ i - 1 \in 0..steps
      OBVIOUS
    <3>3. l.ends \subseteq kept
      BY <2>6, <3>1, <3>2
    <3>4. l \in near
      BY <3>3 DEF Within
    <3> QED
      BY <3>1, <3>4
  <2>8. \A i \in 1..steps : \E l \in Within(near, painted) : l.ends = {walk[i - 1], walk[i]}
    <3> TAKE i \in 1..steps
    <3>1. PICK l \in near : l.ends = {walk[i - 1], walk[i]}
      BY <2>7
    <3>2. l.ends \subseteq kept
      BY DEF Within
    <3>3. l.ends \subseteq linked
      OBVIOUS
    <3>4. l.ends \subseteq painted
      BY <3>2, <3>3
    <3>5. l \in Within(near, painted)
      BY <3>4 DEF Within
    <3> QED
      BY <3>1, <3>5
  <2>9. node \in Nodes
    BY <2>3
  <2> HIDE DEF near, painted
  <2> QED
    BY <2>3, <2>8, <2>9 DEF Ball
<1>5. drawn.center # None => local /\ drawn.center = center
  BY <1>1
<1>6. drawn.nodes = painted /\ drawn.links = Within(near, painted) /\ drawn.depth = depth
  BY <1>1
<1> HIDE DEF painted, near, local, drawn
<1>7. drawn.center # None => drawn.nodes \subseteq Ball(drawn.links, drawn.center, drawn.depth)
  BY <1>4, <1>5, <1>6
<1>8. \A l \in drawn.links : l.ends \subseteq drawn.nodes
  BY <1>3, <1>6
<1> QED
  BY <1>7, <1>8 DEF drawn

LEMMA PaintStep ==
    ASSUME AtlasInv, NEW off, NEW matches, NEW center, NEW depth \in 1..2, NEW orphans \in BOOLEAN,
           Paint(off, matches, center, depth, orphans)
    PROVE  AtlasInv'
<1>1. UNCHANGED <<alive, couse, turns, writes, body>> /\ drawing' = Filtered(off, matches, center, depth, orphans)
  BY DEF Paint
<1>2. AtlasTypes' /\ CountsCovered'
  BY <1>1, LinksStayCovered DEF AtlasInv, AtlasTypes, BodyRecords, CountsCovered
<1>3. body.nodes \subseteq Nodes /\ depth \in Nat
  BY DEF AtlasInv, AtlasTypes, BodyRecords
<1>4. DrawingSound'
  BY <1>1, <1>3, FilteredIsOnePiece DEF DrawingSound, LocalIsOnePiece
<1> QED
  BY <1>2, <1>4 DEF AtlasInv

LEMMA AtlasNextInv == AtlasInv /\ [AtlasNext]_atlasVars => AtlasInv'
<1> SUFFICES ASSUME AtlasInv, [AtlasNext]_atlasVars PROVE AtlasInv'
  OBVIOUS
<1>1. CASE UNCHANGED atlasVars
  BY <1>1, LinksStayCovered DEF atlasVars, AtlasInv, AtlasTypes, BodyRecords, CountsCovered, DrawingSound, LocalIsOnePiece
<1> QED
  BY <1>1, ReadSteps, TurnsRead, OtherSteps, PaintStep DEF AtlasNext

(* DrawnAsMeasured of Atlas: no link leads nowhere, the local graph is one *)
(* piece by the links it draws, the sample covers every count, and what a  *)
(* strength was computed with is off by the writes of others meanwhile at  *)
(* most, for any graph and any order of the reads and those writes.        *)
THEOREM DrawnAsMeasuredHolds == AtlasSpec => []DrawnAsMeasured
<1>1. AtlasInv => DrawnAsMeasured
  <2> SUFFICES ASSUME AtlasInv PROVE DrawnAsMeasured
    OBVIOUS
  <2>1. NoDanglingEdge /\ LocalIsOnePiece
    BY DEF AtlasInv, AtlasTypes, BodyRecords, DrawingSound, NoDanglingEdge
  <2>2. SampleCoversEdges /\ StrengthNearSample
    BY DEF AtlasInv, CountsCovered, LinkCovered, SampleCoversEdges, StrengthNearSample
  <2> QED
    BY <2>1, <2>2 DEF DrawnAsMeasured
<1> QED
  BY <1>1, AtlasInitInv, AtlasNextInv, PTL DEF AtlasSpec

------------------------------------------------------------------------------
(***************************************************************************)
(* The lists.  While no delete and no write under a page disturbed it, a   *)
(* list holds rows that are still there, and its last total counted a      *)
(* layer that held all of them and all the rows since the first page       *)
(* (Snapshot): a list as long as its total has every one.                  *)
(***************************************************************************)
PageRecords == [offset : Nat, total : Nat, rows : Seq(Rows)]
Lists == [pages : Seq(PageRecords), since : SUBSET Rows, blind : BOOLEAN]

PageTypes ==
    /\ order \in Seq(Rows) /\ IsInjective(order)
    /\ shown \in Lists
    /\ fetch \in [on : BOOLEAN, list : Lists, goal : Nat, counted : Nat \cup {-1}]

StillThere(list) == list.since \cup Merged(list.pages) \subseteq Range(order)

Snapshot(list) ==
    \E all \in SUBSET Rows :
        /\ list.since \cup Merged(list.pages) \subseteq all
        /\ Cardinality(all) = Total(list.pages)

ListInv(list) ==
    ~list.blind => StillThere(list) /\ (list.pages # <<>> => Snapshot(list))

FetchInv ==
    /\ fetch.on => NextOffset(fetch.list.pages) # -1
    /\ ~fetch.on => fetch = Quiet
    /\ fetch.counted # -1 /\ ~fetch.list.blind => fetch.counted = Len(order)

PageInv == PageTypes /\ ListInv(shown) /\ ListInv(fetch.list) /\ FetchInv

------------------------------------------------------------------------------
(* What a write of others does to the rows.                                *)

LEMMA InsertAtFacts ==
    ASSUME NEW S, NEW s \in Seq(S), NEW r \in S, NEW i \in 1 .. Len(s) + 1
    PROVE  /\ InsertAt(s, i, r) \in Seq(S)
           /\ Len(InsertAt(s, i, r)) = Len(s) + 1
           /\ \A k \in 1 .. Len(s) + 1 :
                 InsertAt(s, i, r)[k] = IF k < i THEN s[k] ELSE IF k = i THEN r ELSE s[k - 1]
<1> DEFINE left == SubSeq(s, 1, i - 1)
           right == SubSeq(s, i, Len(s))
           head == left \o <<r>>
<1>1. Len(s) \in Nat /\ \A k \in 1 .. Len(s) : s[k] \in S
  OBVIOUS
<1>2. /\ left \in Seq(S) /\ Len(left) = i - 1
      /\ \A k \in 1 .. i - 1 : left[k] = s[k]
  BY <1>1, SubSeqProperties
<1>3. /\ right \in Seq(S) /\ Len(right) = Len(s) - i + 1
      /\ \A k \in 1 .. Len(s) - i + 1 : right[k] = s[i + k - 1]
  BY <1>1, SubSeqProperties
<1>4. <<r>> \in Seq(S) /\ Len(<<r>>) = 1 /\ <<r>>[1] = r
  OBVIOUS
<1> HIDE DEF left, right
<1>5. /\ head \in Seq(S) /\ Len(head) = i
      /\ \A k \in 1 .. i : head[k] = IF k < i THEN s[k] ELSE r
  <2>1. /\ head \in Seq(S) /\ Len(head) = Len(left) + Len(<<r>>)
        /\ \A k \in 1 .. Len(left) + Len(<<r>>) :
              head[k] = IF k <= Len(left) THEN left[k] ELSE <<r>>[k - Len(left)]
    BY <1>2, <1>4, ConcatProperties
  <2> QED
    BY <1>1, <1>2, <1>4, <2>1
<1> HIDE DEF head
<1>6. /\ head \o right \in Seq(S) /\ Len(head \o right) = Len(head) + Len(right)
      /\ \A k \in 1 .. Len(head) + Len(right) :
            (head \o right)[k] = IF k <= Len(head) THEN head[k] ELSE right[k - Len(head)]
  BY <1>3, <1>5, ConcatProperties
<1>7. InsertAt(s, i, r) = head \o right
  BY DEF InsertAt, head, left, right
<1>8. ASSUME NEW k \in 1 .. Len(s) + 1
      PROVE  (head \o right)[k] = IF k < i THEN s[k] ELSE IF k = i THEN r ELSE s[k - 1]
  <2>1. CASE k <= i
    BY <1>1, <1>3, <1>5, <1>6, <2>1
  <2>2. CASE k > i
    <3>1. (head \o right)[k] = right[k - i] /\ k - i \in 1 .. Len(s) - i + 1
      BY <1>1, <1>3, <1>5, <1>6, <2>2
    <3>2. right[k - i] = s[i + (k - i) - 1]
      BY <1>3, <3>1
    <3>3. i + (k - i) - 1 = k - 1
      BY <1>1
    <3> QED
      BY <2>2, <3>1, <3>2, <3>3
  <2>3. k <= i \/ k > i
    BY <1>1
  <2> QED
    BY <2>1, <2>2, <2>3
<1> QED
  BY <1>1, <1>3, <1>5, <1>6, <1>7, <1>8

(* An index has a next one, or it is the last.                             *)
LEMMA NextOrLast == \A n \in Nat, i \in Int : i <= n => (i + 1 <= n \/ i = n)
  OBVIOUS

LEMMA RemoveAtFacts ==
    ASSUME NEW S, NEW s \in Seq(S), NEW i \in 1 .. Len(s)
    PROVE  /\ RemoveAt(s, i) \in Seq(S)
           /\ Len(RemoveAt(s, i)) = Len(s) - 1
           /\ \A k \in 1 .. Len(s) - 1 : RemoveAt(s, i)[k] = IF k < i THEN s[k] ELSE s[k + 1]
<1> DEFINE left == SubSeq(s, 1, i - 1)
           right == SubSeq(s, i + 1, Len(s))
<1>1. Len(s) \in Nat /\ \A k \in 1 .. Len(s) : s[k] \in S
  OBVIOUS
<1>2. /\ left \in Seq(S) /\ Len(left) = i - 1
      /\ \A k \in 1 .. i - 1 : left[k] = s[k]
  BY <1>1, SubSeqProperties
<1>3. /\ right \in Seq(S) /\ Len(right) = Len(s) - i
      /\ \A k \in 1 .. Len(s) - i : right[k] = s[i + k]
  <2>1. /\ right \in Seq(S) /\ Len(right) = IF i + 1 <= Len(s) THEN Len(s) - (i + 1) + 1 ELSE 0
        /\ \A k \in 1 .. Len(s) - (i + 1) + 1 : right[k] = s[(i + 1) + k - 1]
    BY <1>1, SubSeqProperties
  <2> HIDE DEF right
  <2>2. Len(s) - (i + 1) + 1 = Len(s) - i /\ Len(s) \in Nat /\ i \in Int /\ i <= Len(s)
    BY <1>1
  <2>3. ASSUME NEW k \in 1 .. Len(s) - i
        PROVE  right[k] = s[i + k]
    <3>1. right[k] = s[(i + 1) + k - 1]
      BY <2>1, <2>2
    <3>2. (i + 1) + k - 1 = i + k
      BY <2>2
    <3> QED
      BY <3>1, <3>2
  <2>4. Len(right) = Len(s) - i
    <3>1. CASE i + 1 <= Len(s)
      BY <2>1, <2>2, <3>1
    <3>2. CASE i = Len(s)
      <4>1. ~(i + 1 <= Len(s)) /\ Len(s) - i = 0
        BY <2>2, <3>2
      <4> QED
        BY <2>1, <4>1
    <3>3. i + 1 <= Len(s) \/ i = Len(s)
      BY <2>2, NextOrLast
    <3> QED
      BY <3>1, <3>2, <3>3
  <2> QED
    BY <2>1, <2>3, <2>4
<1> HIDE DEF left, right
<1>4. /\ left \o right \in Seq(S) /\ Len(left \o right) = Len(left) + Len(right)
      /\ \A k \in 1 .. Len(left) + Len(right) :
            (left \o right)[k] = IF k <= Len(left) THEN left[k] ELSE right[k - Len(left)]
  BY <1>2, <1>3, ConcatProperties
<1>5. RemoveAt(s, i) = left \o right
  BY DEF RemoveAt, left, right
<1>6. ASSUME NEW k \in 1 .. Len(s) - 1
      PROVE  (left \o right)[k] = IF k < i THEN s[k] ELSE s[k + 1]
  <2>1. CASE k < i
    BY <1>1, <1>2, <1>3, <1>4, <2>1
  <2>2. CASE k >= i
    <3>1. (left \o right)[k] = right[k - (i - 1)] /\ k - (i - 1) \in 1 .. Len(s) - i
      BY <1>1, <1>2, <1>3, <1>4, <2>2
    <3>2. right[k - (i - 1)] = s[i + (k - (i - 1))]
      BY <1>3, <3>1
    <3>3. i + (k - (i - 1)) = k + 1
      BY <1>1
    <3> QED
      BY <2>2, <3>1, <3>2, <3>3
  <2>3. k < i \/ k >= i
    BY <1>1
  <2> QED
    BY <2>1, <2>2, <2>3
<1> QED
  BY <1>1, <1>2, <1>3, <1>4, <1>5, <1>6

(* A row more, and each row once as before.                                *)
LEMMA InsertedRows ==
    ASSUME NEW S, NEW s \in Seq(S), IsInjective(s), NEW r \in S, r \notin Range(s),
           NEW i \in 1 .. Len(s) + 1
    PROVE  /\ InsertAt(s, i, r) \in Seq(S) /\ IsInjective(InsertAt(s, i, r))
           /\ Range(InsertAt(s, i, r)) = Range(s) \cup {r}
<1> DEFINE t == InsertAt(s, i, r)
           At(k) == IF k < i THEN s[k] ELSE IF k = i THEN r ELSE s[k - 1]
<1>1. /\ t \in Seq(S) /\ Len(t) = Len(s) + 1 /\ Len(s) \in Nat
      /\ \A k \in 1 .. Len(s) + 1 : t[k] = At(k)
  <2>1. Len(s) \in Nat
    OBVIOUS
  <2>2. /\ t \in Seq(S) /\ Len(t) = Len(s) + 1
        /\ \A k \in 1 .. Len(s) + 1 :
              t[k] = IF k < i THEN s[k] ELSE IF k = i THEN r ELSE s[k - 1]
    <3> HIDE DEF t
    <3> QED
      BY InsertAtFacts DEF t
  <2> QED
    BY <2>1, <2>2
<1>2. DOMAIN t = 1 .. Len(s) + 1 /\ DOMAIN s = 1 .. Len(s)
  BY <1>1
<1>3. \A k \in 1 .. Len(s) : s[k] # r
  BY <1>2 DEF Range
<1>4. \A a, b \in 1 .. Len(s) : s[a] = s[b] => a = b
  BY <1>2 DEF IsInjective
<1>5. ASSUME NEW a \in 1 .. Len(s) + 1, NEW b \in 1 .. Len(s) + 1, a < b
      PROVE  At(a) # At(b)
  <2>1. CASE b < i
    <3>1. a \in 1 .. Len(s) /\ b \in 1 .. Len(s)
      BY <1>1, <1>5, <2>1
    <3> QED
      BY <1>4, <1>5, <2>1, <3>1
  <2>2. CASE b = i
    <3>1. a \in 1 .. Len(s)
      BY <1>1, <1>5, <2>2
    <3> QED
      BY <1>3, <1>5, <2>2, <3>1
  <2>3. CASE b > i
    <3>1. b - 1 \in 1 .. Len(s)
      BY <1>1, <1>5, <2>3
    <3>2. CASE a < i
      <4>1. a \in 1 .. Len(s) /\ a # b - 1
        BY <1>1, <2>3, <3>1, <3>2
      <4>2. At(a) = s[a] /\ At(b) = s[b - 1]
        BY <2>3, <3>2
      <4> QED
        BY <1>4, <3>1, <4>1, <4>2
    <3>3. CASE a = i
      BY <1>3, <2>3, <3>1, <3>3
    <3>4. CASE a > i
      <4>1. a - 1 \in 1 .. Len(s) /\ a - 1 # b - 1
        BY <1>1, <1>5, <3>4
      <4> QED
        BY <1>4, <2>3, <3>1, <3>4, <4>1
    <3> QED
      BY <3>2, <3>3, <3>4
  <2> QED
    BY <2>1, <2>2, <2>3
<1>6. IsInjective(t)
  BY <1>1, <1>2, <1>5 DEF IsInjective
<1>7. Range(t) \subseteq Range(s) \cup {r}
  <2> SUFFICES ASSUME NEW k \in 1 .. Len(s) + 1
               PROVE  At(k) \in Range(s) \cup {r}
    BY <1>1, <1>2 DEF Range
  <2>1. CASE k < i
    BY <1>1, <1>2, <2>1 DEF Range
  <2>2. CASE k = i
    BY <2>2
  <2>3. CASE k > i
    <3>1. k - 1 \in DOMAIN s
      BY <1>1, <1>2, <2>3
    <3> QED
      BY <2>3, <3>1 DEF Range
  <2> QED
    BY <2>1, <2>2, <2>3
<1>8. Range(s) \cup {r} \subseteq Range(t)
  <2>1. r \in Range(t)
    BY <1>1, <1>2 DEF Range
  <2>2. ASSUME NEW k \in 1 .. Len(s)
        PROVE  s[k] \in Range(t)
    <3>1. CASE k < i
      BY SMTT(30), <1>1, <1>2, <3>1 DEF Range
    <3>2. CASE k >= i
      <4>1. k + 1 \in DOMAIN t /\ t[k + 1] = s[k]
        BY <1>1, <1>2, <3>2
      <4> QED
        BY <4>1 DEF Range
    <3> QED
      BY <3>1, <3>2
  <2> QED
    BY <1>2, <2>1, <2>2 DEF Range
<1> QED
  BY <1>1, <1>6, <1>7, <1>8

LEMMA RemovedRows ==
    ASSUME NEW S, NEW s \in Seq(S), IsInjective(s), NEW i \in 1 .. Len(s)
    PROVE  /\ RemoveAt(s, i) \in Seq(S) /\ IsInjective(RemoveAt(s, i))
           /\ Range(RemoveAt(s, i)) = Range(s) \ {s[i]}
<1> DEFINE t == RemoveAt(s, i)
           At(k) == IF k < i THEN k ELSE k + 1
<1>1. /\ t \in Seq(S) /\ Len(t) = Len(s) - 1 /\ Len(s) \in Nat
      /\ \A k \in 1 .. Len(s) - 1 : t[k] = s[At(k)]
  BY RemoveAtFacts
<1>2. DOMAIN t = 1 .. Len(s) - 1 /\ DOMAIN s = 1 .. Len(s)
  BY <1>1
<1>3. \A a, b \in 1 .. Len(s) : s[a] = s[b] => a = b
  BY <1>2 DEF IsInjective
<1>4. \A k \in 1 .. Len(s) - 1 : At(k) \in 1 .. Len(s) /\ At(k) # i
  BY <1>1
<1>5. \A a, b \in 1 .. Len(s) - 1 : At(a) = At(b) => a = b
  BY <1>1
<1>6. \A k \in 1 .. Len(s) : k # i => \E h \in 1 .. Len(s) - 1 : At(h) = k
  <2> SUFFICES ASSUME NEW k \in 1 .. Len(s), k # i
               PROVE  \E h \in 1 .. Len(s) - 1 : At(h) = k
    OBVIOUS
  <2>1. CASE k < i
    BY <1>1, <2>1
  <2>2. CASE k > i
    <3>1. k - 1 \in 1 .. Len(s) - 1 /\ At(k - 1) = k
      BY <1>1, <2>2
    <3> QED
      BY <3>1
  <2> QED
    BY <2>1, <2>2
<1> HIDE DEF At, t
<1>7. IsInjective(t)
  BY SMTT(30), <1>1, <1>2, <1>3, <1>4, <1>5 DEF IsInjective
<1>8. Range(t) \subseteq Range(s) \ {s[i]}
  BY <1>1, <1>2, <1>3, <1>4 DEF Range
<1>9. Range(s) \ {s[i]} \subseteq Range(t)
  <2> SUFFICES ASSUME NEW k \in 1 .. Len(s), k # i
               PROVE  s[k] \in Range(t)
    BY <1>2 DEF Range
  <2>1. PICK h \in 1 .. Len(s) - 1 : At(h) = k
    BY <1>6
  <2> QED
    BY <1>1, <1>2, <2>1 DEF Range
<1> QED
  BY <1>1, <1>7, <1>8, <1>9 DEF t

(* Each row once: the layer has as many as its order is long.              *)
LEMMA OrderCounts ==
    ASSUME PageTypes
    PROVE  /\ Range(order) \in SUBSET Rows /\ IsFiniteSet(Range(order))
           /\ Cardinality(Range(order)) = Len(order)
<1>1. Len(order) \in Nat /\ DOMAIN order = 1 .. Len(order) /\ order \in [1 .. Len(order) -> Rows]
  BY DEF PageTypes
<1>2. order \in Bijection(1 .. Len(order), Range(order))
  BY <1>1 DEF PageTypes, Bijection, Injection, Surjection, Range, IsInjective
<1>3. IsFiniteSet(1 .. Len(order)) /\ Cardinality(1 .. Len(order)) = Len(order)
  BY SMTT(30), <1>1, FS_Interval
<1>4. ExistsBijection(1 .. Len(order), Range(order))
  BY <1>2 DEF ExistsBijection
<1> QED
  BY <1>1, <1>3, <1>4, FS_Bijection DEF Range

------------------------------------------------------------------------------
(* The pages.                                                              *)

LEMMA MergedAppend ==
    ASSUME NEW pages \in Seq(PageRecords), NEW page \in PageRecords
    PROVE  /\ Append(pages, page) \in Seq(PageRecords)
           /\ Append(pages, page) # <<>>
           /\ Merged(Append(pages, page)) = Merged(pages) \cup Range(page.rows)
           /\ Total(Append(pages, page)) = page.total
<1> DEFINE more == Append(pages, page)
<1>1. /\ more \in Seq(PageRecords) /\ more # <<>> /\ Len(more) = Len(pages) + 1
      /\ \A i \in 1 .. Len(pages) : more[i] = pages[i]
      /\ more[Len(pages) + 1] = page
  BY AppendProperties
<1>2. Len(pages) \in Nat /\ DOMAIN pages = 1 .. Len(pages) /\ DOMAIN more = 1 .. Len(pages) + 1
  BY <1>1
<1> HIDE DEF more
<1>3. DOMAIN more = DOMAIN pages \cup {Len(pages) + 1}
  BY <1>2
<1>4. Merged(more) = Merged(pages) \cup Range(page.rows)
  <2>1. ASSUME NEW r \in Merged(more)
        PROVE  r \in Merged(pages) \cup Range(page.rows)
    <3>1. PICK i \in DOMAIN more : r \in Range(more[i].rows)
      BY DEF Merged
    <3>2. CASE i \in DOMAIN pages
      BY <1>1, <1>2, <3>1, <3>2 DEF Merged
    <3>3. CASE i = Len(pages) + 1
      BY <1>1, <3>1, <3>3
    <3> QED
      BY <1>3, <3>2, <3>3
  <2>2. ASSUME NEW r \in Merged(pages)
        PROVE  r \in Merged(more)
    <3>1. PICK i \in DOMAIN pages : r \in Range(pages[i].rows)
      BY DEF Merged
    <3>2. i \in DOMAIN more /\ more[i] = pages[i]
      BY <1>1, <1>2, <1>3
    <3> QED
      BY <3>1, <3>2 DEF Merged
  <2>3. ASSUME NEW r \in Range(page.rows)
        PROVE  r \in Merged(more)
    BY <1>1, <1>3, <2>3 DEF Merged
  <2> QED
    BY <2>1, <2>2, <2>3
<1>5. Total(more) = page.total
  BY <1>1 DEF Total
<1> QED
  BY <1>1, <1>4, <1>5 DEF more

LEMMA NoPagesInv ==
    NoPages \in Lists /\ ListInv(NoPages) /\ ListInv(NoPages)' /\ NextOffset(NoPages.pages) = 0
<1>1. <<>> \in Seq(PageRecords) /\ DOMAIN <<>> = {}
  OBVIOUS
<1>2. NoPages = [pages |-> <<>>, since |-> {}, blind |-> FALSE] /\ NoPages \in Lists
  BY <1>1 DEF NoPages, Lists
<1>3. Merged(<<>>) = {}
  BY <1>1 DEF Merged
<1>4. StillThere(NoPages) /\ StillThere(NoPages)'
  BY <1>2, <1>3 DEF StillThere
<1> QED
  BY <1>2, <1>4 DEF ListInv, NextOffset

LEMMA NextOffsetType ==
    ASSUME NEW pages \in Seq(PageRecords)
    PROVE  NextOffset(pages) \in Nat \cup {-1}
<1>1. CASE pages = <<>>
  BY <1>1 DEF NextOffset
<1>2. CASE pages # <<>>
  <2>1. pages[Len(pages)] \in PageRecords
    BY <1>2
  <2>2. pages[Len(pages)].offset \in Nat /\ Len(pages[Len(pages)].rows) \in Nat
    BY <2>1 DEF PageRecords
  <2> QED
    BY <1>2, <2>2 DEF NextOffset
<1> QED
  BY <1>1, <1>2

(* A list is sound of the layer as it is: only its rows count.             *)
LEMMA ListKept ==
    ASSUME NEW list, ListInv(list), Range(order) \subseteq Range(order')
    PROVE  ListInv(list)'
BY DEF ListInv, StillThere, Snapshot

------------------------------------------------------------------------------
LEMMA PageInitInv == PageInit => PageInv
<1> SUFFICES ASSUME PageInit PROVE PageInv
  OBVIOUS
<1>1. order \in Seq(Rows) /\ IsInjective(order)
  <2>1. PICK n \in 0 .. Cardinality(Rows) : order \in Injection(1 .. n, Rows)
    BY DEF PageInit
  <2>2. n \in Nat
    BY PagingAssumption, FS_CardinalityType
  <2> QED
    BY <2>1, <2>2 DEF Injection
<1>2. shown = NoPages /\ fetch = [on |-> FALSE, list |-> NoPages, goal |-> 0, counted |-> -1]
  BY DEF PageInit, Quiet
<1>3. PageTypes
  BY <1>1, <1>2, NoPagesInv DEF PageTypes
<1>4. FetchInv
  BY <1>2 DEF FetchInv, Quiet
<1> QED
  BY <1>2, <1>3, <1>4, NoPagesInv DEF PageInv

(* A fetch that begins, ends with nothing, or starts over.                 *)
LEMMA FetchSteps ==
    ASSUME PageInv, OpenList \/ LoadMore \/ Refetch \/ Restart \/ FetchBreaks
    PROVE  PageInv'
<1>1. UNCHANGED order /\ order \in Seq(Rows) /\ shown \in Lists
  BY DEF PageInv, PageTypes, OpenList, LoadMore, Refetch, Restart, FetchBreaks
<1>2. ListInv(NoPages)' /\ ListInv(shown)
  BY <1>1, NoPagesInv, ListKept DEF PageInv
<1>3. \A list : ListInv(list) => ListInv(list)'
  BY <1>1, ListKept
<1>4. shown' \in {shown, NoPages} /\ shown' \in Lists /\ ListInv(shown)'
  <2>1. shown' \in {shown, NoPages}
    BY DEF OpenList, LoadMore, Refetch, Restart, FetchBreaks
  <2> QED
    BY <1>1, <1>2, <1>3, <2>1, NoPagesInv DEF ListInv, StillThere, Snapshot
<1>5. Len(shown.pages) \in Nat
  BY <1>1 DEF Lists
<1>6. CASE fetch' = Quiet
  <2>1. fetch' = [on |-> FALSE, list |-> NoPages, goal |-> 0, counted |-> -1]
    BY <1>6 DEF Quiet
  <2>2. ListInv(fetch.list)'
    BY <1>2, <2>1 DEF ListInv, StillThere, Snapshot
  <2> QED
    BY <1>1, <1>4, <1>6, <2>1, <2>2, NoPagesInv DEF PageInv, PageTypes, FetchInv
<1>7. CASE \E goal \in Nat : fetch' = Fetching(NoPages, goal)
  <2>1. PICK goal \in Nat : fetch' = [on |-> TRUE, list |-> NoPages, goal |-> goal, counted |-> -1]
    BY <1>7 DEF Fetching
  <2>2. ListInv(fetch.list)'
    BY <1>2, <2>1 DEF ListInv, StillThere, Snapshot
  <2> QED
    BY <1>1, <1>4, <2>1, <2>2, NoPagesInv DEF PageInv, PageTypes, FetchInv
<1>8. CASE fetch' = Fetching(shown, Len(shown.pages) + 1) /\ NextOffset(shown.pages) # -1
  <2>1. fetch' = [on |-> TRUE, list |-> shown, goal |-> Len(shown.pages) + 1, counted |-> -1]
    BY <1>8 DEF Fetching
  <2>2. ListInv(fetch.list)'
    BY <1>1, <1>2, <2>1 DEF ListInv, StillThere, Snapshot
  <2>3. PageTypes'
    BY <1>1, <1>4, <1>5, <2>1 DEF PageInv, PageTypes
  <2>4. FetchInv'
    BY <1>8, <2>1 DEF FetchInv
  <2> QED
    BY <1>4, <2>2, <2>3, <2>4 DEF PageInv
<1> QED
  BY <1>5, <1>6, <1>7, <1>8 DEF OpenList, LoadMore, Refetch, Restart, FetchBreaks

LEMMA CountStep ==
    ASSUME PageInv, CountRows
    PROVE  PageInv'
<1> DEFINE rowsNow == IF fetch.list.pages = <<>> THEN Range(order) ELSE fetch.list.since
           counted == [pages |-> fetch.list.pages, since |-> rowsNow, blind |-> fetch.list.blind]
<1>1. /\ fetch.on /\ UNCHANGED <<order, shown>> /\ fetch.list \in Lists
      /\ order \in Seq(Rows) /\ Len(order) \in Nat
  BY DEF PageInv, PageTypes, CountRows
<1>2. fetch' = [on |-> TRUE, list |-> counted, goal |-> fetch.goal, counted |-> Len(order)]
  BY <1>1 DEF CountRows, PageInv, PageTypes, Lists
<1>3. Range(order) \in SUBSET Rows
  BY OrderCounts DEF PageInv
<1>4. counted \in Lists
  BY <1>1, <1>3 DEF Lists
<1>5. ListInv(counted)
  <2>1. CASE fetch.list.pages = <<>>
    <3>1. Merged(fetch.list.pages) = {}
      BY <2>1 DEF Merged
    <3> QED
      BY <2>1, <3>1 DEF ListInv, StillThere
  <2>2. CASE fetch.list.pages # <<>>
    BY <2>2 DEF PageInv, ListInv, StillThere, Snapshot
  <2> QED
    BY <2>1, <2>2
<1>6. ListInv(fetch.list)'
  BY <1>1, <1>2, <1>5 DEF ListInv, StillThere, Snapshot
<1>7. PageTypes' /\ FetchInv'
  BY <1>1, <1>2, <1>4 DEF PageInv, PageTypes, FetchInv
<1>8. ListInv(shown)'
  BY <1>1 DEF PageInv, ListInv, StillThere, Snapshot
<1> QED
  BY <1>6, <1>7, <1>8 DEF PageInv

(* The rows of a page are rows of the layer, and its total counted them.   *)
LEMMA ReadStep ==
    ASSUME PageInv, ReadRows
    PROVE  PageInv'
<1> DEFINE offset == NextOffset(fetch.list.pages)
           upto == IF offset + PageSize < Len(order) THEN offset + PageSize ELSE Len(order)
           page == [offset |-> offset, total |-> fetch.counted, rows |-> SubSeq(order, offset + 1, upto)]
           pages == Append(fetch.list.pages, page)
           list == [pages |-> pages, since |-> fetch.list.since, blind |-> fetch.list.blind]
<1>1. /\ fetch.on /\ fetch.counted \in Nat /\ UNCHANGED order
      /\ fetch.list \in Lists /\ fetch.list.pages \in Seq(PageRecords)
      /\ order \in Seq(Rows) /\ Len(order) \in Nat
  BY DEF ReadRows, PageInv, PageTypes, Lists
<1>2. offset \in Nat
  BY <1>1, NextOffsetType DEF PageInv, FetchInv
<1>3. page.rows \in Seq(Rows) /\ Range(page.rows) \subseteq Range(order)
  <2> DEFINE cut == SubSeq(order, offset + 1, upto)
  <2>1. offset + 1 \in Int /\ upto \in Int /\ upto <= Len(order)
    BY <1>1, <1>2, PagingAssumption
  <2> HIDE DEF offset, upto
  <2>2. \A i \in offset + 1 .. upto : i \in DOMAIN order /\ order[i] \in Rows
    BY <1>1, <1>2, <2>1
  <2>3. /\ cut \in Seq(Rows) /\ Len(cut) = IF offset + 1 <= upto THEN upto - (offset + 1) + 1 ELSE 0
        /\ \A i \in 1 .. upto - (offset + 1) + 1 : cut[i] = order[(offset + 1) + i - 1]
    BY <2>1, <2>2, SubSeqProperties
  <2>4. ASSUME NEW i \in 1 .. Len(cut)
        PROVE  cut[i] \in Range(order)
    <3>1. i \in 1 .. upto - (offset + 1) + 1 /\ (offset + 1) + i - 1 \in offset + 1 .. upto
      BY <2>1, <2>3
    <3> QED
      BY <2>2, <2>3, <3>1 DEF Range
  <2>5. DOMAIN cut = 1 .. Len(cut)
    BY <2>3
  <2>6. Range(cut) \subseteq Range(order)
    <3> SUFFICES ASSUME NEW r \in Range(cut) PROVE r \in Range(order)
      OBVIOUS
    <3>1. PICK i \in 1 .. Len(cut) : r = cut[i]
      BY <2>5 DEF Range
    <3> QED
      BY <2>4, <3>1
  <2> QED
    BY <2>3, <2>6
<1>4. page \in PageRecords
  BY <1>1, <1>2, <1>3 DEF PageRecords
<1> HIDE DEF page
<1>5. /\ pages \in Seq(PageRecords) /\ pages # <<>>
      /\ Merged(pages) = Merged(fetch.list.pages) \cup Range(page.rows)
      /\ Total(pages) = page.total
  BY <1>1, <1>4, MergedAppend
<1>6. list \in Lists
  BY <1>1, <1>5 DEF Lists
<1>7. ListInv(list)
  <2> SUFFICES ASSUME ~fetch.list.blind
               PROVE  StillThere(list) /\ Snapshot(list)
    BY DEF ListInv
  <2>1. StillThere(list)
    BY <1>3, <1>5 DEF PageInv, ListInv, StillThere
  <2>2. page.total = Len(order)
    BY <1>1 DEF page, PageInv, FetchInv
  <2>3. Snapshot(list)
    BY <1>5, <2>1, <2>2, OrderCounts DEF PageInv, StillThere, Snapshot
  <2> QED
    BY <2>1, <2>3
<1> HIDE DEF pages
<1>8. [fetch.list EXCEPT !.pages = pages] = list
  BY <1>1 DEF Lists
<1>9. \/ /\ fetch' = [fetch EXCEPT !.list = list, !.counted = -1] /\ UNCHANGED shown
         /\ NextOffset(pages) # -1
      \/ fetch' = Quiet /\ shown' = list
  BY <1>8 DEF ReadRows, page, pages
<1> HIDE DEF list
<1>10. CASE /\ fetch' = [fetch EXCEPT !.list = list, !.counted = -1] /\ UNCHANGED shown
            /\ NextOffset(pages) # -1
  <2>1. /\ fetch'.list = list /\ fetch'.counted = -1 /\ fetch'.on /\ list.pages = pages
        /\ fetch' \in [on : BOOLEAN, list : Lists, goal : Nat, counted : Nat \cup {-1}]
    BY <1>1, <1>6, <1>10 DEF PageInv, PageTypes, list
  <2>2. PageTypes' /\ FetchInv'
    BY <1>1, <1>10, <2>1 DEF PageInv, PageTypes, FetchInv
  <2>3. ListInv(shown)' /\ ListInv(fetch.list)'
    BY <1>1, <1>7, <1>10, <2>1 DEF PageInv, ListInv, StillThere, Snapshot
  <2> QED
    BY <2>2, <2>3 DEF PageInv
<1>11. CASE fetch' = Quiet /\ shown' = list
  <2>1. fetch' = [on |-> FALSE, list |-> NoPages, goal |-> 0, counted |-> -1]
    BY <1>11 DEF Quiet
  <2>2. PageTypes' /\ FetchInv'
    BY <1>1, <1>6, <1>11, <2>1, NoPagesInv DEF PageInv, PageTypes, FetchInv
  <2>3. ListInv(shown)' /\ ListInv(fetch.list)'
    BY <1>1, <1>7, <1>11, <2>1, NoPagesInv DEF ListInv, StillThere, Snapshot
  <2> QED
    BY <2>2, <2>3 DEF PageInv
<1> QED
  BY <1>9, <1>10, <1>11

------------------------------------------------------------------------------
(* A row that comes or goes up takes none away; it only blinds a fetch     *)
(* between its count and its rows.                                         *)
LEMMA GrowingStep ==
    ASSUME PageInv, BetweenPages, order' \in Seq(Rows), IsInjective(order'),
           Range(order) \subseteq Range(order')
    PROVE  PageInv'
<1> DEFINE list == [pages |-> fetch.list.pages, since |-> fetch.list.since,
                    blind |-> fetch.list.blind \/ fetch.counted # -1]
<1>1. fetch.list \in Lists /\ shown \in Lists /\ UNCHANGED shown
  BY DEF PageInv, PageTypes, BetweenPages
<1>2. fetch' = [on |-> fetch.on, list |-> list, goal |-> fetch.goal, counted |-> fetch.counted]
  BY <1>1 DEF BetweenPages, PageInv, PageTypes, Lists
<1>3. list \in Lists
  BY <1>1 DEF Lists
<1>4. PageTypes' /\ FetchInv'
  <2>1. PageTypes'
    BY <1>1, <1>2, <1>3 DEF PageInv, PageTypes
  <2>2. ASSUME ~fetch.on PROVE fetch' = Quiet
    <3>1. fetch = [on |-> FALSE, list |-> NoPages, goal |-> 0, counted |-> -1]
      BY <2>2 DEF PageInv, FetchInv, Quiet
    <3>2. fetch.on = FALSE /\ fetch.list = NoPages /\ fetch.goal = 0 /\ fetch.counted = -1
      BY <3>1
    <3>3. fetch.list.pages = <<>> /\ fetch.list.since = {} /\ ~(fetch.list.blind \/ fetch.counted # -1)
      BY <3>2 DEF NoPages
    <3>4. list = [pages |-> <<>>, since |-> {}, blind |-> FALSE]
      BY <3>3
    <3> QED
      BY <1>2, <3>2, <3>4 DEF Quiet, NoPages
  <2>3. fetch'.counted # -1 /\ ~fetch'.list.blind => FALSE
    BY <1>2
  <2>4. fetch'.on => NextOffset(fetch'.list.pages) # -1
    BY <1>2 DEF PageInv, FetchInv
  <2> QED
    BY <1>2, <2>1, <2>2, <2>3, <2>4 DEF FetchInv
<1>5. ListInv(list) /\ ListInv(shown)
  BY DEF PageInv, ListInv, StillThere, Snapshot
<1>6. fetch'.list = list /\ shown' = shown
  BY <1>1, <1>2
<1> HIDE DEF list
<1>7. ListInv(shown)' /\ ListInv(fetch.list)'
  BY <1>5, <1>6 DEF ListInv, StillThere, Snapshot
<1> QED
  BY <1>4, <1>7 DEF PageInv

LEMMA InsertStep ==
    ASSUME PageInv, NEW r \in Rows, NEW i \in 1 .. Len(order) + 1, InsertRow(r, i)
    PROVE  PageInv'
<1>1. order \in Seq(Rows) /\ IsInjective(order)
  BY DEF PageInv, PageTypes
<1>2. r \notin Range(order) /\ order' = InsertAt(order, i, r) /\ BetweenPages
  BY DEF InsertRow, Shift
<1> QED
  BY <1>1, <1>2, InsertedRows, GrowingStep

LEMMA RaiseStep ==
    ASSUME PageInv, NEW i \in DOMAIN order, NEW j \in DOMAIN order, RaiseRow(i, j)
    PROVE  PageInv'
<1> DEFINE rest == RemoveAt(order, i)
<1>1. order \in Seq(Rows) /\ IsInjective(order) /\ order[i] \in Rows /\ i \in 1 .. Len(order)
  BY DEF PageInv, PageTypes
<1>2. j < i /\ order' = InsertAt(rest, j, order[i]) /\ BetweenPages
  BY DEF RaiseRow, Shift
<1>3. rest \in Seq(Rows) /\ IsInjective(rest) /\ Range(rest) = Range(order) \ {order[i]}
  BY <1>1, RemovedRows
<1>4. Len(rest) = Len(order) - 1
  BY <1>1, RemoveAtFacts
<1>5. j \in 1 .. Len(rest) + 1
  BY <1>1, <1>2, <1>4
<1> HIDE DEF rest
<1>6. /\ order' \in Seq(Rows) /\ IsInjective(order')
      /\ Range(order') = Range(rest) \cup {order[i]}
  BY <1>1, <1>2, <1>3, <1>5, InsertedRows
<1>7. Range(order) \subseteq Range(order')
  BY <1>3, <1>6
<1> QED
  BY <1>2, <1>6, <1>7, GrowingStep

(* A delete makes the lists blind: nothing is claimed of them.             *)
LEMMA DeleteRowStep ==
    ASSUME PageInv, NEW i \in DOMAIN order, DeleteRow(i)
    PROVE  PageInv'
<1>1. order \in Seq(Rows) /\ IsInjective(order) /\ i \in 1 .. Len(order)
  BY DEF PageInv, PageTypes
<1>2. order' = RemoveAt(order, i)
  BY DEF DeleteRow, Shift
<1>3. order' \in Seq(Rows) /\ IsInjective(order')
  BY <1>1, <1>2, RemovedRows
<1>4. \A list \in Lists : Without(list, order[i]) \in Lists /\ Without(list, order[i]).blind
                          /\ Without(list, order[i]).pages = list.pages
  BY DEF Without, Lists
<1>5. shown' = Without(shown, order[i]) /\ shown' \in Lists /\ shown'.blind
  BY <1>4 DEF DeleteRow, PageInv, PageTypes
<1>6. ListInv(shown)'
  BY <1>5 DEF ListInv
<1>7. CASE fetch.on
  <2>1. fetch' = [fetch EXCEPT !.list = Without(fetch.list, order[i])]
    BY <1>7 DEF DeleteRow
  <2>2. /\ fetch' = [on |-> TRUE, list |-> Without(fetch.list, order[i]), goal |-> fetch.goal,
                     counted |-> fetch.counted]
    BY <1>7, <2>1 DEF PageInv, PageTypes
  <2>3. fetch'.list \in Lists /\ fetch'.list.blind /\ fetch'.list.pages = fetch.list.pages
    BY <1>4, <2>2 DEF PageInv, PageTypes
  <2>4. ListInv(fetch.list)'
    BY <2>3 DEF ListInv
  <2>5. PageTypes' /\ FetchInv'
    BY <1>3, <1>5, <1>7, <2>2, <2>3 DEF PageInv, PageTypes, FetchInv
  <2> QED
    BY <1>6, <2>4, <2>5 DEF PageInv
<1>8. CASE ~fetch.on
  <2>1. UNCHANGED fetch
    BY <1>8 DEF DeleteRow, PageInv, PageTypes
  <2>2. fetch = Quiet /\ fetch' = Quiet /\ Quiet.list = NoPages
    BY <1>8, <2>1 DEF PageInv, FetchInv, Quiet
  <2>3. ListInv(fetch.list)'
    BY <2>2, NoPagesInv DEF ListInv, StillThere, Snapshot
  <2>4. PageTypes'
    BY <1>3, <1>5, <2>1 DEF PageInv, PageTypes
  <2>5. FetchInv'
    BY <2>2 DEF FetchInv, Quiet
  <2> QED
    BY <1>6, <2>3, <2>4, <2>5 DEF PageInv
<1> QED
  BY <1>7, <1>8 DEF PageInv, PageTypes

LEMMA PageNextInv == PageInv /\ [PageNext]_pageVars => PageInv'
<1> SUFFICES ASSUME PageInv, [PageNext]_pageVars PROVE PageInv'
  OBVIOUS
<1>1. CASE UNCHANGED pageVars
  BY <1>1 DEF pageVars, PageInv, PageTypes, ListInv, StillThere, Snapshot, FetchInv
<1> QED
  BY <1>1, FetchSteps, CountStep, ReadStep, InsertStep, RaiseStep, DeleteRowStep DEF PageNext

(* NothingLostSilently of Paging: a list that says it is whole, over any   *)
(* rows and any writes between its pages, holds every row there was all    *)
(* the while.                                                              *)
THEOREM NothingLostSilentlyHolds == PageSpec => []NothingLostSilently
<1>1. ASSUME PageInv PROVE NothingLostSilently
  <2> SUFFICES ASSUME shown.pages # <<>>, ~shown.blind, ~(Remaining(shown.pages) > 0)
               PROVE  shown.since \subseteq Merged(shown.pages)
    BY DEF NothingLostSilently
  <2>1. PICK all \in SUBSET Rows :
          /\ shown.since \cup Merged(shown.pages) \subseteq all
          /\ Cardinality(all) = Total(shown.pages)
    BY <1>1 DEF PageInv, ListInv, Snapshot
  <2>2. IsFiniteSet(all)
    BY PagingAssumption, FS_Subset
  <2>3. /\ IsFiniteSet(Merged(shown.pages))
        /\ Loaded(shown.pages) \in Nat /\ Cardinality(all) \in Nat
        /\ Loaded(shown.pages) <= Cardinality(all)
        /\ Cardinality(all) = Loaded(shown.pages) => all = Merged(shown.pages)
    BY <2>1, <2>2, FS_Subset, FS_CardinalityType DEF Loaded
  <2>4. Cardinality(all) <= Loaded(shown.pages)
    BY <2>1, <2>3 DEF Remaining
  <2>5. Cardinality(all) = Loaded(shown.pages)
    BY <2>3, <2>4
  <2> QED
    BY <2>1, <2>3, <2>5
<1> QED
  BY <1>1, PageInitInv, PageNextInv, PTL DEF PageSpec

==============================================================================
