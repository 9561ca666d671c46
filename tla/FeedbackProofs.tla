---------------------------- MODULE FeedbackProofs ----------------------------
(***************************************************************************)
(* Proofs about Feedback for any set of fields and any bounds: types, what *)
(* an answer may clear and what may be sent again.                         *)
(***************************************************************************)
EXTENDS Feedback, SequenceTheorems, TLAPS

(* A note that was acknowledged in a form still open: what NotSentAgain is *)
(* about.                                                                  *)
Acknowledged(i) == sends[i].state = "stored" /\ i \notin waiting

(* The forms and texts in use are those handed out.                        *)
Bounded ==
  /\ \A g \in open : g <= forms
  /\ \A g \in Forms, f \in Fields : text[g][f] <= typed
  /\ \A i \in DOMAIN sends : /\ sends[i].form <= forms
                             /\ \A f \in Fields : sends[i].data[f] <= typed

(* A note that its form gave up on while the server had it still to answer *)
(* can only be one of a closed form.                                       *)
QueuedIsAwaited ==
  \A i \in DOMAIN sends :
    sends[i].form \in open /\ sends[i].state = "queued" => i \in waiting

(* A form shows of a note sent from it what the user typed then or later,  *)
(* and after the acknowledgement only what was typed later.                *)
ShowsLater ==
  \A i \in DOMAIN sends, f \in Fields :
    LET shown == text[sends[i].form][f]
    IN  /\ shown = 0 \/ shown >= sends[i].data[f]
        /\ sends[i].form \in open /\ Acknowledged(i) => shown = 0 \/ shown > sends[i].data[f]

IInv == TypeOK /\ Bounded /\ QueuedIsAwaited /\ ShowsLater

-----------------------------------------------------------------------------
(* What every note sent is, read off the type of the sequence.             *)
LEMMA SendFacts ==
  ASSUME TypeOK
  PROVE  /\ Len(sends) \in Nat /\ DOMAIN sends = 1..Len(sends)
         /\ \A i \in DOMAIN sends : sends[i] \in Sends
<1>1. Len(sends) \in Nat /\ DOMAIN sends = 1..Len(sends)
  BY LenProperties DEF TypeOK
<1> QED
  BY <1>1, ElementOfSeq DEF TypeOK

LEMMA PressFacts ==
  ASSUME TypeOK, NEW g \in Forms, Press(g)
  PROVE  /\ sends' \in Seq(Sends)
         /\ Len(sends') = Len(sends) + 1 /\ DOMAIN sends' = 1..(Len(sends) + 1)
         /\ \A i \in DOMAIN sends : i \in DOMAIN sends' /\ sends'[i] = sends[i]
         /\ sends'[Len(sends) + 1].form = g /\ sends'[Len(sends) + 1].data = text[g]
         /\ sends'[Len(sends) + 1].state = "queued"
<1> DEFINE new == [form |-> g, data |-> text[g], state |-> "queued"]
<1>1. text[g] \in [Fields -> Texts]
  <2>1. text[g] \in [Fields -> 0..MaxTexts] /\ \A f \in Fields : text[g][f] # 0
    BY DEF TypeOK, Press, Valid
  <2>2. ASSUME NEW f \in Fields
        PROVE  text[g][f] \in Texts
    <3>1. text[g][f] \in 0..MaxTexts /\ text[g][f] # 0
      BY <2>1
    <3> QED
      BY <3>1, BoundsAssumption DEF Texts
  <2> QED
    BY <2>1, <2>2
<1>2. new \in Sends
  BY <1>1 DEF Sends
<1>3. sends' = Append(sends, new)
  BY DEF Press
<1>4. sends \in Seq(Sends)
  BY DEF TypeOK
<1> HIDE DEF new
<1>5. /\ sends' \in Seq(Sends) /\ Len(sends') = Len(sends) + 1
      /\ \A i \in 1..Len(sends) : sends'[i] = sends[i]
      /\ sends'[Len(sends) + 1] = new
  BY <1>2, <1>3, <1>4, AppendProperties
<1>6. DOMAIN sends' = 1..(Len(sends) + 1)
  BY <1>5, LenProperties
<1> QED
  <2>1. new.form = g /\ new.data = text[g] /\ new.state = "queued"
    BY DEF new
  <2>2. Len(sends) \in Nat /\ DOMAIN sends = 1..Len(sends)
    BY SendFacts
  <2> QED
    BY <1>5, <1>6, <2>1, <2>2

LEMMA AnswerFacts ==
  ASSUME TypeOK, NEW i \in 1..MaxSends, ServerAnswers(i)
  PROVE  /\ sends' \in Seq(Sends) /\ DOMAIN sends' = DOMAIN sends /\ Len(sends') = Len(sends)
         /\ i \in DOMAIN sends /\ sends[i].state = "queued"
         /\ \A j \in DOMAIN sends : /\ sends'[j].form = sends[j].form
                                    /\ sends'[j].data = sends[j].data
                                    /\ j # i => sends'[j].state = sends[j].state
         /\ sends'[i].state # "queued"
<1>1. PICK s \in {"stored", "refused"} :
        i \in DOMAIN sends /\ sends' = [sends EXCEPT ![i] = [sends[i] EXCEPT !.state = s]]
  BY DEF ServerAnswers
<1> DEFINE new == [sends[i] EXCEPT !.state = s]
<1>2. sends \in Seq(Sends) /\ i \in 1..Len(sends) /\ sends[i] \in Sends
  BY <1>1, SendFacts DEF TypeOK
<1>3. /\ new \in Sends /\ new.form = sends[i].form /\ new.data = sends[i].data
      /\ new.state = s
  BY <1>2 DEF Sends
<1>4. sends' = [sends EXCEPT ![i] = new] /\ sends[i].state = "queued"
  BY <1>1 DEF ServerAnswers
<1> HIDE DEF new
<1>5. /\ sends' \in Seq(Sends) /\ Len(sends') = Len(sends)
      /\ \A j \in 1..Len(sends) : sends'[j] = IF j = i THEN new ELSE sends[j]
  BY <1>2, <1>3, <1>4, ExceptSeq
<1>6. DOMAIN sends' = 1..Len(sends) /\ DOMAIN sends = 1..Len(sends)
  BY <1>5, LenProperties, SendFacts
<1> QED
  BY <1>2, <1>3, <1>4, <1>5, <1>6

(* What the three calls of clear leave.                                    *)
LEMMA ClearFacts ==
  ASSUME TypeOK, NEW g \in Forms
  PROVE  /\ Cleared(g) \in [Forms -> [Fields -> 0..MaxTexts]]
         /\ \A h \in Forms : Cleared(g)[h] = IF h = g THEN Empty ELSE text[h]
<1>1. Empty \in [Fields -> 0..MaxTexts]
  BY BoundsAssumption DEF Empty
<1> QED
  BY <1>1 DEF Cleared, TypeOK

(* One field of one form gets another text.                                *)
LEMMA TypingFacts ==
  ASSUME TypeOK, NEW g \in Forms, NEW f \in Fields, NEW t \in 0..MaxTexts,
         text' = [text EXCEPT ![g][f] = t]
  PROVE  /\ text' \in [Forms -> [Fields -> 0..MaxTexts]]
         /\ \A h \in Forms, e \in Fields :
              text'[h][e] = IF h = g /\ e = f THEN t ELSE text[h][e]
BY DEF TypeOK

-----------------------------------------------------------------------------
LEMMA InitSafe == Init => IInv
<1> SUFFICES ASSUME Init
             PROVE  IInv
  OBVIOUS
<1>1. sends \in Seq(Sends) /\ DOMAIN sends = {}
  BY EmptySeq DEF Init
<1>2. text \in [Forms -> [Fields -> 0..MaxTexts]] /\ \A g \in Forms, f \in Fields : text[g][f] = 0
  BY BoundsAssumption DEF Init, Empty
<1>3. TypeOK
  BY <1>1, <1>2, BoundsAssumption DEF Init, TypeOK
<1> QED
  BY <1>1, <1>2, <1>3 DEF Init, IInv, Bounded, QueuedIsAwaited, ShowsLater

(* Every step keeps the invariant.                                         *)
LEMMA Step ==
  ASSUME IInv, [Next]_vars
  PROVE  IInv'
<1> USE DEF IInv
<1>1. /\ Len(sends) \in Nat /\ DOMAIN sends = 1..Len(sends)
      /\ \A i \in DOMAIN sends : /\ sends[i].form \in Forms
                                 /\ \A f \in Fields : sends[i].data[f] \in Nat
  BY SendFacts DEF Sends, Texts
<1>2. /\ forms \in Nat /\ typed \in Nat
      /\ \A g \in Forms, f \in Fields : text[g][f] \in Nat
  BY DEF TypeOK
<1>3. CASE Open
  <2>1. TypeOK'
    <3>1. forms + 1 \in Forms /\ forms' = forms + 1 /\ forms' \in 0..MaxForms
      BY <1>2, <1>3, BoundsAssumption DEF Open, Forms
    <3>2. open' = open \cup {forms + 1} /\ UNCHANGED <<text, typed, sends, waiting>>
      BY <1>3 DEF Open
    <3> QED
      BY <3>1, <3>2 DEF TypeOK
  <2>2. Bounded'
    BY <1>1, <1>2, <1>3 DEF Open, Bounded, Forms, TypeOK
  <2>3. \A i \in DOMAIN sends : sends[i].form \in open' <=> sends[i].form \in open
    BY <1>1, <1>2, <1>3 DEF Open, Bounded, Forms
  <2> QED
    BY <1>3, <2>1, <2>2, <2>3 DEF Open, QueuedIsAwaited, ShowsLater, Acknowledged
<1>4. CASE Stop
  <2>1. TypeOK' /\ Bounded'
    BY <1>4 DEF Stop, TypeOK, Bounded
  <2> QED
    BY <1>4, <2>1 DEF Stop, QueuedIsAwaited, ShowsLater, Acknowledged
<1>5. ASSUME NEW g \in Forms, Press(g)
      PROVE  IInv'
  <2> DEFINE n == Len(sends) + 1
  <2>1. UNCHANGED <<forms, open, text, typed>> /\ waiting' = waiting \cup {n}
    BY <1>5 DEF Press
  <2>2. n \notin DOMAIN sends /\ DOMAIN sends' = DOMAIN sends \cup {n}
    <3>1. DOMAIN sends' = 1..n
      BY <1>5, PressFacts
    <3> QED
      BY <1>1, <3>1
  <2>3. \A i \in DOMAIN sends : sends'[i] = sends[i] /\ (i \in waiting' <=> i \in waiting)
    BY <1>5, <2>1, <2>2, PressFacts
  <2>4. /\ sends'[n].form = g /\ sends'[n].data = text[g] /\ sends'[n].state = "queued"
        /\ n \in waiting'
    <3>1. /\ sends'[Len(sends) + 1].form = g /\ sends'[Len(sends) + 1].data = text[g]
          /\ sends'[Len(sends) + 1].state = "queued"
      BY <1>5, PressFacts
    <3> QED
      BY <2>1, <3>1
  <2>5. TypeOK'
    BY <1>5, <2>1, <2>2, PressFacts DEF TypeOK
  <2>6. g \in open /\ g <= forms
    BY <1>5 DEF Press, OnTop, Bounded
  <2> HIDE DEF n
  <2>7. Bounded'
    BY <2>1, <2>2, <2>3, <2>4, <2>6 DEF Bounded
  <2>8. QueuedIsAwaited'
    BY <2>1, <2>2, <2>3, <2>4 DEF QueuedIsAwaited
  <2>9. ShowsLater'
    <3>1. ASSUME NEW f \in Fields
          PROVE  text[g][f] >= sends'[n].data[f]
      BY <1>2, <2>4
    <3> QED
      BY <2>1, <2>2, <2>3, <2>4, <3>1 DEF ShowsLater, Acknowledged
  <2> QED
    BY <2>5, <2>7, <2>8, <2>9
<1>6. ASSUME NEW g \in Forms, Back(g)
      PROVE  IInv'
  <2>1. TypeOK' /\ Bounded'
    BY <1>6 DEF Back, TypeOK, Bounded
  <2> QED
    BY <1>6, <2>1 DEF Back, QueuedIsAwaited, ShowsLater, Acknowledged
<1>7. ASSUME NEW g \in Forms, NEW f \in Fields, NEW t \in 0..MaxTexts,
              t \in {0, typed + 1}, text' = [text EXCEPT ![g][f] = t],
              typed <= typed', t <= typed', typed' \in 0..MaxTexts,
              UNCHANGED <<forms, open, sends, waiting>>
       PROVE  IInv'
  <2>1. /\ text' \in [Forms -> [Fields -> 0..MaxTexts]]
        /\ \A h \in Forms, e \in Fields :
             text'[h][e] = IF h = g /\ e = f THEN t ELSE text[h][e]
    BY <1>7, TypingFacts
  <2>2. TypeOK'
    BY <1>7, <2>1 DEF TypeOK
  <2>3. Bounded'
    <3>1. \A h \in Forms, e \in Fields : text'[h][e] <= typed'
      BY <1>2, <1>7, <2>1 DEF Bounded
    <3>2. \A i \in DOMAIN sends, e \in Fields : sends[i].data[e] <= typed'
      BY <1>1, <1>2, <1>7 DEF Bounded
    <3> QED
      BY <1>7, <3>1, <3>2 DEF Bounded
  <2>4. ShowsLater'
    <3> SUFFICES ASSUME NEW i \in DOMAIN sends, NEW e \in Fields
                 PROVE  LET shown == text'[sends[i].form][e]
                        IN  /\ shown = 0 \/ shown >= sends[i].data[e]
                            /\ sends[i].form \in open /\ Acknowledged(i)
                                 => shown = 0 \/ shown > sends[i].data[e]
      BY <1>7 DEF ShowsLater, Acknowledged
    <3>1. sends[i].data[e] <= typed /\ sends[i].data[e] \in Nat /\ sends[i].form \in Forms
      BY <1>1 DEF Bounded
    <3>2. text'[sends[i].form][e] \in {0, typed + 1, text[sends[i].form][e]}
      BY <1>7, <2>1, <3>1
    <3> QED
      BY <1>2, <3>1, <3>2 DEF ShowsLater
  <2> QED
    BY <1>7, <2>2, <2>3, <2>4 DEF QueuedIsAwaited
<1>8. ASSUME NEW g \in Forms, NEW f \in Fields, Type(g, f) \/ Erase(g, f)
      PROVE  IInv'
  <2>1. CASE Type(g, f)
    <3>1. typed + 1 \in 0..MaxTexts /\ typed <= typed + 1 /\ typed' = typed + 1
      BY <1>2, <2>1, BoundsAssumption DEF Type
    <3>2. /\ text' = [text EXCEPT ![g][f] = typed + 1]
          /\ UNCHANGED <<forms, open, sends, waiting>>
      BY <2>1 DEF Type
    <3>3. typed + 1 \in {0, typed + 1} /\ typed <= typed' /\ typed + 1 <= typed'
          /\ typed' \in 0..MaxTexts
      BY <1>2, <3>1
    <3> HIDE DEF IInv
    <3> QED
      BY <1>7, <3>1, <3>2, <3>3
  <2>2. CASE Erase(g, f)
    <3>1. 0 \in 0..MaxTexts /\ 0 <= typed /\ typed <= typed /\ typed \in 0..MaxTexts
      BY <1>2, BoundsAssumption DEF TypeOK
    <3> QED
      BY <1>7, <2>2, <3>1 DEF Erase
  <2> QED
    BY <1>8, <2>1, <2>2
<1>9. ASSUME NEW i \in 1..MaxSends, ServerAnswers(i)
      PROVE  IInv'
  <2>1. UNCHANGED <<forms, open, text, typed, waiting>>
    BY <1>9 DEF ServerAnswers
  <2>2. TypeOK'
    BY <1>9, <2>1, AnswerFacts DEF TypeOK
  <2>3. Bounded'
    BY <1>9, <2>1, AnswerFacts DEF Bounded
  <2>4. QueuedIsAwaited'
    BY <1>9, <2>1, AnswerFacts DEF QueuedIsAwaited
  <2>5. sends[i].form \in open => i \in waiting
    BY <1>9, AnswerFacts DEF QueuedIsAwaited
  <2>6. ShowsLater'
    BY <1>9, <2>1, <2>5, AnswerFacts DEF ShowsLater, Acknowledged
  <2> QED
    BY <2>2, <2>3, <2>4, <2>6
<1>10. ASSUME NEW i \in 1..MaxSends, Resume(i)
      PROVE  IInv'
  <2> DEFINE g == sends[i].form
  <2>1. /\ UNCHANGED <<forms, open, typed, sends>> /\ waiting' = waiting \ {i}
        /\ i \in DOMAIN sends /\ g \in Forms /\ sends[i].state # "queued"
    BY <1>1, <1>10 DEF Resume, TypeOK
  <2>2. CASE sends[i].state = "stored"
    <3>1. text' = Cleared(g)
      BY <1>10, <2>2 DEF Resume
    <3>2. /\ text' \in [Forms -> [Fields -> 0..MaxTexts]]
          /\ \A h \in Forms, f \in Fields : text'[h][f] = IF h = g THEN 0 ELSE text[h][f]
      BY <2>1, <3>1, ClearFacts DEF Empty
    <3>3. TypeOK'
      BY <2>1, <3>2 DEF TypeOK
    <3>4. Bounded'
      BY <1>2, <2>1, <3>2 DEF Bounded
    <3>5. QueuedIsAwaited'
      BY <2>1 DEF QueuedIsAwaited
    <3>6. \A j \in DOMAIN sends : sends[j].form # g => j # i
      OBVIOUS
    <3> HIDE DEF g
    <3>7. ShowsLater'
      BY <1>1, <2>1, <3>2, <3>6 DEF ShowsLater, Acknowledged
    <3> QED
      BY <3>3, <3>4, <3>5, <3>7
  <2>3. CASE sends[i].state # "stored"
    <3>1. text' = text
      BY <1>10, <2>3 DEF Resume
    <3>2. TypeOK' /\ Bounded'
      BY <2>1, <3>1 DEF TypeOK, Bounded
    <3> QED
      BY <2>1, <2>3, <3>1, <3>2 DEF QueuedIsAwaited, ShowsLater, Acknowledged
  <2> QED
    BY <2>2, <2>3
<1>11. CASE UNCHANGED vars
  BY <1>11 DEF vars, TypeOK, Bounded, QueuedIsAwaited, ShowsLater, Acknowledged
<1> QED
  BY <1>3, <1>4, <1>5, <1>6, <1>8, <1>9, <1>10, <1>11 DEF Next

-----------------------------------------------------------------------------
(* The variables always have their types.                                  *)
THEOREM TypeCorrect == Spec => []TypeOK
<1>1. IInv /\ [Next]_vars => IInv'
  BY Step
<1>2. IInv => TypeOK
  BY DEF IInv
<1> QED
  BY <1>1, <1>2, InitSafe, PTL DEF Spec

(* Once a note was acknowledged in its form, no part of it is sent from    *)
(* there again, however often the button was pressed before.               *)
THEOREM SentOnce == Spec => NotSentAgain
<1> DEFINE Rule ==
      \A i \in DOMAIN sends :
        Len(sends') > Len(sends) =>
          LET new == sends'[Len(sends')]
          IN  new.form = sends[i].form /\ sends[i].state = "stored" /\ i \notin waiting
                => \A f \in Fields : new.data[f] > sends[i].data[f]
<1>1. IInv /\ [Next]_vars => IInv'
  BY Step
<1>2. ASSUME IInv, [Next]_vars
      PROVE  Rule
  <2>1. Len(sends) \in Nat
    BY <1>2, SendFacts DEF IInv
  <2>2. CASE sends' = sends
    BY <2>1, <2>2
  <2>3. ASSUME NEW g \in Forms, Press(g)
        PROVE  Rule
    <3>1. /\ Len(sends') = Len(sends) + 1
          /\ sends'[Len(sends')].form = g /\ sends'[Len(sends')].data = text[g]
      BY <1>2, <2>3, PressFacts DEF IInv
    <3>2. g \in open /\ \A f \in Fields : text[g][f] # 0
      BY <2>3 DEF Press, OnTop, Valid
    <3>3. ASSUME NEW i \in DOMAIN sends, sends[i].form = g, Acknowledged(i), NEW f \in Fields
          PROVE  text[g][f] > sends[i].data[f]
      BY <1>2, <3>2, <3>3 DEF IInv, ShowsLater
    <3> QED
      BY <3>1, <3>3 DEF Acknowledged
  <2>4. ASSUME NEW i \in 1..MaxSends, ServerAnswers(i)
        PROVE  Rule
    <3>1. Len(sends') = Len(sends)
      BY <1>2, <2>4, AnswerFacts DEF IInv
    <3> QED
      BY <2>1, <3>1
  <2>5. CASE \/ Open \/ Stop \/ UNCHANGED vars
             \/ \E g \in Forms : Back(g) \/ \E f \in Fields : Type(g, f) \/ Erase(g, f)
             \/ \E i \in 1..MaxSends : Resume(i)
    BY <2>2, <2>5 DEF Open, Stop, Back, Type, Erase, Resume, vars
  <2> QED
    BY <1>2, <2>3, <2>4, <2>5 DEF Next
<1>3. IInv /\ [Next]_vars => [Rule]_vars
  BY <1>2
<1> QED
  BY <1>1, <1>3, InitSafe, PTL DEF Spec, NotSentAgain

(* An answer empties only the form its note was sent from, only if it was  *)
(* stored, and the user loses nothing typed before the press that was not  *)
(* sent.                                                                   *)
THEOREM ClearsOwn == Spec => ClearsOnlyStored
<1> DEFINE Rule ==
      \A g \in Forms :
        text'[g] # text[g] /\ waiting' # waiting =>
          \E i \in waiting :
            /\ sends[i].form = g /\ sends[i].state = "stored"
            /\ \A f \in Fields : text[g][f] = 0 \/ text[g][f] >= sends[i].data[f]
<1>1. IInv /\ [Next]_vars => IInv'
  BY Step
<1>2. ASSUME IInv, [Next]_vars
      PROVE  Rule
  <2>1. CASE text' = text \/ waiting' = waiting
    BY <2>1
  <2>2. ASSUME NEW i \in 1..MaxSends, Resume(i)
        PROVE  Rule
    <3>1. CASE sends[i].state = "stored"
      <4>1. /\ text' = Cleared(sends[i].form) /\ i \in waiting
            /\ i \in DOMAIN sends /\ sends[i].form \in Forms
        BY <1>2, <2>2, <3>1, SendFacts DEF Resume, IInv, TypeOK, Sends
      <4>2. \A g \in Forms : text'[g] # text[g] => g = sends[i].form
        BY <1>2, <4>1, ClearFacts DEF IInv
      <4>3. \A f \in Fields :
              LET shown == text[sends[i].form][f] IN shown = 0 \/ shown >= sends[i].data[f]
        BY <1>2, <4>1 DEF IInv, ShowsLater
      <4> QED
        BY <3>1, <4>1, <4>2, <4>3
    <3>2. CASE sends[i].state # "stored"
      BY <2>1, <2>2, <3>2 DEF Resume
    <3> QED
      BY <3>1, <3>2
  <2>3. CASE \/ Open \/ Stop \/ UNCHANGED vars
             \/ \E g \in Forms :
                  Press(g) \/ Back(g) \/ \E f \in Fields : Type(g, f) \/ Erase(g, f)
             \/ \E i \in 1..MaxSends : ServerAnswers(i)
    BY <2>1, <2>3 DEF Open, Stop, Press, Back, Type, Erase, ServerAnswers, vars
  <2> QED
    BY <1>2, <2>2, <2>3 DEF Next
<1>3. IInv /\ [Next]_vars => [Rule]_vars
  BY <1>2
<1> QED
  BY <1>1, <1>3, InitSafe, PTL DEF Spec, ClearsOnlyStored
=============================================================================
