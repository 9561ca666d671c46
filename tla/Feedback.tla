------------------------------- MODULE Feedback -------------------------------
(***************************************************************************)
(* The feedback form (notes.dart): several fields, one button that sends   *)
(* them to Firestore and, when the server has acknowledged the note,       *)
(* empties them.                                                           *)
(*                                                                         *)
(* Firestore keeps unsent notes on the device and sends them in order; the *)
(* future of an add completes with the server's answer, long after the     *)
(* press if the device is offline.  Meanwhile the form can be edited, sent *)
(* again, covered by another one or closed: its Notes button, a sign-in    *)
(* later, may push a second form.  Nothing disposes of the controllers.    *)
(*                                                                         *)
(* A text is a number, 0 the empty one; each text typed is a new one.      *)
(***************************************************************************)
EXTENDS Naturals, Sequences

CONSTANTS
  Fields,      \* name, id, note
  MaxForms,    \* bound: forms opened
  MaxTexts,    \* bound: texts typed
  MaxSends     \* bound: presses of the button that pass the validators

ASSUME BoundsAssumption == MaxForms \in Nat /\ MaxTexts \in Nat /\ MaxSends \in Nat
ASSUME FieldsAssumption == Fields # {}

VARIABLES
  forms,    \* forms opened so far, numbered in this order
  open,     \* those still on the navigator; a later one covers the earlier
  text,     \* the texts in the controllers of each form
  typed,    \* texts typed so far
  sends,    \* the notes sent, in order, and what became of each
  waiting   \* the notes whose validateAndSave is in its await

vars == <<forms, open, text, typed, sends, waiting>>

Forms == 1..MaxForms
Texts == 1..MaxTexts

Sends == [form : Forms, data : [Fields -> Texts], state : {"queued", "stored", "refused"}]

TypeOK ==
  /\ forms \in 0..MaxForms
  /\ open \subseteq Forms
  /\ text \in [Forms -> [Fields -> 0..MaxTexts]]
  /\ typed \in 0..MaxTexts
  /\ sends \in Seq(Sends)
  /\ waiting \subseteq DOMAIN sends

Empty == [f \in Fields |-> 0]

Init ==
  /\ forms = 0 /\ open = {}
  /\ text = [g \in Forms |-> Empty]
  /\ typed = 0 /\ sends = <<>> /\ waiting = {}

-----------------------------------------------------------------------------
(* A definition named X_Y beside a definition X is X with a plausible slip *)
(* in it.  No specification uses it: it stands for the mistake that some   *)
(* property below is there to notice.                                      *)

(* The form the user sees.                                                 *)
OnTop(g) == g \in open /\ \A h \in open : h <= g

Open ==
  /\ forms < MaxForms
  /\ forms' = forms + 1
  /\ open' = open \cup {forms + 1}
  /\ UNCHANGED <<text, typed, sends, waiting>>

Type(g, f) ==
  /\ OnTop(g)
  /\ typed < MaxTexts
  /\ typed' = typed + 1
  /\ text' = [text EXCEPT ![g][f] = typed + 1]
  /\ UNCHANGED <<forms, open, sends, waiting>>

Erase(g, f) ==
  /\ OnTop(g)
  /\ text' = [text EXCEPT ![g][f] = 0]
  /\ UNCHANGED <<forms, open, typed, sends, waiting>>

(* The validators of all fields.                                           *)
Valid(t) == \A f \in Fields : t[f] # 0

(* The button: a form that does not pass shows where and sends nothing.    *)
Press(g) ==
  /\ OnTop(g)
  /\ Valid(text[g])
  /\ Len(sends) < MaxSends
  /\ sends' = Append(sends, [form |-> g, data |-> text[g], state |-> "queued"])
  /\ waiting' = waiting \cup {Len(sends) + 1}
  /\ UNCHANGED <<forms, open, text, typed>>

(* Firestore sends the oldest note it holds; the server takes or refuses   *)
(* it.                                                                     *)
ServerAnswers(i) ==
  /\ i \in DOMAIN sends /\ sends[i].state = "queued"
  /\ \A j \in DOMAIN sends : sends[j].state = "queued" => i <= j
  /\ \E s \in {"stored", "refused"} : sends' = [sends EXCEPT ![i] = [@ EXCEPT !.state = s]]
  /\ UNCHANGED <<forms, open, text, typed, waiting>>

Cleared_KeepsOne(g) ==
  LET kept == CHOOSE f \in Fields : TRUE
  IN  [text EXCEPT ![g] = [Empty EXCEPT ![kept] = text[g][kept]]]

Cleared_OnlyIfSeen(g) == IF OnTop(g) THEN [text EXCEPT ![g] = Empty] ELSE text

(* The three calls of clear.                                               *)
Cleared(g) == [text EXCEPT ![g] = Empty]

Resume_Finally(i) ==
  /\ i \in waiting /\ sends[i].state # "queued"
  /\ waiting' = waiting \ {i}
  /\ text' = Cleared(sends[i].form)
  /\ UNCHANGED <<forms, open, typed, sends>>

(* validateAndSave after its await: a note stored empties the controllers  *)
(* of its form, mounted or not; a note refused throws and leaves them.     *)
Resume(i) ==
  /\ i \in waiting /\ sends[i].state # "queued"
  /\ waiting' = waiting \ {i}
  /\ text' = IF sends[i].state = "stored" THEN Cleared(sends[i].form) ELSE text
  /\ UNCHANGED <<forms, open, typed, sends>>

Back(g) ==
  /\ OnTop(g)
  /\ open' = open \ {g}
  /\ UNCHANGED <<forms, text, typed, sends, waiting>>

(* The process ends: nothing waits any more, Firestore keeps its queue.    *)
Stop ==
  /\ open' = {} /\ waiting' = {}
  /\ UNCHANGED <<forms, text, typed, sends>>

Next ==
  \/ Open \/ Stop
  \/ \E g \in Forms : Press(g) \/ Back(g) \/ \E f \in Fields : Type(g, f) \/ Erase(g, f)
  \/ \E i \in 1..MaxSends : ServerAnswers(i) \/ Resume(i)

Spec == Init /\ [][Next]_vars

(* Firestore retries until the server answers, and answers are delivered.  *)
Fairness == \A i \in 1..MaxSends : WF_vars(ServerAnswers(i)) /\ WF_vars(Resume(i))

FairSpec == Spec /\ Fairness

-----------------------------------------------------------------------------
(* Only a note that was stored empties a form, its own, and what the user  *)
(* loses was in that note or was typed into the same field since.          *)
ClearsOnlyStored ==
  [][\A g \in Forms :
       text'[g] # text[g] /\ waiting' # waiting =>
         \E i \in waiting :
           /\ sends[i].form = g /\ sends[i].state = "stored"
           /\ \A f \in Fields : text[g][f] = 0 \/ text[g][f] >= sends[i].data[f]]_vars

(* Once a note was acknowledged in its form, no part of it is sent from    *)
(* there again: a duplicate takes a press while the first is under way.    *)
NotSentAgain ==
  [][\A i \in DOMAIN sends :
       Len(sends') > Len(sends) =>
         LET new == sends'[Len(sends')]
         IN  new.form = sends[i].form /\ sends[i].state = "stored" /\ i \notin waiting
               => \A f \in Fields : new.data[f] > sends[i].data[f]]_vars

(* A press ends with the note stored and gone from the form, covered or    *)
(* not, unless the server refuses it or the form is closed first.          *)
Settled(i) ==
  \/ sends[i].state = "refused"
  \/ sends[i].form \notin open
  \/ /\ sends[i].state = "stored"
     /\ \A f \in Fields : text[sends[i].form][f] # sends[i].data[f]
PressSettles == \A i \in 1..MaxSends : i \in waiting ~> i \in DOMAIN sends /\ Settled(i)
=============================================================================
