--------------------------- MODULE AppShellProofs ---------------------------
(***************************************************************************)
(* Proofs about AppShell, for any categories and any depth of the two      *)
(* navigators: in which language a list is searched, and what the down     *)
(* dialog shuts.                                                           *)
(*                                                                         *)
(* What a list and the store say of the language was decided at different  *)
(* times.  They agree because the language can be chosen only where no     *)
(* list, no login and no Categories is open, which is so because home is   *)
(* at the bottom of the inner navigator and nowhere else.  The down dialog *)
(* shuts the tiles because only what needs no tap is ever pushed above it. *)
(*                                                                         *)
(* The last section is about UpdateGate, whose dialogs the shell shows.    *)
(***************************************************************************)
EXTENDS AppShell, SequenceTheorems, TLAPS

On(s, r) == \E i \in DOMAIN s : s[i] = r

(* The inner navigator: home at the bottom only, and above the down dialog *)
(* nothing but what opens by itself.                                       *)
Overlays == {"notes", "mall"} \cup Dialogs
HomeFirst(s) == \A i \in DOMAIN s : s[i] = "home" => i = 1
DownShut(s) == \A i, j \in DOMAIN s : s[i] = "down" /\ i < j => s[j] \in Overlays
Stacked(s) == s \in Seq(InnerRoutes) /\ HomeFirst(s) /\ DownShut(s)

(* From the choice of a language on, the locale is the stored language,    *)
(* unless a notification switched it.                                      *)
Chosen == On(inner, "login") \/ On(inner, "categories")
Localised == Chosen => locale = mem.lang \/ (locale = "en" /\ notified)

TilesFit ==
  On(inner, "categories") =>
    \A t \in Tiles : /\ tiles[t] = "ar" => mem.lang = "ar"
                     /\ tiles[t] = "en" /\ mem.lang = "ar" => notified

(* A route of the outer navigator, with the stored language l and switched *)
(* for notified.                                                           *)
Fits(r, l, switched) ==
  r.kind = "list" => /\ r.lang = "ar" => l = "ar"
                     /\ r.lang = "en" /\ l = "ar" => switched \/ r.by = "again"
ListsFit == \A i \in DOMAIN outer : Fits(outer[i], mem.lang, notified)

IInv ==
  /\ TypeOK
  /\ ~running => inner = <<>> /\ outer = <<>> /\ awaiting = {}
  /\ HomeFirst(inner) /\ DownShut(inner)
  /\ Localised /\ TilesFit /\ ListsFit

-----------------------------------------------------------------------------
(* Stacks: t is s with members of A on top, or s without its top.          *)
Extends(s, t, A) ==
  /\ Len(s) \in Nat /\ Len(t) \in Nat /\ Len(s) <= Len(t)
  /\ DOMAIN s = 1..Len(s) /\ DOMAIN t = 1..Len(t)
  /\ \A i \in DOMAIN t : IF i <= Len(s) THEN t[i] = s[i] ELSE t[i] \in A

Shortens(s, t) ==
  /\ DOMAIN t \subseteq DOMAIN s /\ \A i \in DOMAIN t : t[i] = s[i]
  /\ DOMAIN s \subseteq DOMAIN t \cup {Len(s)}

(* One more route on top.                                                  *)
LEMMA Pushed ==
  ASSUME NEW S, NEW s \in Seq(S), NEW x \in S
  PROVE  /\ Append(s, x) \in Seq(S) /\ Extends(s, Append(s, x), {x})
         /\ Len(Append(s, x)) = Len(s) + 1 /\ Append(s, x)[Len(s) + 1] = x
<1>1. Len(s) \in Nat /\ DOMAIN s = 1..Len(s)
  BY LenProperties
<1>2. /\ Append(s, x) \in Seq(S) /\ Len(Append(s, x)) = Len(s) + 1
      /\ \A i \in 1..Len(s) : Append(s, x)[i] = s[i]
      /\ Append(s, x)[Len(s) + 1] = x
  BY AppendProperties
<1>3. DOMAIN Append(s, x) = 1..(Len(s) + 1)
  BY <1>2, LenProperties
<1>4. QED BY <1>1, <1>2, <1>3 DEF Extends

(* Several of the same.                                                    *)
LEMMA PushedAll ==
  ASSUME NEW S, NEW s \in Seq(S), NEW x \in S, NEW k \in Nat
  PROVE  s \o [i \in 1..k |-> x] \in Seq(S) /\ Extends(s, s \o [i \in 1..k |-> x], {x})
<1> DEFINE r == [i \in 1..k |-> x]
<1>1. r \in Seq(S) /\ DOMAIN r = 1..k /\ \A i \in 1..k : r[i] = x
  BY IsASeq
<1>2. Len(r) = k
  BY <1>1, LenProperties
<1>3. Len(s) \in Nat /\ DOMAIN s = 1..Len(s)
  BY LenProperties
<1> HIDE DEF r
<1>4. /\ s \o r \in Seq(S) /\ Len(s \o r) = Len(s) + k
      /\ \A i \in 1..(Len(s) + k) : (s \o r)[i] = IF i <= Len(s) THEN s[i] ELSE r[i - Len(s)]
  BY <1>1, <1>2, ConcatProperties
<1>5. DOMAIN (s \o r) = 1..(Len(s) + k)
  BY <1>4, LenProperties
<1>6. \A i \in 1..(Len(s) + k) : ~(i <= Len(s)) => i - Len(s) \in 1..k
  BY <1>3
<1>7. QED BY <1>1, <1>3, <1>4, <1>5, <1>6 DEF Extends, r

(* The top route leaves.                                                   *)
LEMMA Popped ==
  ASSUME NEW S, NEW s \in Seq(S), s # <<>>
  PROVE  /\ SubSeq(s, 1, Len(s) - 1) \in Seq(S) /\ Shortens(s, SubSeq(s, 1, Len(s) - 1))
         /\ Len(SubSeq(s, 1, Len(s) - 1)) < Len(s)
<1> DEFINE t == SubSeq(s, 1, Len(s) - 1)
<1>1. Len(s) \in Nat \ {0} /\ DOMAIN s = 1..Len(s) /\ \A i \in 1..Len(s) : s[i] \in S
  BY LenProperties, ElementOfSeq, EmptySeq
<1>2. /\ t \in Seq(S) /\ Len(t) = Len(s) - 1
      /\ \A i \in 1..(Len(s) - 1) : t[i] = s[i]
  <2>1. \A i \in 1..(Len(s) - 1) : s[i] \in S
    BY <1>1
  <2>2. /\ t \in Seq(S)
        /\ Len(t) = IF 1 <= Len(s) - 1 THEN (Len(s) - 1) - 1 + 1 ELSE 0
        /\ \A i \in 1..((Len(s) - 1) - 1 + 1) : t[i] = s[1 + i - 1]
    BY <1>1, <2>1, SubSeqProperties
  <2>3. /\ (IF 1 <= Len(s) - 1 THEN (Len(s) - 1) - 1 + 1 ELSE 0) = Len(s) - 1
        /\ (Len(s) - 1) - 1 + 1 = Len(s) - 1
        /\ \A i \in 1..(Len(s) - 1) : 1 + i - 1 = i
    BY <1>1
  <2> HIDE DEF t
  <2>4. QED BY <2>2, <2>3
<1>3. DOMAIN t = 1..(Len(s) - 1)
  BY <1>2, LenProperties
<1> HIDE DEF t
<1>4. QED BY <1>1, <1>2, <1>3 DEF t, Shortens

(* What opens by itself may open above anything; login and Categories are  *)
(* pushed where no down dialog is.                                         *)
LEMMA StackedOver ==
  ASSUME NEW s, NEW t, NEW A, Stacked(s), t \in Seq(InnerRoutes), Extends(s, t, A),
         \/ A \subseteq Overlays
         \/ A \subseteq {"login", "categories"} /\ ~On(s, "down")
  PROVE  /\ Stacked(t)
         /\ \A r : r \notin A => (On(t, r) <=> On(s, r))
         /\ \A r : On(s, r) => On(t, r)
<1>1. \A i \in DOMAIN t : (i \in DOMAIN s /\ t[i] = s[i]) \/ (i > Len(s) /\ t[i] \in A)
  BY DEF Extends
<1>2. \A i \in DOMAIN s : i \in DOMAIN t /\ t[i] = s[i]
  BY DEF Extends
<1>3. HomeFirst(t)
  BY <1>1 DEF HomeFirst, Stacked, Overlays, Dialogs
<1>4. DownShut(t)
  <2>1. SUFFICES ASSUME NEW i \in DOMAIN t, NEW j \in DOMAIN t, t[i] = "down", i < j
                 PROVE  t[j] \in Overlays
    BY DEF DownShut
  <2>2. CASE j \in DOMAIN s /\ t[j] = s[j]
    <3>1. i \in DOMAIN s /\ t[i] = s[i]
      BY <2>1, <2>2 DEF Extends
    <3>2. QED BY <2>1, <2>2, <3>1 DEF Stacked, DownShut
  <2>3. CASE t[j] \in A
    <3>1. CASE A \subseteq Overlays
      BY <2>3, <3>1
    <3>2. CASE A \subseteq {"login", "categories"} /\ ~On(s, "down")
      BY <1>1, <2>1, <3>2 DEF On
    <3>3. QED BY <3>1, <3>2
  <2>4. QED BY <1>1, <2>2, <2>3
<1>5. \A r : On(s, r) => On(t, r)
  BY <1>2 DEF On
<1>6. \A r : r \notin A /\ On(t, r) => On(s, r)
  BY <1>1 DEF On
<1>7. QED BY <1>3, <1>4, <1>5, <1>6 DEF Stacked

(* Whatever leaves from the top.                                           *)
LEMMA StackedUnder ==
  ASSUME NEW s, NEW t, Stacked(s), t \in Seq(InnerRoutes), Shortens(s, t)
  PROVE  Stacked(t) /\ \A r : (On(t, r) => On(s, r)) /\ (On(s, r) /\ s[Len(s)] # r => On(t, r))
BY DEF Stacked, HomeFirst, DownShut, Shortens, On

(* Where home or login is on top there is no down dialog, and home is on   *)
(* top only when it is alone.                                              *)
LEMMA TopTells ==
  ASSUME Stacked(inner), NEW r, Visible(r)
  PROVE  /\ r \notin Overlays => ~On(inner, "down")
         /\ r = "home" => ~On(inner, "login") /\ ~On(inner, "categories")
         /\ On(inner, r) /\ outer = <<>> /\ inner # <<>> /\ inner[Len(inner)] = r
<1>1. Len(inner) \in Nat \ {0} /\ DOMAIN inner = 1..Len(inner)
  BY LenProperties, EmptySeq DEF Stacked, Visible
<1>2. Len(inner) \in DOMAIN inner /\ inner[Len(inner)] = r
  BY <1>1 DEF Visible
<1>3. \A i \in DOMAIN inner : i < Len(inner) \/ i = Len(inner)
  BY <1>1
<1>4. r \notin Overlays => ~On(inner, "down")
  BY <1>2, <1>3 DEF On, Stacked, DownShut, Overlays, Dialogs
<1>5. r = "home" => \A i \in DOMAIN inner : inner[i] = "home"
  <2>1. r = "home" => Len(inner) = 1
    BY <1>2 DEF Stacked, HomeFirst
  <2>2. \A i \in 1..1 : i = 1
    OBVIOUS
  <2>3. QED BY <1>1, <1>2, <2>1, <2>2
<1>6. QED BY <1>2, <1>4, <1>5 DEF On, Visible
-----------------------------------------------------------------------------
(* The outer navigator: a list that fits is opened, a page is opened, the  *)
(* top route leaves.                                                       *)
LEMMA ListsFitOver ==
  ASSUME TypeOK, ListsFit, NEW x \in Lists \cup {DetailPage},
         outer' = Append(outer, x), Fits(x, mem'.lang, notified'),
         mem'.lang = mem.lang, notified => notified'
  PROVE  outer' \in Seq(Lists \cup {DetailPage}) /\ ListsFit'
<1>1. outer' \in Seq(Lists \cup {DetailPage}) /\ Extends(outer, outer', {x})
  BY Pushed DEF TypeOK
<1>2. \A i \in DOMAIN outer' : (i \in DOMAIN outer /\ outer'[i] = outer[i]) \/ outer'[i] = x
  BY <1>1 DEF Extends
<1>3. QED BY <1>1, <1>2 DEF ListsFit, Fits

(* The outer navigator and the language stay, or only notified is set.     *)
LEMMA ListsFitKept ==
  ASSUME ListsFit, UNCHANGED <<outer, mem>>, notified => notified'
  PROVE  ListsFit'
BY DEF ListsFit, Fits

LEMMA InitFits == Init => IInv
<1> SUFFICES ASSUME Init PROVE IInv
  OBVIOUS
<1>1. DOMAIN <<>> = {} /\ \A S : <<>> \in Seq(S)
  OBVIOUS
<1>2. Built("en") \in [Tiles -> Langs \cup {"worn"}]
  BY DEF Built, Langs
<1>3. TypeOK
  BY <1>1, <1>2 DEF Init, TypeOK, Store, Langs
<1>4. HomeFirst(inner) /\ DownShut(inner) /\ ListsFit /\ ~Chosen /\ ~On(inner, "categories")
  BY <1>1 DEF Init, HomeFirst, DownShut, ListsFit, Chosen, On
<1>5. QED BY <1>3, <1>4 DEF IInv, Init, Localised, TilesFit
(* What DownShutsTiles says of a step.                                     *)
Shuts ==
  On(inner, "down") /\ running' =>
    /\ On(inner', "down")
    /\ Len(outer') > Len(outer) =>
         outer'[Len(outer')] = DetailPage \/ outer'[Len(outer')].by = "message"

(* A step on the inner navigator that pushes neither login nor Categories  *)
(* and takes no down dialog away.                                          *)
LEMMA InnerOnly ==
  ASSUME IInv, running, UNCHANGED <<running, disk, mem, locale, notified, outer, tiles>>,
         awaiting' \subseteq {"notes", "mall"}, Stacked(inner'),
         \A r : r \notin Overlays /\ On(inner', r) => On(inner, r),
         On(inner, "down") => On(inner', "down")
  PROVE  IInv' /\ Shuts
<1>1. TypeOK' /\ HomeFirst(inner') /\ DownShut(inner')
  BY DEF IInv, TypeOK, Stacked
<1>2. "login" \notin Overlays /\ "categories" \notin Overlays
  BY DEF Overlays, Dialogs
<1>3. Localised' /\ TilesFit'
  BY <1>2 DEF IInv, Localised, TilesFit, Chosen
<1>4. ListsFit'
  BY ListsFitKept DEF IInv
<1>5. Shuts
  <2>1. Len(outer) \in Nat
    BY LenProperties DEF IInv, TypeOK
  <2>2. QED BY <2>1 DEF Shuts
<1>6. QED BY <1>1, <1>3, <1>4, <1>5 DEF IInv

(* A step that leaves both navigators and the language alone.              *)
LEMMA NoRoutes ==
  ASSUME IInv, UNCHANGED <<running, mem, locale, notified, inner, outer>>,
         TypeOK', TilesFit', ~running => awaiting' = {}
  PROVE  IInv' /\ Shuts
<1>1. HomeFirst(inner') /\ DownShut(inner') /\ Localised'
  BY DEF IInv, Localised, Chosen
<1>2. ListsFit'
  BY ListsFitKept DEF IInv
<1>3. Shuts
  <2>1. Len(outer) \in Nat
    BY LenProperties DEF IInv, TypeOK
  <2>2. QED BY <2>1 DEF Shuts
<1>4. QED BY <1>1, <1>2, <1>3 DEF IInv

(* The language buttons.                                                   *)
LEMMA ChooseFits ==
  ASSUME IInv, NEW l \in Langs, ChooseLanguage(l)
  PROVE  IInv' /\ Shuts
<1>1. /\ running /\ running' = running /\ Visible("home")
      /\ mem' = [mem EXCEPT !.lang = l] /\ locale' = l /\ ~notified'
      /\ disk' = disk /\ outer' = outer /\ awaiting' = awaiting
      /\ PushLoginOrCategories(l)
  BY DEF ChooseLanguage
<1>2. mem' \in Store /\ mem'.lang = l
  BY <1>1 DEF IInv, TypeOK, Store
<1>3. Stacked(inner)
  BY DEF IInv, TypeOK, Stacked
<1>4. /\ ~On(inner, "down") /\ ~On(inner, "login") /\ ~On(inner, "categories")
      /\ outer = <<>>
  BY <1>1, <1>3, TopTells DEF Overlays, Dialogs
<1>5. \/ inner' = Append(inner, "categories") /\ tiles' = Built(l)
      \/ inner' = Append(inner, "login") /\ tiles' = tiles
  BY <1>1 DEF PushLoginOrCategories, PushCategories
<1>6. PICK r \in {"login", "categories"} :
        inner' = Append(inner, r) /\ (r = "categories" => tiles' = Built(l))
                                 /\ (r = "login" => tiles' = tiles)
  BY <1>5
<1>7. Stacked(inner') /\ \A x : x # r => (On(inner', x) <=> On(inner, x))
  <2>1. r \in InnerRoutes
    BY DEF InnerRoutes
  <2>2. inner' \in Seq(InnerRoutes) /\ Extends(inner, inner', {r})
    BY <1>3, <1>6, <2>1, Pushed DEF Stacked
  <2>3. {r} \subseteq {"login", "categories"}
    OBVIOUS
  <2>4. Stacked(inner') /\ \A x : x \notin {r} => (On(inner', x) <=> On(inner, x))
    BY <1>3, <1>4, <2>2, <2>3, StackedOver
  <2>5. QED BY <2>4
<1>8. Built(l) \in [Tiles -> Langs \cup {"worn"}] /\ \A t \in Tiles : Built(l)[t] = l
  BY DEF Built
<1>9. TypeOK'
  <2>1. tiles' \in [Tiles -> Langs \cup {"worn"}]
    BY <1>6, <1>8 DEF IInv, TypeOK
  <2>2. inner' \in Seq(InnerRoutes)
    BY <1>7 DEF Stacked
  <2>3. notified' \in BOOLEAN
    BY DEF ChooseLanguage
  <2>4. QED BY <1>1, <1>2, <2>1, <2>2, <2>3 DEF IInv, TypeOK
<1>10. Localised' /\ TilesFit'
  BY <1>1, <1>2, <1>4, <1>6, <1>7, <1>8 DEF Localised, TilesFit
<1>11. ListsFit' /\ Shuts
  BY <1>1, <1>4 DEF ListsFit, Shuts
<1>12. QED BY <1>1, <1>7, <1>9, <1>10, <1>11 DEF IInv, Stacked

(* The login button.                                                       *)
LEMMA LoginFits ==
  ASSUME IInv, Login
  PROVE  IInv' /\ Shuts
<1>1. /\ running /\ running' = running /\ Visible("login")
      /\ mem' = [mem EXCEPT !.pass = TRUE] /\ locale' = locale /\ notified' = notified
      /\ disk' = disk /\ outer' = outer /\ awaiting' = awaiting
      /\ inner' = Append(inner, "categories") /\ tiles' = Built(locale)
  BY DEF Login, PushCategories
<1>2. mem' \in Store /\ mem'.lang = mem.lang
  BY <1>1 DEF IInv, TypeOK, Store
<1>3. Stacked(inner)
  BY DEF IInv, TypeOK, Stacked
<1>4. ~On(inner, "down") /\ On(inner, "login") /\ outer = <<>>
  BY <1>1, <1>3, TopTells DEF Overlays, Dialogs
<1>5. Stacked(inner')
  <2>1. "categories" \in InnerRoutes
    BY DEF InnerRoutes
  <2>2. inner' \in Seq(InnerRoutes) /\ Extends(inner, inner', {"categories"})
    BY <1>1, <1>3, <2>1, Pushed DEF Stacked
  <2>3. {"categories"} \subseteq {"login", "categories"}
    OBVIOUS
  <2>4. QED BY <1>3, <1>4, <2>2, <2>3, StackedOver
<1>6. Built(locale) \in [Tiles -> Langs \cup {"worn"}] /\ \A t \in Tiles : Built(locale)[t] = locale
  BY DEF Built, IInv, TypeOK
<1>7. TypeOK'
  BY <1>1, <1>2, <1>5, <1>6 DEF IInv, TypeOK, Stacked
<1>8. locale = mem.lang \/ (locale = "en" /\ notified)
  BY <1>4 DEF IInv, Localised, Chosen
<1>9. Localised' /\ TilesFit'
  BY <1>1, <1>2, <1>6, <1>8 DEF Localised, TilesFit
<1>10. ListsFit' /\ Shuts
  BY <1>1, <1>4 DEF ListsFit, Shuts
<1>11. QED BY <1>1, <1>5, <1>7, <1>9, <1>10 DEF IInv, Stacked

(* A tile or its label opens a list: only where Categories is on top, so   *)
(* never above a down dialog.                                              *)
LEMMA OpenFits ==
  ASSUME IInv, NEW t \in Tiles, NEW c \in Classes, OpenCategory(t, c)
  PROVE  IInv' /\ Shuts
<1> DEFINE x == [kind |-> "list", class |-> c,
                 lang |-> IF tiles[t] = "ar" THEN "ar" ELSE "en",
                 by |-> IF tiles[t] = "worn" THEN "again" ELSE "tile"]
<1>1. /\ running /\ Visible("categories") /\ outer' = Append(outer, x)
      /\ tiles' = [tiles EXCEPT ![t] = IF @ = "ar" THEN "worn" ELSE @]
      /\ UNCHANGED <<running, disk, mem, locale, notified, inner, awaiting>>
  BY DEF OpenCategory
<1>2. On(inner, "categories") /\ ~On(inner, "down")
  <2>1. Stacked(inner)
    BY DEF IInv, TypeOK, Stacked
  <2>2. QED BY <1>1, <2>1, TopTells DEF Overlays, Dialogs
<1>3. tiles[t] \in Langs \cup {"worn"}
  BY DEF IInv, TypeOK
<1>4. x \in Lists
  BY DEF Lists, Langs
<1>5. Fits(x, mem.lang, notified)
  BY <1>2, <1>3 DEF Fits, IInv, TilesFit, Langs
<1> HIDE DEF x
<1>6. outer' \in Seq(Lists \cup {DetailPage}) /\ ListsFit'
  BY <1>1, <1>4, <1>5, ListsFitOver DEF IInv
<1>7. /\ tiles' \in [Tiles -> Langs \cup {"worn"}]
      /\ \A s \in Tiles : tiles'[s] \in Langs => tiles[s] = tiles'[s]
  BY <1>1 DEF IInv, TypeOK, Langs
<1>8. TypeOK'
  BY <1>1, <1>6, <1>7 DEF IInv, TypeOK
<1>9. Localised' /\ TilesFit'
  BY <1>1, <1>7 DEF IInv, Localised, TilesFit, Chosen, Langs
<1>10. QED BY <1>1, <1>2, <1>6, <1>8, <1>9 DEF IInv, Shuts

(* A list screen opens a page of its own.                                  *)
LEMMA PageFits ==
  ASSUME IInv, OpenPage
  PROVE  IInv' /\ Shuts
<1>1. /\ outer # <<>> /\ outer' = Append(outer, DetailPage)
      /\ UNCHANGED <<running, disk, mem, locale, notified, inner, tiles, awaiting>>
  BY DEF OpenPage
<1>2. running
  BY <1>1 DEF IInv
<1>3. Fits(DetailPage, mem.lang, notified)
  BY DEF Fits, DetailPage
<1>4. outer' \in Seq(Lists \cup {DetailPage}) /\ ListsFit'
  BY <1>1, <1>3, ListsFitOver DEF IInv
<1>5. outer'[Len(outer')] = DetailPage
  BY <1>1, Pushed DEF IInv, TypeOK
<1>6. TypeOK' /\ Localised' /\ TilesFit'
  BY <1>1, <1>4 DEF IInv, TypeOK, Localised, TilesFit, Chosen
<1>7. QED BY <1>1, <1>2, <1>4, <1>5, <1>6 DEF IInv, Shuts

(* A notification is tapped: everything becomes English, whatever is open. *)
LEMMA MessageFits ==
  ASSUME IInv, NEW c \in Classes, HandleMessage(c)
  PROVE  IInv' /\ Shuts
<1> DEFINE x == [kind |-> "list", class |-> c, lang |-> "en", by |-> "message"]
<1>1. /\ running /\ locale' = "en" /\ notified' = TRUE /\ tiles' = Built("en")
      /\ outer' = Append(outer, x) \/ outer' = outer
      /\ UNCHANGED <<running, disk, mem, inner, awaiting>>
  BY DEF HandleMessage
<1>2. x \in Lists /\ Fits(x, mem.lang, TRUE) /\ x.by = "message"
  BY DEF Lists, Fits, Langs
<1> HIDE DEF x
<1>3. outer' \in Seq(Lists \cup {DetailPage}) /\ ListsFit'
  <2>1. CASE outer' = outer
    BY <1>1, <2>1, ListsFitKept DEF IInv, TypeOK
  <2>2. CASE outer' = Append(outer, x)
    BY <1>1, <1>2, <2>2, ListsFitOver DEF IInv
  <2>3. QED BY <1>1, <2>1, <2>2
<1>4. Len(outer') > Len(outer) => outer'[Len(outer')].by = "message"
  <2>1. CASE outer' = outer
    <3>1. Len(outer) \in Nat
      BY LenProperties DEF IInv, TypeOK
    <3>2. QED BY <2>1, <3>1
  <2>2. CASE outer' = Append(outer, x)
    <3>1. outer'[Len(outer')] = x
      BY <1>2, <2>2, Pushed DEF IInv, TypeOK
    <3>2. QED BY <1>2, <3>1
  <2>3. QED BY <1>1, <2>1, <2>2
<1>5. Built("en") \in [Tiles -> Langs \cup {"worn"}] /\ \A t \in Tiles : Built("en")[t] = "en"
  BY DEF Built, Langs
<1>6. TypeOK'
  BY <1>1, <1>3, <1>5 DEF IInv, TypeOK, Langs
<1>7. Localised' /\ TilesFit'
  BY <1>1, <1>5 DEF Localised, TilesFit
<1>8. QED BY <1>1, <1>3, <1>4, <1>6, <1>7 DEF IInv, Shuts

(* The back key: a page or a list, or what is on top of the inner          *)
(* navigator unless it is home or a dialog.                                *)
LEMMA BackFits ==
  ASSUME IInv, Back
  PROVE  IInv' /\ Shuts
<1>1. CASE /\ outer # <<>> /\ outer' = SubSeq(outer, 1, Len(outer) - 1)
           /\ UNCHANGED <<running, disk, mem, locale, notified, inner, tiles, awaiting>>
  <2>1. /\ outer' \in Seq(Lists \cup {DetailPage}) /\ Shortens(outer, outer')
        /\ Len(outer') < Len(outer)
    BY <1>1, Popped DEF IInv, TypeOK
  <2>2. ListsFit'
    BY <1>1, <2>1 DEF IInv, ListsFit, Fits, Shortens
  <2>3. TypeOK' /\ Localised' /\ TilesFit'
    BY <1>1, <2>1 DEF IInv, TypeOK, Localised, TilesFit, Chosen
  <2>4. running
    BY <1>1 DEF IInv
  <2>5. Shuts
    <3>1. Len(outer) \in Nat /\ Len(outer') \in Nat
      BY <2>1, LenProperties DEF IInv, TypeOK
    <3>2. QED BY <1>1, <2>1, <3>1 DEF Shuts
  <2>6. QED BY <1>1, <2>2, <2>3, <2>4, <2>5 DEF IInv
<1>2. CASE /\ outer = <<>> /\ inner # <<>> /\ ~BackBlocked(inner[Len(inner)])
           /\ inner' = SubSeq(inner, 1, Len(inner) - 1)
           /\ awaiting' = AwaitingAfterPop
           /\ UNCHANGED <<running, disk, mem, locale, notified, outer, tiles>>
  <2>1. running /\ Stacked(inner)
    BY <1>2 DEF IInv, TypeOK, Stacked
  <2>2. inner' \in Seq(InnerRoutes) /\ Shortens(inner, inner')
    BY <1>2, <2>1, Popped DEF Stacked
  <2>3. /\ Stacked(inner')
        /\ \A r : (On(inner', r) => On(inner, r))
                  /\ (On(inner, r) /\ inner[Len(inner)] # r => On(inner', r))
    BY <2>1, <2>2, StackedUnder
  <2>4. inner[Len(inner)] # "down"
    BY <1>2 DEF BackBlocked, Dialogs
  <2>5. awaiting' \subseteq {"notes", "mall"}
    BY <1>2 DEF AwaitingAfterPop, IInv, TypeOK
  <2>6. QED BY <1>2, <2>1, <2>3, <2>4, <2>5, InnerOnly
<1>3. QED BY <1>1, <1>2 DEF Back

(* Every step keeps the invariant, and the tiles shut.                     *)
LEMMA NextFits == IInv /\ [Next]_vars => IInv' /\ Shuts
<1> SUFFICES ASSUME IInv, [Next]_vars PROVE IInv' /\ Shuts
  OBVIOUS
<1>0. Stacked(inner) /\ TypeOK /\ TilesFit
  BY DEF IInv, TypeOK, Stacked
<1>1. CASE UNCHANGED vars
  <2>1. TypeOK' /\ TilesFit' /\ (~running => awaiting' = {})
    BY <1>1 DEF vars, IInv, TypeOK, TilesFit
  <2>2. QED BY <1>1, <2>1, NoRoutes DEF vars
<1>2. CASE Start
  <2>1. /\ ~running /\ outer = <<>> /\ inner = <<>> /\ running' = TRUE /\ mem' = disk
        /\ locale' = "en" /\ notified' = FALSE /\ inner' = <<"home">>
        /\ UNCHANGED <<disk, outer, tiles, awaiting>>
    BY <1>2 DEF Start, IInv
  <2>2. <<"home">> \in Seq(InnerRoutes) /\ DOMAIN <<"home">> = {1} /\ <<"home">>[1] = "home"
    BY DEF InnerRoutes
  <2>3. HomeFirst(inner') /\ DownShut(inner')
    BY <2>1, <2>2 DEF HomeFirst, DownShut
  <2>4. Localised' /\ TilesFit'
    BY <2>1, <2>2 DEF Localised, TilesFit, Chosen, On
  <2>5. ListsFit' /\ Shuts
    BY <2>1 DEF ListsFit, Shuts, On
  <2>6. TypeOK'
    BY <1>0, <2>1, <2>2 DEF TypeOK, Langs
  <2>7. QED BY <2>1, <2>3, <2>4, <2>5, <2>6 DEF IInv
<1>3. CASE Flush
  <2>1. TypeOK' /\ TilesFit' /\ (~running => awaiting' = {})
    BY <1>0, <1>3 DEF Flush, TypeOK, TilesFit
  <2>2. QED BY <1>3, <2>1, NoRoutes DEF Flush
<1>4. CASE Stop
  <2>1. /\ ~running' /\ running' = FALSE /\ inner' = <<>> /\ outer' = <<>> /\ awaiting' = {}
        /\ UNCHANGED <<disk, mem, locale, notified, tiles>>
    BY <1>4 DEF Stop
  <2>2. DOMAIN <<>> = {} /\ \A S : <<>> \in Seq(S)
    OBVIOUS
  <2>3. HomeFirst(inner') /\ DownShut(inner') /\ Localised' /\ TilesFit' /\ ListsFit'
    BY <2>1, <2>2 DEF HomeFirst, DownShut, Localised, TilesFit, ListsFit, Chosen, On
  <2>4. TypeOK'
    BY <1>0, <2>1, <2>2 DEF TypeOK
  <2>5. QED BY <2>1, <2>3, <2>4 DEF IInv, Shuts
<1>5. CASE Login
  BY <1>5, LoginFits
<1>6. CASE RebuildTiles
  <2>1. /\ running /\ On(inner, "categories") /\ tiles' = Built(locale)
        /\ UNCHANGED <<running, disk, mem, locale, notified, inner, outer, awaiting>>
    BY <1>6 DEF RebuildTiles, OnInner, On
  <2>2. /\ Built(locale) \in [Tiles -> Langs \cup {"worn"}]
        /\ \A t \in Tiles : Built(locale)[t] = locale
    BY <1>0 DEF Built, TypeOK
  <2>3. locale = mem.lang \/ (locale = "en" /\ notified)
    BY <2>1 DEF IInv, Localised, Chosen
  <2>4. TypeOK' /\ TilesFit'
    BY <1>0, <2>1, <2>2, <2>3 DEF TypeOK, TilesFit
  <2>5. QED BY <2>1, <2>4, NoRoutes
<1>7. CASE TapNotes \/ TapMall \/ SignInFailed
  <2>1. /\ awaiting' \subseteq {"notes", "mall"} /\ (~running => awaiting' = {})
        /\ UNCHANGED <<running, disk, mem, locale, notified, inner, outer, tiles>>
    BY <1>0, <1>7 DEF TapNotes, TapMall, Ask, SignInFailed, TypeOK, IInv
  <2>2. TypeOK' /\ TilesFit'
    BY <1>0, <2>1 DEF TypeOK, TilesFit
  <2>3. QED BY <2>1, <2>2, NoRoutes
<1>8. CASE SignedIn
  <2>1. /\ running /\ inner' = Append(inner, "notes") /\ awaiting' \subseteq {"notes", "mall"}
        /\ UNCHANGED <<running, disk, mem, locale, notified, outer, tiles>>
    BY <1>0, <1>8 DEF SignedIn, IInv, TypeOK
  <2>2. "notes" \in InnerRoutes /\ {"notes"} \subseteq Overlays
    BY DEF InnerRoutes, Overlays
  <2>3. inner' \in Seq(InnerRoutes) /\ Extends(inner, inner', {"notes"})
    BY <1>0, <2>1, <2>2, Pushed DEF Stacked
  <2>4. /\ Stacked(inner') /\ \A r : r \notin {"notes"} => (On(inner', r) <=> On(inner, r))
        /\ \A r : On(inner, r) => On(inner', r)
    BY <1>0, <2>2, <2>3, StackedOver
  <2>5. QED BY <2>1, <2>2, <2>4, InnerOnly
<1>9. CASE MallSnapshot
  <2>1. PICK k \in 1..MaxInner : inner' = inner \o [i \in 1..k |-> "mall"]
    BY <1>9 DEF MallSnapshot
  <2>2. /\ running /\ awaiting' \subseteq {"notes", "mall"}
        /\ UNCHANGED <<running, disk, mem, locale, notified, outer, tiles>>
    BY <1>0, <1>9 DEF MallSnapshot, IInv, TypeOK
  <2>3. "mall" \in InnerRoutes /\ {"mall"} \subseteq Overlays /\ k \in Nat
    BY BoundsAssumption DEF InnerRoutes, Overlays
  <2>4. inner' \in Seq(InnerRoutes) /\ Extends(inner, inner', {"mall"})
    BY <1>0, <2>1, <2>3, PushedAll DEF Stacked
  <2>5. /\ Stacked(inner') /\ \A r : r \notin {"mall"} => (On(inner', r) <=> On(inner, r))
        /\ \A r : On(inner, r) => On(inner', r)
    BY <1>0, <2>3, <2>4, StackedOver
  <2>6. QED BY <2>2, <2>3, <2>5, InnerOnly
<1>10. CASE OpenPage
  BY <1>10, PageFits
<1>11. CASE PressUpdate
  <2>1. /\ Visible("update") /\ inner' = SubSeq(inner, 1, Len(inner) - 1)
        /\ UNCHANGED <<running, disk, mem, locale, notified, outer, tiles, awaiting>>
    BY <1>11 DEF PressUpdate
  <2>2. inner # <<>> /\ inner[Len(inner)] = "update" /\ running
    BY <2>1 DEF Visible, IInv
  <2>3. inner' \in Seq(InnerRoutes) /\ Shortens(inner, inner')
    BY <1>0, <2>1, <2>2, Popped DEF Stacked
  <2>4. /\ Stacked(inner')
        /\ \A r : (On(inner', r) => On(inner, r))
                  /\ (On(inner, r) /\ inner[Len(inner)] # r => On(inner', r))
    BY <1>0, <2>3, StackedUnder
  <2>5. awaiting' \subseteq {"notes", "mall"}
    BY <1>0, <2>1 DEF TypeOK
  <2>6. QED BY <2>1, <2>2, <2>4, <2>5, InnerOnly
<1>12. CASE Back
  BY <1>12, BackFits
<1>13. ASSUME NEW l \in Langs, ChooseLanguage(l)
       PROVE  IInv' /\ Shuts
  BY <1>13, ChooseFits
<1>14. ASSUME NEW t \in Tiles, TapTile(t) \/ TapLabel(t)
       PROVE  IInv' /\ Shuts
  <2>1. PICK c \in Classes : OpenCategory(t, c)
    BY <1>14 DEF TapTile, TapLabel, TileClass, LabelClass, Classes
  <2>2. QED BY <2>1, OpenFits
<1>15. ASSUME NEW c \in Classes, HandleMessage(c)
       PROVE  IInv' /\ Shuts
  BY <1>15, MessageFits
<1>16. ASSUME NEW d \in Dialogs, ConfigDialog(d)
       PROVE  IInv' /\ Shuts
  <2>1. /\ running /\ inner' = Append(inner, d)
        /\ UNCHANGED <<running, disk, mem, locale, notified, outer, tiles, awaiting>>
    BY <1>16 DEF ConfigDialog
  <2>2. d \in InnerRoutes /\ {d} \subseteq Overlays
    BY DEF InnerRoutes, Overlays
  <2>3. inner' \in Seq(InnerRoutes) /\ Extends(inner, inner', {d})
    BY <1>0, <2>1, <2>2, Pushed DEF Stacked
  <2>4. /\ Stacked(inner') /\ \A r : r \notin {d} => (On(inner', r) <=> On(inner, r))
        /\ \A r : On(inner, r) => On(inner', r)
    BY <1>0, <2>2, <2>3, StackedOver
  <2>5. awaiting' \subseteq {"notes", "mall"}
    BY <1>0, <2>1 DEF TypeOK
  <2>6. QED BY <2>1, <2>2, <2>4, <2>5, InnerOnly
<1>17. QED
  BY <1>1, <1>2, <1>3, <1>4, <1>5, <1>6, <1>7, <1>8, <1>9, <1>10, <1>11, <1>12, <1>13,
     <1>14, <1>15, <1>16 DEF Next

(* The invariant holds in every state.                                     *)
LEMMA AlwaysFits == Spec => []IInv
<1>1. IInv /\ [Next]_vars => IInv'
  BY NextFits
<1>2. QED BY <1>1, InitFits, PTL DEF Spec

-----------------------------------------------------------------------------
(* The variables keep their types, however deep the navigators are.        *)
THEOREM TypeCorrect == Spec => []TypeOK
<1>1. IInv => TypeOK
  BY DEF IInv
<1>2. QED BY <1>1, AlwaysFits, PTL

(* A list opened in Arabic is searched by its Arabic index: the language   *)
(* stored when it is open is the one its tile was named in.                *)
THEOREM ArabicSearched == Spec => []ArabicListSearchedInArabic
<1>1. IInv => ArabicListSearchedInArabic
  BY DEF IInv, ListsFit, Fits, ArabicListSearchedInArabic
<1>2. QED BY <1>1, AlwaysFits, PTL

(* An English list is searched by the Arabic index only after a            *)
(* notification switched the locale, or a tile was tapped again.           *)
THEOREM EnglishExplained == Spec => []EnglishListExplained
<1>1. IInv => EnglishListExplained
  BY DEF IInv, ListsFit, Fits, EnglishListExplained
<1>2. QED BY <1>1, AlwaysFits, PTL

(* Under the down dialog no category opens until the process ends.         *)
THEOREM DownShuts == Spec => DownShutsTiles
<1>1. IInv /\ [Next]_vars =>
        [OnInner("down") /\ running' =>
           /\ OnInner("down")'
           /\ Len(outer') > Len(outer) =>
                outer'[Len(outer')] = DetailPage \/ outer'[Len(outer')].by = "message"]_vars
  BY NextFits DEF Shuts, On, OnInner
<1>2. QED BY <1>1, AlwaysFits, PTL DEF Spec, DownShutsTiles

-----------------------------------------------------------------------------
(* The dialogs of the start.  AppShell lets any of them appear; UpdateGate *)
(* says when the version dialog does.  It is another machine beside this   *)
(* one, over variables of its own.                                         *)
CONSTANTS DefaultUpdate, FirstBuild, MaxVersion
VARIABLES build, published, doc, fetched, recent, active, phase, askedAt, docPhase, dialogs, told

Gate == INSTANCE UpdateGate

(* No more dialogs than this process has answers: one of the check, one of *)
(* the document; a process that is down shows none.                        *)
DialogsFit ==
  /\ Len(dialogs) <= (IF phase = "compared" THEN 1 ELSE 0) + (IF docPhase = "done" THEN 1 ELSE 0)
  /\ phase = "stopped" => docPhase = "done" /\ dialogs = <<>>

Shown == Seq({"down", "update", "version"})

(* What a step of the gate does to the types and the dialogs.              *)
LEMMA GateSteps ==
  ASSUME Gate!VersionsAssumption, Gate!TypeOK, DialogsFit, [Gate!Next]_Gate!vars
  PROVE  Gate!TypeOK' /\ DialogsFit'
<1>1. /\ DefaultUpdate \in Int /\ MaxVersion \in Int
      /\ build \in Int /\ published \in Int /\ askedAt \in Int
      /\ Gate!Versions = DefaultUpdate..MaxVersion
      /\ build \in Gate!Versions /\ published \in Gate!Versions /\ fetched \in Gate!Versions
      /\ active \in Gate!Versions /\ askedAt \in Gate!Versions
  BY DEF Gate!VersionsAssumption, Gate!TypeOK, Gate!Versions
<1>2. dialogs \in Shown /\ Len(dialogs) \in Nat
  BY LenProperties DEF Gate!TypeOK, Shown
<1>3. CASE UNCHANGED Gate!vars
  BY <1>3 DEF Gate!TypeOK, DialogsFit, Gate!vars
<1>4. CASE Gate!Publish
  <2>1. published' \in Gate!Versions
    BY <1>1, <1>4 DEF Gate!Publish
  <2>2. QED BY <1>4, <2>1 DEF Gate!TypeOK, DialogsFit, Gate!Publish, Gate!device
<1>5. CASE Gate!SwitchDoc \/ Gate!HourPasses \/ Gate!Start
  <2>1. CASE Gate!SwitchDoc
    BY <2>1 DEF Gate!TypeOK, DialogsFit, Gate!SwitchDoc, Gate!device
  <2>2. CASE Gate!HourPasses
    BY <2>2 DEF Gate!TypeOK, DialogsFit, Gate!HourPasses, Gate!server
  <2>3. CASE Gate!Start
    <3>1. askedAt' \in Gate!Versions
      BY <1>1, <2>3 DEF Gate!Start
    <3>2. dialogs' = <<>> /\ Len(dialogs') = 0 /\ phase' = "fetching" /\ docPhase' = "waiting"
      BY <2>3 DEF Gate!Start, DialogsFit
    <3>3. QED BY <2>3, <3>1, <3>2 DEF Gate!TypeOK, DialogsFit, Gate!Start, Gate!device, Gate!server
  <2>4. QED BY <1>5, <2>1, <2>2, <2>3
<1>6. CASE Gate!Stop
  <2>1. build' \in Gate!Versions
    BY <1>1, <1>6 DEF Gate!Stop
  <2>2. dialogs' = <<>> /\ dialogs' \in Shown /\ Len(dialogs') = 0
    BY <1>6 DEF Gate!Stop, Shown
  <2>3. /\ phase' = "stopped" /\ docPhase' = "done" /\ told' \in BOOLEAN
        /\ recent' = recent /\ doc' = doc
        /\ {build', published', fetched', active', askedAt'} \subseteq Gate!Versions
    BY <1>1, <1>6, <2>1 DEF Gate!Stop, Gate!server
  <2>4. QED BY <2>2, <2>3 DEF Gate!TypeOK, DialogsFit, Shown
<1>7. CASE Gate!FetchFromServer
  <2>1. fetched' \in Gate!Versions
    BY <1>1, <1>7 DEF Gate!FetchFromServer
  <2>2. QED BY <1>7, <2>1 DEF Gate!TypeOK, DialogsFit, Gate!FetchFromServer, Gate!server
<1>8. CASE Gate!FetchFromDevice \/ Gate!FetchFails
  BY <1>8 DEF Gate!TypeOK, DialogsFit, Gate!FetchFromDevice, Gate!FetchFails,
              Gate!device, Gate!server
<1>9. CASE Gate!ActivateAndCompare
  <2>1. dialogs' \in Shown /\ Len(dialogs') <= Len(dialogs) + 1 /\ Len(dialogs') \in Nat
    <3>1. \/ dialogs' = dialogs /\ told' = told
          \/ dialogs' = Append(dialogs, "version") /\ told' = TRUE
      BY <1>9 DEF Gate!ActivateAndCompare
    <3>2. Append(dialogs, "version") \in Shown
          /\ Len(Append(dialogs, "version")) = Len(dialogs) + 1
      BY <1>2, Pushed DEF Shown
    <3>3. CASE dialogs' = dialogs
      BY <1>2, <3>3
    <3>4. CASE dialogs' = Append(dialogs, "version")
      BY <1>2, <3>2, <3>4
    <3>5. QED BY <3>1, <3>3, <3>4
  <2>2. told' \in BOOLEAN
    BY <1>9, Zenon DEF Gate!ActivateAndCompare, Gate!TypeOK
  <2>3. QED BY <1>2, <1>9, <2>1, <2>2 DEF Gate!TypeOK, DialogsFit, Gate!ActivateAndCompare,
                                    Gate!server, Shown
<1>10. CASE Gate!DocArrives
  <2>1. dialogs' \in Shown /\ Len(dialogs') <= Len(dialogs) + 1 /\ Len(dialogs') \in Nat
    <3>1. \/ dialogs' = dialogs
          \/ \E d \in {"down", "update", "version"} : dialogs' = Append(dialogs, d)
      BY <1>10 DEF Gate!DocArrives
    <3>2. QED BY <1>2, <3>1, Pushed DEF Shown
  <2>2. QED BY <1>2, <1>10, <2>1 DEF Gate!TypeOK, DialogsFit, Gate!DocArrives,
                                     Gate!device, Gate!server, Shown
<1>11. CASE Gate!DocFails
  BY <1>2, <1>11 DEF Gate!TypeOK, DialogsFit, Gate!DocFails, Gate!device, Gate!server
<1>12. CASE Gate!PressUpdate
  <2>1. /\ dialogs # <<>> /\ dialogs' \in Shown
        /\ Len(dialogs') < Len(dialogs) /\ Len(dialogs') \in Nat
    BY <1>2, <1>12, Popped, LenProperties DEF Gate!PressUpdate, Shown
  <2>2. QED BY <1>2, <1>12, <2>1 DEF Gate!TypeOK, DialogsFit, Gate!PressUpdate,
                                     Gate!device, Gate!server, Shown
<1>13. QED BY <1>3, <1>4, <1>5, <1>6, <1>7, <1>8, <1>9, <1>10, <1>11, <1>12 DEF Gate!Next

(* Type correctness of the update gate, with at most two of its dialogs on *)
(* each other, for any default and any versions.                           *)
THEOREM GateTypes == Gate!VersionsAssumption => (Gate!Spec => [](Gate!TypeOK /\ DialogsFit))
<1>1. ASSUME Gate!VersionsAssumption
      PROVE  Gate!Spec => [](Gate!TypeOK /\ DialogsFit)
  <2>1. Gate!Init => Gate!TypeOK /\ DialogsFit
    <3>1. SUFFICES ASSUME Gate!Init PROVE Gate!TypeOK /\ DialogsFit
      OBVIOUS
    <3>2. {build, published, fetched, active, askedAt} \subseteq Gate!Versions
      BY <1>1, <3>1 DEF Gate!VersionsAssumption, Gate!Versions, Gate!Init
    <3>3. dialogs = <<>> /\ dialogs \in Seq({"down", "update", "version"}) /\ Len(dialogs) = 0
      BY <3>1 DEF Gate!Init
    <3>4. /\ phase = "stopped" /\ docPhase = "done" /\ recent = FALSE /\ told = FALSE
          /\ doc = [down |-> FALSE, update |-> FALSE]
      BY <3>1 DEF Gate!Init
    <3>5. doc \in [down : BOOLEAN, update : BOOLEAN] /\ recent \in BOOLEAN /\ told \in BOOLEAN
      BY <3>4
    <3>6. QED BY <3>2, <3>3, <3>4, <3>5 DEF Gate!TypeOK, DialogsFit
  <2>2. Gate!TypeOK /\ DialogsFit /\ [Gate!Next]_Gate!vars => (Gate!TypeOK /\ DialogsFit)'
    BY <1>1, GateSteps
  <2>3. QED BY <2>1, <2>2, PTL DEF Gate!Spec
<1>2. QED BY <1>1
=============================================================================
