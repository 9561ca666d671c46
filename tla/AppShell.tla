------------------------------ MODULE AppShell ------------------------------
(***************************************************************************)
(* The app around the list screens: language and login kept in GetStorage  *)
(* (main.dart, loginpage.dart), the category tiles (categories.dart),      *)
(* notification taps (notification_services.dart) and the two navigators.  *)
(*                                                                         *)
(* MyApp nests a MaterialApp inside GetMaterialApp.  Home, login, the      *)
(* categories, and what these push with Navigator.push, live on the inner  *)
(* navigator; Get.to pushes on the outer one, which covers the inner.      *)
(* What happens inside a list screen is the subject of OfferDetails: here  *)
(* any page it opens is "page".  UpdateGate says which startup dialogs     *)
(* appear; here any may.                                                   *)
(***************************************************************************)
EXTENDS Naturals, Sequences

CONSTANTS
  Tiles,         \* the categories that open a list
  Restaurants,   \* the tile whose list also has menus
  MaxInner,      \* bound: routes on the inner navigator
  MaxOuter       \* bound: routes on the outer navigator

ASSUME RestaurantsAssumption == Restaurants \in Tiles
ASSUME BoundsAssumption == MaxInner \in Nat /\ MaxOuter \in Nat

VARIABLES
  running,    \* the process is alive
  disk,       \* GetStorage's file
  mem,        \* GetStorage's copy in memory
  locale,     \* Get.locale
  notified,   \* a notification switched the locale since the last choice
  inner,      \* routes of the inner navigator, the top one last
  outer,      \* routes of the outer navigator above MyApp, the top one last
  tiles,      \* the name each built tile of Categories holds
  awaiting    \* what may still push from Categories: "notes", "mall"

vars == <<running, disk, mem, locale, notified, inner, outer, tiles, awaiting>>

Langs   == {"en", "ar"}
Store   == [lang : Langs \cup {"none"}, pass : BOOLEAN]
Classes == {"OffersList", "ResCafeOffersList"}
Dialogs == {"down", "update"}
InnerRoutes == {"home", "login", "categories", "notes", "mall"} \cup Dialogs

(* A list screen: its class, the language its name and name field came in, *)
(* and what opened it: a tile, a tile already used once, a notification.   *)
Lists ==
  [kind : {"list"}, class : Classes, lang : Langs, by : {"tile", "again", "message"}]
DetailPage == [kind |-> "page"]

TypeOK ==
  /\ running \in BOOLEAN
  /\ disk \in Store /\ mem \in Store
  /\ locale \in Langs
  /\ notified \in BOOLEAN
  /\ inner \in Seq(InnerRoutes)
  /\ outer \in Seq(Lists \cup {DetailPage})
  /\ tiles \in [Tiles -> Langs \cup {"worn"}]
  /\ awaiting \subseteq {"notes", "mall"}

OnInner(r) == \E i \in DOMAIN inner : inner[i] = r
Visible(r) == outer = <<>> /\ inner # <<>> /\ inner[Len(inner)] = r

Built(l) == [t \in Tiles |-> l]

Init ==
  /\ running = FALSE
  /\ disk = [lang |-> "none", pass |-> FALSE] /\ mem = disk
  /\ locale = "en" /\ notified = FALSE
  /\ inner = <<>> /\ outer = <<>>
  /\ tiles = Built("en")
  /\ awaiting = {}

-----------------------------------------------------------------------------
(* A definition named X_Y beside a definition X is X with a plausible slip *)
(* in it.  No specification uses it: it stands for the mistake that some   *)
(* property below is there to notice.                                      *)
(* main: GetStorage.init reads the file; the locale is always English,     *)
(* whatever was chosen last time.                                          *)
Start ==
  /\ ~running
  /\ running' = TRUE
  /\ mem' = disk
  /\ locale' = "en" /\ notified' = FALSE
  /\ inner' = <<"home">>
  /\ UNCHANGED <<disk, outer, tiles, awaiting>>

(* GetStorage.write changes memory at once and the file later; nothing     *)
(* awaits it.                                                              *)
Flush ==
  /\ running
  /\ disk' = mem
  /\ UNCHANGED <<running, mem, locale, notified, inner, outer, tiles, awaiting>>

(* The process ends, by the user leaving home or by the system.            *)
Stop ==
  /\ running
  /\ running' = FALSE
  /\ inner' = <<>> /\ outer' = <<>> /\ awaiting' = {}
  /\ UNCHANGED <<disk, mem, locale, notified, tiles>>

PushCategories_OldLocale(l) ==
  /\ inner' = Append(inner, "categories")
  /\ tiles' = Built(locale)

(* Categories, pushed with tiles named in language l.                      *)
PushCategories(l) ==
  /\ inner' = Append(inner, "categories")
  /\ tiles' = Built(l)

(* getvalidation: the stored password decides.                             *)
PushLoginOrCategories(l) ==
  IF mem.pass
    THEN PushCategories(l)
    ELSE inner' = Append(inner, "login") /\ UNCHANGED tiles

ChooseLanguage_KeepStored(l) ==
  /\ running
  /\ Visible("home")
  /\ mem' = IF mem.lang = "none" THEN [mem EXCEPT !.lang = l] ELSE mem
  /\ locale' = l /\ notified' = FALSE
  /\ PushLoginOrCategories(l)
  /\ UNCHANGED <<running, disk, outer, awaiting>>

(* A language button of the home screen.                                   *)
ChooseLanguage(l) ==
  /\ running
  /\ Visible("home")
  /\ mem' = [mem EXCEPT !.lang = l]
  /\ locale' = l /\ notified' = FALSE
  /\ PushLoginOrCategories(l)
  /\ UNCHANGED <<running, disk, outer, awaiting>>

(* The login button with the right name and password; a wrong one only     *)
(* shows a toast.                                                          *)
Login ==
  /\ running
  /\ Visible("login")
  /\ mem' = [mem EXCEPT !.pass = TRUE]
  /\ PushCategories(locale)
  /\ UNCHANGED <<running, disk, locale, notified, outer, awaiting>>

-----------------------------------------------------------------------------
(* The tile opens the menu-bearing screen for restaurants; its label opens *)
(* the plain one for every category.                                       *)
TileClass(t)  == IF t = Restaurants THEN "ResCafeOffersList" ELSE "OffersList"
LabelClass(t) == "OffersList"

(* Both taps test the captured name and, if it is Arabic, replace it by    *)
(* the English one before opening the Arabic list: until the tile is built *)
(* again, it is English.                                                   *)
OpenCategory(t, c) ==
  /\ running
  /\ Visible("categories")
  /\ Len(outer) < MaxOuter
  /\ outer' = Append(outer, [kind |-> "list", class |-> c,
                             lang |-> IF tiles[t] = "ar" THEN "ar" ELSE "en",
                             by |-> IF tiles[t] = "worn" THEN "again" ELSE "tile"])
  /\ tiles' = [tiles EXCEPT ![t] = IF @ = "ar" THEN "worn" ELSE @]
  /\ UNCHANGED <<running, disk, mem, locale, notified, inner, awaiting>>

TapTile(t)  == OpenCategory(t, TileClass(t))
TapLabel(t) == OpenCategory(t, LabelClass(t))

(* Flutter builds Categories again for reasons of its own.                 *)
RebuildTiles ==
  /\ running
  /\ OnInner("categories")
  /\ tiles' = Built(locale)
  /\ UNCHANGED <<running, disk, mem, locale, notified, inner, outer, awaiting>>

(* The Notes button of Categories signs in and then pushes the form; the   *)
(* Baraka Mall tile and its label start a listener that is never cancelled *)
(* and pushes pages on every snapshot.  Both use Categories' own context.  *)
Ask(what) ==
  /\ running
  /\ Visible("categories")
  /\ awaiting' = awaiting \cup {what}
  /\ UNCHANGED <<running, disk, mem, locale, notified, inner, outer, tiles>>

TapNotes == Ask("notes")
TapMall  == Ask("mall")

(* While Categories is mounted, covered or not, an answer pushes.          *)
SignedIn ==
  /\ "notes" \in awaiting
  /\ Len(inner) < MaxInner
  /\ inner' = Append(inner, "notes")
  /\ \E left \in {awaiting, awaiting \ {"notes"}} : awaiting' = left
  /\ UNCHANGED <<running, disk, mem, locale, notified, outer, tiles>>

SignInFailed ==
  /\ "notes" \in awaiting
  /\ awaiting' = awaiting \ {"notes"}
  /\ UNCHANGED <<running, disk, mem, locale, notified, inner, outer, tiles>>

MallSnapshot ==
  /\ "mall" \in awaiting
  /\ \E k \in 1..MaxInner :
       /\ Len(inner) + k <= MaxInner
       /\ inner' = inner \o [i \in 1..k |-> "mall"]
  /\ UNCHANGED <<running, disk, mem, locale, notified, outer, tiles, awaiting>>

-----------------------------------------------------------------------------
OnTop(c) == outer # <<>> /\ outer[Len(outer)].kind = "list" /\ outer[Len(outer)].class = c

(* Get.to drops a page of the class it takes to be the current one; below  *)
(* a dialog (a "page" here) that may be the list the dialog was opened on. *)
UnderPages(c) ==
  \E i \in DOMAIN outer :
    /\ outer[i].kind = "list" /\ outer[i].class = c
    /\ \A j \in (i + 1)..Len(outer) : outer[j] = DetailPage

(* A notification for a category is tapped: English, at once and           *)
(* everywhere, and its list on the outer navigator wherever the user is.   *)
(* The stored language stays what it was.                                  *)
HandleMessage(c) ==
  /\ running
  /\ locale' = "en" /\ notified' = TRUE
  /\ tiles' = Built("en")
  /\ \/ /\ ~OnTop(c)
        /\ Len(outer) < MaxOuter
        /\ outer' = Append(outer, [kind |-> "list", class |-> c, lang |-> "en", by |-> "message"])
     \/ UnderPages(c) /\ UNCHANGED outer
  /\ UNCHANGED <<running, disk, mem, inner, awaiting>>

(* A list screen opens a page (see OfferDetails).                          *)
OpenPage ==
  /\ outer # <<>>
  /\ Len(outer) < MaxOuter
  /\ outer' = Append(outer, DetailPage)
  /\ UNCHANGED <<running, disk, mem, locale, notified, inner, tiles, awaiting>>

ConfigDialog_BelowPages(d) ==
  /\ running
  /\ Len(inner) < MaxInner
  /\ inner' = <<Head(inner), d>> \o Tail(inner)
  /\ UNCHANGED <<running, disk, mem, locale, notified, outer, tiles, awaiting>>

(* A startup dialog (see UpdateGate), over whatever is there by then.      *)
ConfigDialog(d) ==
  /\ running
  /\ Len(inner) < MaxInner
  /\ inner' = Append(inner, d)
  /\ UNCHANGED <<running, disk, mem, locale, notified, outer, tiles, awaiting>>

(* The button of the update dialog closes it.                              *)
PressUpdate ==
  /\ Visible("update")
  /\ inner' = SubSeq(inner, 1, Len(inner) - 1)
  /\ UNCHANGED <<running, disk, mem, locale, notified, outer, tiles, awaiting>>

(* The startup dialogs ignore the back key; leaving home is Stop.          *)
BackBlocked(r) == r = "home" \/ r \in Dialogs

(* Popping Categories unmounts the context its Notes and Mall callbacks    *)
(* captured: what they push later throws and is dropped.                   *)
AwaitingAfterPop == IF Visible("categories") THEN {} ELSE awaiting

Back ==
  \/ /\ outer # <<>>
     /\ outer' = SubSeq(outer, 1, Len(outer) - 1)
     /\ UNCHANGED <<running, disk, mem, locale, notified, inner, tiles, awaiting>>
  \/ /\ outer = <<>> /\ inner # <<>>
     /\ ~BackBlocked(inner[Len(inner)])
     /\ inner' = SubSeq(inner, 1, Len(inner) - 1)
     /\ awaiting' = AwaitingAfterPop
     /\ UNCHANGED <<running, disk, mem, locale, notified, outer, tiles>>

-----------------------------------------------------------------------------
Next ==
  \/ Start \/ Flush \/ Stop \/ Login \/ RebuildTiles
  \/ TapNotes \/ SignedIn \/ SignInFailed
  \/ TapMall \/ MallSnapshot
  \/ OpenPage \/ PressUpdate \/ Back
  \/ \E l \in Langs : ChooseLanguage(l)
  \/ \E t \in Tiles : TapTile(t) \/ TapLabel(t)
  \/ \E c \in Classes : HandleMessage(c)
  \/ \E d \in Dialogs : ConfigDialog(d)

Spec == Init /\ [][Next]_vars

-----------------------------------------------------------------------------
(* A list opened in Arabic is searched by its Arabic index: Database       *)
(* chooses the index by the stored language, not by the list's, and the    *)
(* two were set at different times by different screens.                   *)
ArabicListSearchedInArabic ==
  \A i \in DOMAIN outer :
    outer[i].kind = "list" /\ outer[i].lang = "ar" => mem.lang = "ar"

(* An English list is searched by the Arabic index only in the two ways    *)
(* the code leaves open: a notification switched the locale but not the    *)
(* stored language, or a tile was tapped again before it was rebuilt.      *)
EnglishListExplained ==
  \A i \in DOMAIN outer :
    outer[i].kind = "list" /\ outer[i].lang = "en" /\ mem.lang = "ar" =>
      notified \/ outer[i].by = "again"

(* Whatever the startup checks, the listeners and the back key stack on    *)
(* the down dialog or take off it, it stays while the process lives and no *)
(* category can be opened: only notifications still lead to a list.        *)
DownShutsTiles ==
  [][OnInner("down") /\ running' =>
       /\ OnInner("down")'
       /\ Len(outer') > Len(outer) =>
            outer'[Len(outer')] = DetailPage \/ outer'[Len(outer')].by = "message"]_vars
=============================================================================
