----------------------------- MODULE UpdateGate -----------------------------
(***************************************************************************)
(* What stands between an outdated or suspended app and its user: the      *)
(* build-number check of remoteconfigfirebase.dart against the 'update'    *)
(* value of Firebase Remote Config, and the Config document that           *)
(* main.dart's initState reads from Firestore.  Both run once per process, *)
(* side by side, and end in dialogs on the home screen's navigator.        *)
(*                                                                         *)
(* Remote Config itself is external: it keeps on the device the value it   *)
(* fetched last, with its age, and the value activated last; a fetch       *)
(* within the configured minimum interval is answered from the device.     *)
(***************************************************************************)
EXTENDS Integers, Sequences

CONSTANTS
  DefaultUpdate,   \* the in-app default of 'update'
  FirstBuild,      \* the build number installed first
  MaxVersion       \* bound: newest version ever published

(* What the theorems about this module take the constants to satisfy.      *)
VersionsAssumption ==
  /\ DefaultUpdate \in Nat /\ FirstBuild \in Nat /\ MaxVersion \in Nat
  /\ DefaultUpdate <= FirstBuild
  /\ FirstBuild <= MaxVersion

VARIABLES
  build,       \* the installed build number
  published,   \* 'update' on the server
  doc,         \* the Config document on the server
  fetched,     \* on the device: the value fetched last
  recent,      \* on the device: it was fetched less than an hour ago
  active,      \* on the device: the value activated last
  phase,       \* how far this process's check has come
  askedAt,     \* 'update' on the server when the check began
  docPhase,    \* how far this process's read of the Config document has come
  dialogs,     \* the dialogs shown, the visible one last
  told         \* this process has shown the version dialog

vars == <<build, published, doc, fetched, recent, active, phase, askedAt,
          docPhase, dialogs, told>>
device == <<build, fetched, recent, active>>
server == <<published, doc>>

Versions == DefaultUpdate..MaxVersion
TypeOK ==
  /\ {build, published, fetched, active, askedAt} \subseteq Versions
  /\ doc \in [down : BOOLEAN, update : BOOLEAN]
  /\ recent \in BOOLEAN
  /\ phase \in {"stopped", "fetching", "fetched", "compared", "failed"}
  /\ docPhase \in {"waiting", "done"}
  /\ dialogs \in Seq({"down", "update", "version"}) /\ Len(dialogs) <= 2
  /\ told \in BOOLEAN

Init ==
  /\ build = FirstBuild
  /\ published = DefaultUpdate
  /\ doc = [down |-> FALSE, update |-> FALSE]
  /\ fetched = DefaultUpdate /\ recent = FALSE
  /\ active = DefaultUpdate
  /\ phase = "stopped" /\ askedAt = DefaultUpdate
  /\ docPhase = "done"
  /\ dialogs = <<>> /\ told = FALSE

-----------------------------------------------------------------------------
(* The people behind the app publish ever newer versions and switch the    *)
(* Config document.                                                        *)
Publish ==
  /\ \E v \in (published + 1)..MaxVersion : published' = v
  /\ UNCHANGED <<device, doc, phase, askedAt, docPhase, dialogs, told>>

SwitchDoc ==
  /\ doc' \in [down : BOOLEAN, update : BOOLEAN]
  /\ UNCHANGED <<device, published, phase, askedAt, docPhase, dialogs, told>>

(* An hour, the minimum fetch interval, has passed since the last fetch.   *)
HourPasses ==
  /\ recent' = FALSE
  /\ UNCHANGED <<build, fetched, active, server, phase, askedAt, docPhase, dialogs, told>>

(* initState starts the check and the read of the document; neither waits  *)
(* for the other.                                                          *)
Start ==
  /\ phase = "stopped"
  /\ phase' = "fetching" /\ askedAt' = published
  /\ docPhase' = "waiting"
  /\ UNCHANGED <<device, server, dialogs, told>>

(* The process is killed, by the system or to install a newer version; the *)
(* device keeps what Remote Config stored.                                 *)
Stop ==
  /\ phase # "stopped"
  /\ phase' = "stopped" /\ docPhase' = "done"
  /\ dialogs' = <<>> /\ told' = FALSE
  /\ build' \in build..MaxVersion
  /\ UNCHANGED <<fetched, recent, active, server, askedAt>>

-----------------------------------------------------------------------------
(* fetchAndActivate, part one: the value comes from the device if it is    *)
(* recent enough, from the server otherwise.                               *)
FetchFromDevice ==
  /\ phase = "fetching" /\ recent
  /\ phase' = "fetched"
  /\ UNCHANGED <<device, server, askedAt, docPhase, dialogs, told>>

FetchFromServer ==
  /\ phase = "fetching" /\ ~recent
  /\ \E v \in askedAt..published : fetched' = v
  /\ recent' = TRUE
  /\ phase' = "fetched"
  /\ UNCHANGED <<build, active, server, askedAt, docPhase, dialogs, told>>

(* The fetch times out after ten seconds, is refused or has no network: it *)
(* throws, and both catches only print; the comparison is skipped.         *)
FetchFails ==
  /\ phase = "fetching" /\ ~recent
  /\ phase' = "failed"
  /\ UNCHANGED <<device, server, askedAt, docPhase, dialogs, told>>

Older(v) == build < v

(* Part two: the fetched value becomes the active one and is compared with *)
(* the build number.                                                       *)
ActivateAndCompare ==
  /\ phase = "fetched"
  /\ active' = fetched
  /\ phase' = "compared"
  /\ IF Older(fetched)
       THEN dialogs' = Append(dialogs, "version") /\ told' = TRUE
       ELSE UNCHANGED <<dialogs, told>>
  /\ UNCHANGED <<build, fetched, recent, server, askedAt, docPhase>>

-----------------------------------------------------------------------------
(* The Config document arrives: 'Down' comes before 'Update'.              *)
DocArrives ==
  /\ docPhase = "waiting"
  /\ docPhase' = "done"
  /\ dialogs' = CASE doc.down   -> Append(dialogs, "down")
                  [] ~doc.down /\ doc.update -> Append(dialogs, "update")
                  [] OTHER      -> dialogs
  /\ UNCHANGED <<device, server, phase, askedAt, told>>

(* It cannot be read: the error is unhandled and no dialog appears.        *)
DocFails ==
  /\ docPhase = "waiting"
  /\ docPhase' = "done"
  /\ UNCHANGED <<device, server, phase, askedAt, dialogs, told>>

(* The down dialog has no button; none of the three closes on the back key *)
(* or a tap outside.                                                       *)
HasButton(d) == d \in {"update", "version"}

(* The Update button opens the store, and the dialog closes as every       *)
(* AwesomeDialog does on a button unless told otherwise.                   *)
PressUpdate ==
  /\ dialogs # <<>>
  /\ HasButton(dialogs[Len(dialogs)])
  /\ dialogs' = SubSeq(dialogs, 1, Len(dialogs) - 1)
  /\ UNCHANGED <<device, server, phase, askedAt, docPhase, told>>

-----------------------------------------------------------------------------
Next ==
  \/ Publish \/ SwitchDoc \/ HourPasses
  \/ Start \/ Stop
  \/ FetchFromDevice \/ FetchFromServer \/ FetchFails \/ ActivateAndCompare
  \/ DocArrives \/ DocFails \/ PressUpdate

Spec == Init /\ [][Next]_vars

-----------------------------------------------------------------------------
(* When the fetch fails, the program prints that cached or default values  *)
(* will be used: the check still tells of a newer version that is active   *)
(* on the device.                                                          *)
CachedIsUsed == phase = "failed" /\ Older(active) => told
=============================================================================
