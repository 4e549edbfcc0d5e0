---------------------------- MODULE Configuration ----------------------------
(* The configuration file and the saves of the settings view                *)
(* (config/write.go, config/config.go, observ/config.go): a save reads the  *)
(* file, changes the keys that differ, checks the result as a start would   *)
(* and replaces the file; then the process restarts. Saves overlap, an      *)
(* operator edits the file by hand, steps fail, the process or the machine  *)
(* stops anywhere.                                                          *)
(*                                                                          *)
(* A key stands for those treated alike: backend for the required ones,     *)
(* max_active for those of which zero means the default, reliability for    *)
(* the weights, of which only absence does, control_url for the optional    *)
(* ones, folders for the shared folders, api_key for the secrets, and       *)
(* poll_interval for the keys the settings view does not know. Zero stands  *)
(* for every blank. Saves are numbered by the renames that took place. The  *)
(* .bak copy, which no start reads, is left out.                            *)
EXTENDS Integers, FiniteSets

CONSTANTS
  Posts,
  ConfigScopes \* bounds: the file at first, the edits of a form and by hand, kills, power losses, faults

VARIABLES
  config,   \* the bounds of this behaviour
  disk,     \* the file: its keys and the save it is of
  durable,  \* what the file may be after a power loss
  post,     \* post -> its step, what it read, was asked for and rendered
  temps,    \* the posts whose temporary file exists
  flushed,  \* of these, the ones whose content is on the device
  process,  \* up, stopping, down or refusing to start; the file it has loaded
  acked     \* the latest save that was answered with success

configVars == <<config, disk, durable, post, temps, flushed, process, acked>>

Owned == {"backend", "max_active", "reliability", "control_url", "folders", "api_key"}
Foreign == {"poll_interval"}
Keys == Owned \cup Foreign
Absent == -1
Keep == -2
Empty == [k \in Keys |-> Absent]

(***************************************************************************)
(* Loading (LoadBytes)                                                     *)
(***************************************************************************)
Or(value, default) == IF value \in {Absent, 0} THEN default ELSE value
Effective(doc) ==
  [k \in Keys |->
     CASE k = "max_active" -> Or(doc[k], 1)
       [] k = "reliability" -> IF doc[k] = Absent THEN 1 ELSE doc[k]
       [] k = "poll_interval" /\ Or(doc["control_url"], 0) # 0 -> Or(doc[k], 1)
       [] OTHER -> Or(doc[k], 0)]
GluetunIsWhole(c) == c["control_url"] = 0 => c["api_key"] = 0 /\ c["poll_interval"] = 0
RequiredAreSet(c) == c["backend"] # 0
NumbersAreInRange(c) == c["max_active"] >= 1 /\ c["reliability"] >= 0
Valid(doc) == LET c == Effective(doc) IN RequiredAreSet(c) /\ NumbersAreInRange(c) /\ GluetunIsWhole(c)

Content(doc, save) == [doc |-> doc, save |-> save]
NoPost == [at |-> "none", data |-> Empty, asked |-> Empty, doc |-> Empty, save |-> 0]
Init ==
  /\ config \in ConfigScopes
  /\ disk = Content(config.first, 0) /\ durable = {disk}
  /\ post = [p \in Posts |-> NoPost] /\ temps = {} /\ flushed = {}
  /\ process = [is |-> "up", loaded |-> disk] /\ acked = 0

Moves(p, from, to) == post[p].at = from /\ post' = [post EXCEPT ![p].at = to]
Spends(what) == config[what] > 0 /\ config' = [config EXCEPT ![what] = @ - 1]
FileUnchanged == UNCHANGED <<disk, durable>>
TempsUnchanged == UNCHANGED <<temps, flushed>>
ProcessUnchanged == UNCHANGED <<process, acked>>

(***************************************************************************)
(* The settings view                                                       *)
(***************************************************************************)
Form == [k \in Owned |-> IF k = "api_key" THEN Keep ELSE Effective(process.loaded.doc)[k]]
OpenForm(p) ==
  /\ process.is \in {"up", "stopping"} /\ post[p].at = "none"
  /\ post' = [post EXCEPT ![p].at = "form", ![p].asked = Form]
  /\ UNCHANGED config /\ FileUnchanged /\ TempsUnchanged /\ ProcessUnchanged

\* Checks of one field; what fields demand of each other is left to the rendered file.
PipelineAdmits(asked) == asked["backend"] # 0 /\ asked["max_active"] >= 1 /\ asked["reliability"] >= 0
SoulseekAdmits(asked) == asked["control_url"] >= 0 /\ asked["folders"] >= 0
SecretOrKeep(value) == IF value = 0 THEN Keep ELSE value
Update(p, key, value) == [post[p].asked EXCEPT ![key] = value]
Admits(asked) == PipelineAdmits(asked) /\ SoulseekAdmits(asked)
Submit(p) ==
  /\ process.is \in {"up", "stopping"} /\ post[p].at = "form"
  /\ \E edit \in config.edits :
       LET value == IF edit[1] = "api_key" THEN SecretOrKeep(edit[2]) ELSE edit[2]
           asked == Update(p, edit[1], value)
       IN post' = [post EXCEPT ![p].at = IF Admits(asked) THEN "admitted" ELSE "refused", ![p].asked = asked]
  /\ UNCHANGED config /\ FileUnchanged /\ TempsUnchanged /\ ProcessUnchanged

(***************************************************************************)
(* Saving (ApplySettings)                                                  *)
(***************************************************************************)
AppliedField(data, asked, k) ==
  CASE asked[k] = Keep -> data[k]
    [] data[k] = Absent /\ asked[k] = 0 -> Absent
    [] OTHER -> asked[k]
AppliedFolders(data, asked) == IF Or(data["folders"], 0) = asked["folders"] THEN data["folders"] ELSE Or(asked["folders"], Absent)
Applied(data, asked) ==
  [k \in Keys |-> CASE k \in Foreign -> data[k] [] k = "folders" -> AppliedFolders(data, asked) [] OTHER -> AppliedField(data, asked, k)]

\* Nothing is written of what would not load.
Read(p) ==
  LET doc == Applied(disk.doc, post[p].asked)
  IN /\ post[p].at = "admitted"
     /\ post' = [post EXCEPT ![p].at = IF Valid(doc) THEN "rendered" ELSE "refused", ![p].data = disk.doc, ![p].doc = doc]
     /\ UNCHANGED config /\ FileUnchanged /\ TempsUnchanged /\ ProcessUnchanged

CreateTemp(p) ==
  /\ Moves(p, "rendered", "temp")
  /\ temps' = temps \cup {p}
  /\ UNCHANGED <<config, flushed>> /\ FileUnchanged /\ ProcessUnchanged
SyncTempNever(p) == Moves(p, "temp", "synced") /\ UNCHANGED config /\ FileUnchanged /\ TempsUnchanged /\ ProcessUnchanged
SyncTemp(p) ==
  /\ Moves(p, "temp", "synced")
  /\ flushed' = flushed \cup {p}
  /\ UNCHANGED <<config, temps>> /\ FileUnchanged /\ ProcessUnchanged
\* Until the directory is synced, a power loss may bring back the file as it was, or the new one as far as it was flushed.
Rename(p) ==
  LET new == Content(post[p].doc, disk.save + 1)
  IN /\ post[p].at = "synced"
     /\ post' = [post EXCEPT ![p].at = "renamed", ![p].save = new.save]
     /\ disk' = new /\ durable' = durable \cup {IF p \in flushed THEN new ELSE Content(Empty, new.save)}
     /\ temps' = temps \ {p} /\ flushed' = flushed \ {p}
     /\ UNCHANGED config /\ ProcessUnchanged
\* Mutant: the answer does not wait for the file to be synchronised.
AnswerUnsynced(p) ==
  /\ Moves(p, "renamed", "saved")
  /\ acked' = IF post[p].save > acked THEN post[p].save ELSE acked
  /\ process' = [process EXCEPT !.is = "stopping"]
  /\ UNCHANGED config /\ FileUnchanged /\ TempsUnchanged
\* The answer, and a quarter of a second later the restart.
SyncAndAnswer(p) ==
  /\ Moves(p, "renamed", "saved")
  /\ durable' = {disk}
  /\ acked' = IF post[p].save > acked THEN post[p].save ELSE acked
  /\ process' = [process EXCEPT !.is = "stopping"]
  /\ UNCHANGED <<config, disk>> /\ TempsUnchanged

\* A step fails. Before the rename the temporary file is removed and the file is as it was; after it the save is reported
\* as failed, and the new file stays.
Fail(p) ==
  /\ Spends("faults")
  /\ post[p].at \in {"admitted", "rendered", "temp", "synced", "renamed"}
  /\ post' = [post EXCEPT ![p].at = "failed"]
  /\ temps' = temps \ {p} /\ flushed' = flushed \ {p}
  /\ FileUnchanged /\ ProcessUnchanged

(***************************************************************************)
(* The process, the machine and the operator                               *)
(***************************************************************************)
\* A shutdown gives handlers a while; those not done by then are cut off.
Ends(p) == post[p].at \in {"refused", "saved", "failed"}
CutOff == [p \in Posts |-> IF Ends(p) \/ post[p].at = "none" THEN post[p] ELSE [post[p] EXCEPT !.at = "cut"]]
Exit ==
  /\ process.is = "stopping"
  /\ process' = [process EXCEPT !.is = "down"] /\ post' = CutOff
  /\ UNCHANGED <<config, acked>> /\ FileUnchanged /\ TempsUnchanged
Start ==
  /\ process.is = "down"
  /\ process' = IF Valid(disk.doc) THEN [is |-> "up", loaded |-> disk] ELSE [process EXCEPT !.is = "refusing"]
  /\ UNCHANGED <<config, post, acked>> /\ FileUnchanged /\ TempsUnchanged
Kill ==
  /\ process.is \in {"up", "stopping"} /\ Spends("kills")
  /\ process' = [process EXCEPT !.is = "down"] /\ post' = CutOff
  /\ UNCHANGED acked /\ FileUnchanged /\ TempsUnchanged
PowerLoss ==
  /\ process.is \in {"up", "stopping"} /\ Spends("losses")
  /\ process' = [process EXCEPT !.is = "down"] /\ post' = CutOff
  /\ \E content \in durable : disk' = content /\ durable' = {content}
  /\ UNCHANGED acked /\ TempsUnchanged
HandEdit ==
  /\ Spends("hands")
  /\ \E edit \in config.byHand :
       LET doc == [disk.doc EXCEPT ![edit[1]] = edit[2]]
       IN Valid(doc) /\ disk' = [disk EXCEPT !.doc = doc] /\ durable' = {disk'}
  /\ UNCHANGED post /\ TempsUnchanged /\ ProcessUnchanged

Saves(p) == Read(p) \/ CreateTemp(p) \/ SyncTemp(p) \/ Rename(p) \/ SyncAndAnswer(p)
Next ==
  \/ \E p \in Posts : OpenForm(p) \/ Submit(p) \/ Saves(p) \/ Fail(p)
  \/ Exit \/ Start \/ Kill \/ PowerLoss \/ HandEdit

\* A stopping process ends, and the container starts it again.
ConfigFairness == WF_configVars(Exit) /\ WF_configVars(Start)
Spec == Init /\ [][Next]_configVars /\ ConfigFairness

(***************************************************************************)
(* Properties                                                              *)
(***************************************************************************)
\* The types of the variables.
TypeOK ==
  /\ disk.doc \in [Keys -> Absent .. 2] /\ durable # {} /\ acked \in 0 .. Cardinality(Posts)
  /\ temps \subseteq Posts /\ flushed \subseteq temps
  /\ \A p \in Posts : post[p].at \in {"none", "form", "refused", "admitted", "rendered", "temp", "synced", "renamed", "saved", "failed", "cut"}
  /\ process.is \in {"up", "stopping", "down", "refusing"}

\* Whatever is saved, cut off, killed or lost, the file is one a start accepts (the LoadBytes backstop and atomicWrite).
FileLoads == Valid(disk.doc) /\ process.is # "refusing"

\* What was answered with success is on the device, or a later save is (the syncs of atomicWrite).
AckedIsOnDisk == disk.save >= acked

\* A written file says what the form said once it is loaded, keeps the secrets that were left blank and what the view does
\* not know as they were read. The one exception is a weight that was absent and is set to zero, which stays absent (applyFloatField).
SavedAsAsked ==
  \A p \in Posts : post[p].save > 0 =>
    LET was == post[p].data  asked == post[p].asked  doc == post[p].doc  c == Effective(doc)
    IN /\ \A k \in Foreign : doc[k] = was[k]
       /\ \A k \in Owned :
            IF asked[k] = Keep THEN doc[k] = was[k]
            ELSE c[k] = asked[k] \/ (k = "reliability" /\ was[k] = Absent /\ asked[k] = 0)

\* A temporary file is of a save in progress or of one cut off: a failed save leaves none (the deferred clean-up).
TempsAreTidied == \A p \in temps : post[p].at \in {"temp", "synced", "cut"}

\* In the end the process runs with what was last answered with success, or with a later save (the restart).
SavesTakeEffect == <>[](process.is = "up" /\ process.loaded.save >= acked)

\* The file is one a start accepts, says what was asked, keeps what was answered, and nothing else is left behind (ApplySettings,
\* atomicWrite).
FileIsSound == TypeOK /\ FileLoads /\ AckedIsOnDisk /\ SavedAsAsked /\ TempsAreTidied
=============================================================================
