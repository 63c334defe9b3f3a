-------------------------------- MODULE Installer --------------------------------
(***************************************************************************)
(* `agentic-compact install' and `uninstall' (src/src/install.rs,          *)
(* src/src/install/plugin_cli.rs): a binary, a plugin source tree, a       *)
(* section of config.toml, a wrapper, an install state that names them     *)
(* all, and the marketplace and plugin that codex keeps.                   *)
(*                                                                         *)
(* One run at a time; a run may die or fail between any two steps, and the *)
(* user may edit or delete what was installed.  A file is known by whose   *)
(* content it holds: a version's, the installer's (the same for all        *)
(* versions) or the user's.  A check and the write that follows it at once *)
(* are one step; between the check of a tree and its last write, and while *)
(* a section is written, the user does nothing.                            *)
(***************************************************************************)
EXTENDS Naturals

CONSTANTS Version,
          TreeFiles,   \* number of files in the plugin source tree
          MaxRuns,     \* bound: runs of install and uninstall
          MaxEdits,    \* bound: edits by the user
          InstallFaults

\* "crash"  a run ends between two steps: it dies, or an operation fails
\* "torn"   it ends while the tree is written or removed
\* "cli"    a codex command fails, before or after its effect
\* "other"  another installation has the marketplace's name
InstallFaultKinds == {"crash", "torn", "cli", "other"}

NoVersion == 0        \* no file, no plugin
User == 1000          \* the user's content, of no version

ASSUME InstallAssumption ==
  /\ Version \subseteq Nat \ {NoVersion, User} /\ TreeFiles \in Nat \ {0}
  /\ MaxRuns \in Nat /\ MaxEdits \in Nat /\ InstallFaults \subseteq InstallFaultKinds

VARIABLES
  disk,    \* binary, wrapper, section, tree, and whether the tree's root exists
  backup,  \* what the copy of config.toml holds, "absent" if there is none
  filled,  \* config.toml has other content of the user's
  saved,   \* the install state, or NoState
  codex,   \* the marketplace and the plugin codex knows
  run,     \* the current or last run
  runs,    \* runs so far
  edits,   \* edits by the user so far
  start,   \* history: disk and codex when the run began
  tried    \* history: versions whose installs were begun since the last run that succeeded

vars == <<disk, backup, filled, saved, codex, run, runs, edits, start, tried>>

NoState == [version |-> 0, wrapper |-> FALSE]
States == [version : Version, wrapper : BOOLEAN] \union {NoState}
Content == {NoVersion, User} \union Version
TextContent == {"none", "ours", "user"}

InstallSteps == {"load", "quiescent", "binary", "treeCheck", "treeWrite", "parse", "section",
                 "sectionWrite", "wrapper", "state", "effective", "marketAdd", "list",
                 "replace", "add"}
UninstallSteps == {"uload", "preflight", "ulist", "uremove", "mlist", "mremove", "usection",
                   "ubinary", "uwrapper", "treeJudge", "treeRemove", "ustate"}
Ends == {"idle", "done", "refused", "failed"}
InTree == {"treeWrite", "treeRemove"}
Unwatched == InTree \union {"sectionWrite"}

Disk == [binary : Content, wrapper : TextContent, section : TextContent,
         tree : [1..TreeFiles -> Content], root : BOOLEAN]
Codex == [market : {"none", "ours", "other"}, plugin : Content]

InstallerTypeOK ==
  /\ disk \in Disk /\ codex \in Codex /\ start \in [disk : Disk, codex : Codex]
  /\ backup \in {"absent"} \union TextContent /\ filled \in BOOLEAN
  /\ saved \in States
  /\ run \in [pc : Ends \union InstallSteps \union UninstallSteps,
              op : {"none", "install", "uninstall"}, version : {0} \union Version,
              alias : BOOLEAN, prev : States, file : 0..(TreeFiles - 1), edited : BOOLEAN]
  /\ runs \in 0..MaxRuns /\ edits \in 0..MaxEdits /\ tried \subseteq Version

\* A fresh home; with the fault "other", codex knows another installation's plugin.
Init ==
  /\ disk = [binary |-> NoVersion, wrapper |-> "none", section |-> "none",
             tree |-> [f \in 1..TreeFiles |-> NoVersion], root |-> FALSE]
  /\ backup = "absent" /\ filled \in BOOLEAN /\ saved = NoState
  /\ codex \in {[market |-> "none", plugin |-> NoVersion]} \union
       (IF "other" \in InstallFaults THEN {[market |-> "other", plugin |-> User]} ELSE {})
  /\ run = [pc |-> "idle", op |-> "none", version |-> 0, alias |-> FALSE, prev |-> NoState,
            file |-> 0, edited |-> FALSE]
  /\ runs = 0 /\ edits = 0 /\ start = [disk |-> disk, codex |-> codex] /\ tried = {}

-----------------------------------------------------------------------------
(* Helpers *)

At(step) == run.pc = step
Goto(step) == run' = [run EXCEPT !.pc = step, !.file = 0]
Write(surface, content) == disk' = [disk EXCEPT ![surface] = content]
\* A step of a run; the next four name the one part it may change beside the run.
RunStep ==
  /\ tried' = IF run'.pc = "done" THEN {} ELSE tried
  /\ UNCHANGED <<filled, runs, edits, start>>
OnlyRun == RunStep /\ UNCHANGED <<disk, backup, saved, codex>>
OnlyDisk == RunStep /\ UNCHANGED <<backup, saved, codex>>
OnlyCodex == RunStep /\ UNCHANGED <<disk, backup, saved>>
OnlySaved == RunStep /\ UNCHANGED <<disk, backup, codex>>

\* The hash of the tree, 0 if a file is missing: a version's only if every file is.
TreeHash ==
  IF \E f \in 1..TreeFiles : disk.tree[f] = NoVersion THEN 0
  ELSE IF \E v \in Version : \A f \in 1..TreeFiles : disk.tree[f] = v
       THEN disk.tree[1] ELSE User
Missing == disk.tree = [f \in 1..TreeFiles |-> NoVersion]

\* Defect: what a failed run of the same version has written is not known again.
MayReplace_OwnedOnly(current, absent, desired, owned) == current \in {absent, owned}

\* protect_owned_file_before_replace: absent, as desired, or as the last install
\* left it.
MayReplace(current, absent, desired, owned) == current \in {absent, desired, owned}

\* validate_owned_file: absent, or as the last install left it.
Unmodified(current, absent, expected) == current \in {absent, expected}

OwnedText(owned) == IF owned THEN "ours" ELSE "none"

\* A codex command: it takes effect and succeeds, or fails with or without effect.
Command(effect, step) ==
  \/ codex' = effect /\ Goto(step)
  \/ "cli" \in InstallFaults /\ codex' \in {codex, effect} /\ Goto("failed")

-----------------------------------------------------------------------------
(* install *)

BeginRun(op, version, alias, step) ==
  /\ run.pc \in Ends /\ runs < MaxRuns
  /\ run' = [pc |-> step, op |-> op, version |-> version, alias |-> alias, prev |-> NoState,
             file |-> 0, edited |-> FALSE]
  /\ runs' = runs + 1
  /\ start' = [disk |-> disk, codex |-> codex]
  /\ UNCHANGED <<disk, backup, filled, saved, codex, edits>>

BeginInstall(version, alias) ==
  BeginRun("install", version, alias, "load") /\ tried' = tried \union {version}

LoadState ==
  /\ At("load")
  /\ run' = [run EXCEPT !.prev = saved,
                        !.pc = IF saved = NoState THEN "binary" ELSE "quiescent"]
  /\ OnlyRun

\* No socket, or no loaded thread; else the upgrade is deferred.
EnsureQuiescent ==
  /\ At("quiescent")
  /\ Goto("binary") \/ Goto("failed")
  /\ OnlyRun

InstallBinary ==
  /\ At("binary")
  /\ IF MayReplace(disk.binary, NoVersion, run.version, run.prev.version)
     THEN Write("binary", run.version) /\ Goto("treeCheck")
     ELSE UNCHANGED disk /\ Goto("refused")
  /\ OnlyDisk

\* A tree that lacks a file has an empty hash: neither desired nor owned.
CheckTree ==
  /\ At("treeCheck")
  /\ IF ~disk.root \/ (TreeHash # 0 /\ TreeHash \in {run.version, run.prev.version})
     THEN Goto("treeWrite") ELSE Goto("refused")
  /\ OnlyRun

\* Defect: one file too many.
WriteTreeFile_Beyond ==
  /\ At("treeWrite")
  /\ LET file == run.file + 1
     IN /\ disk' = [disk EXCEPT !.tree[file] = run.version, !.root = TRUE]
        /\ IF file > TreeFiles THEN Goto("parse") ELSE run' = [run EXCEPT !.file = file]
  /\ OnlyDisk

WriteTreeFile ==
  /\ At("treeWrite")
  /\ LET file == run.file + 1
     IN /\ disk' = [disk EXCEPT !.tree[file] = run.version, !.root = TRUE]
        /\ IF file = TreeFiles THEN Goto("parse") ELSE run' = [run EXCEPT !.file = file]
  /\ OnlyDisk

\* codex parses the section in an empty home.
ParseSection ==
  /\ At("parse")
  /\ Command(codex, "section")
  /\ OnlyCodex

\* Defect: the section is written first, the backup taken of the result.
CheckSection_Late ==
  /\ At("section")
  /\ Goto(IF disk.section # "user" THEN "sectionWrite" ELSE "refused")
  /\ backup' = IF disk.section # "user" /\ backup = "absent" THEN "ours" ELSE backup
  /\ RunStep /\ UNCHANGED <<disk, saved, codex>>

\* The first backup is kept; none is made of an empty configuration.
CheckSection ==
  /\ At("section")
  /\ LET owned == OwnedText(run.prev # NoState)
         ok == MayReplace(disk.section, "none", "ours", owned)
         full == filled \/ disk.section # "none"
     IN /\ Goto(IF ok THEN "sectionWrite" ELSE "refused")
        /\ backup' = IF ok /\ full /\ backup = "absent" THEN disk.section ELSE backup
  /\ RunStep /\ UNCHANGED <<disk, saved, codex>>

WriteSection ==
  /\ At("sectionWrite")
  /\ Write("section", "ours")
  /\ Goto("wrapper")
  /\ OnlyDisk

InstallWrapper ==
  /\ At("wrapper")
  /\ IF ~run.alias THEN UNCHANGED disk /\ Goto("state")
     ELSE IF MayReplace(disk.wrapper, "none", "ours", OwnedText(run.prev.wrapper))
          THEN Write("wrapper", "ours") /\ Goto("state")
          ELSE UNCHANGED disk /\ Goto("refused")
  /\ OnlyDisk

SaveState ==
  /\ At("state")
  /\ saved' = [version |-> run.version, wrapper |-> run.alias]
  /\ Goto("effective")
  /\ OnlySaved

\* codex reads the section from the real home.
CheckEffective ==
  /\ At("effective")
  /\ IF disk.section = "ours" THEN Command(codex, "marketAdd")
                              ELSE UNCHANGED codex /\ Goto("failed")
  /\ OnlyCodex

\* codex does not replace a marketplace of the same name; require_same_path refuses it.
AddMarketplace ==
  /\ At("marketAdd")
  /\ CASE ~disk.root -> UNCHANGED codex /\ Goto("failed")
       [] disk.root /\ codex.market = "other" -> UNCHANGED codex /\ Goto("refused")
       [] OTHER -> Command([codex EXCEPT !.market = "ours"], "list")
  /\ OnlyCodex

\* Defect: an installed plugin is taken for up to date.
ListPlugins_AnyVersion ==
  /\ At("list")
  /\ IF codex.plugin = NoVersion THEN Command(codex, "add") ELSE Command(codex, "done")
  /\ OnlyCodex

ListPlugins ==
  /\ At("list")
  /\ IF ~disk.root /\ codex.plugin # NoVersion THEN UNCHANGED codex /\ Goto("failed")
     ELSE IF codex.plugin = User THEN UNCHANGED codex /\ Goto("refused")
     ELSE Command(codex, CASE codex.plugin = NoVersion -> "add"
                           [] codex.plugin = run.version -> "done"
                           [] OTHER -> "replace")
  /\ OnlyCodex

ReplacePlugin ==
  /\ At("replace")
  /\ Command([codex EXCEPT !.plugin = NoVersion], "add")
  /\ OnlyCodex

\* codex installs the version the tree's manifest names, its first file here.
AddPlugin ==
  /\ At("add")
  /\ IF disk.tree[1] = run.version THEN Command([codex EXCEPT !.plugin = run.version], "done")
     ELSE UNCHANGED codex /\ Goto("failed")
  /\ OnlyCodex

-----------------------------------------------------------------------------
(* uninstall *)

BeginUninstall == BeginRun("uninstall", 0, FALSE, "uload") /\ UNCHANGED tried

\* Without an install state nothing is done: the run is refused.
LoadInstalled ==
  /\ At("uload")
  /\ run' = [run EXCEPT !.prev = saved, !.pc = IF saved = NoState THEN "refused" ELSE "preflight"]
  /\ OnlyRun

TreeUnmodified == ~disk.root \/ TreeHash = run.prev.version
SectionUnmodified == Unmodified(disk.section, "none", "ours")
BinaryUnmodified == Unmodified(disk.binary, NoVersion, run.prev.version)
WrapperUnmodified == run.prev.wrapper => Unmodified(disk.wrapper, "none", "ours")

\* Defect: the wrapper is left out.
validate_uninstall_state_NoWrapper == SectionUnmodified /\ BinaryUnmodified /\ TreeUnmodified
validate_uninstall_state ==
  SectionUnmodified /\ BinaryUnmodified /\ WrapperUnmodified /\ TreeUnmodified

Preflight ==
  /\ At("preflight")
  /\ Goto(IF validate_uninstall_state THEN "ulist" ELSE "refused")
  /\ OnlyRun

\* Defect: without a plugin there is nothing to do, the marketplace included.
ListInstalled_EarlyReturn ==
  /\ At("ulist")
  /\ IF codex.plugin = NoVersion THEN Command(codex, "usection")
     ELSE IF ~disk.root THEN UNCHANGED codex /\ Goto("failed")
     ELSE IF codex.plugin = User THEN UNCHANGED codex /\ Goto("refused")
     ELSE Command(codex, "uremove")
  /\ OnlyCodex

\* Paths are compared by require_same_path, which fails when the tree is gone.
ListInstalled ==
  /\ At("ulist")
  /\ IF codex.plugin = NoVersion THEN Command(codex, "mlist")
     ELSE IF ~disk.root THEN UNCHANGED codex /\ Goto("failed")
     ELSE IF codex.plugin = User THEN UNCHANGED codex /\ Goto("refused")
     ELSE Command(codex, "uremove")
  /\ OnlyCodex

RemovePlugin ==
  /\ At("uremove")
  /\ Command([codex EXCEPT !.plugin = NoVersion], "mlist")
  /\ OnlyCodex

ListMarketplaces ==
  /\ At("mlist")
  /\ IF codex.market = "none" THEN Command(codex, "usection")
     ELSE IF ~disk.root THEN UNCHANGED codex /\ Goto("failed")
     ELSE IF codex.market = "other" THEN UNCHANGED codex /\ Goto("refused")
     ELSE Command(codex, "mremove")
  /\ OnlyCodex

RemoveMarketplace ==
  /\ At("mremove")
  /\ Command([codex EXCEPT !.market = "none"], "usection")
  /\ OnlyCodex

\* Defect: the preflight is trusted.
RemoveSurface_Unchecked(step, next, surface, unmodified, absent) ==
  /\ At(step)
  /\ Write(surface, absent) /\ Goto(next)
  /\ OnlyDisk

\* Every surface is checked again before it is removed.
RemoveSurface(step, next, surface, unmodified, absent) ==
  /\ At(step)
  /\ IF unmodified THEN Write(surface, absent) /\ Goto(next)
                   ELSE UNCHANGED disk /\ Goto("refused")
  /\ OnlyDisk

RemoveSection == RemoveSurface("usection", "ubinary", "section", SectionUnmodified, "none")
RemoveBinary == RemoveSurface("ubinary", "uwrapper", "binary", BinaryUnmodified, NoVersion)
RemoveWrapper ==
  RemoveSurface("uwrapper", "treeJudge", "wrapper", WrapperUnmodified,
                IF run.prev.wrapper THEN "none" ELSE disk.wrapper)

JudgeTree ==
  /\ At("treeJudge")
  /\ Goto(IF ~disk.root THEN "ustate" ELSE IF TreeUnmodified THEN "treeRemove" ELSE "refused")
  /\ OnlyRun

\* File by file; the directories go at last, in the step of the last file.
RemoveTreeFile ==
  /\ At("treeRemove")
  /\ LET file == run.file + 1
     IN /\ disk' = [disk EXCEPT !.tree[file] = NoVersion, !.root = file # TreeFiles]
        /\ IF file = TreeFiles THEN Goto("ustate") ELSE run' = [run EXCEPT !.file = file]
  /\ OnlyDisk

RemoveState ==
  /\ At("ustate")
  /\ saved' = NoState
  /\ Goto("done")
  /\ OnlySaved

-----------------------------------------------------------------------------
(* The world *)

\* The run dies, or a file operation fails.
RunEnds ==
  /\ run.pc \notin Ends
  /\ IF run.pc \in InTree /\ run.file > 0 THEN "torn" \in InstallFaults
                                          ELSE "crash" \in InstallFaults
  /\ Goto("failed")
  /\ OnlyRun

\* The user edits or deletes a file, or deletes the tree.
Edit ==
  /\ edits < MaxEdits /\ run.pc \notin Unwatched
  /\ edits' = edits + 1
  /\ run' = [run EXCEPT !.edited = TRUE]
  /\ \/ \E content \in {NoVersion, User} : Write("binary", content)
     \/ \E content \in {"none", "user"} : Write("wrapper", content) \/ Write("section", content)
     \/ \E file \in 1..TreeFiles, content \in {NoVersion, User} :
          disk.root /\ disk' = [disk EXCEPT !.tree[file] = content]
     \/ disk.root /\ disk' = [disk EXCEPT !.root = FALSE,
                                          !.tree = [f \in 1..TreeFiles |-> NoVersion]]
  /\ UNCHANGED <<backup, filled, saved, codex, runs, start, tried>>

-----------------------------------------------------------------------------
Install ==
  \/ LoadState \/ EnsureQuiescent \/ InstallBinary \/ CheckTree \/ WriteTreeFile
  \/ ParseSection \/ CheckSection \/ WriteSection \/ InstallWrapper \/ SaveState
  \/ CheckEffective \/ AddMarketplace \/ ListPlugins \/ ReplacePlugin \/ AddPlugin
Uninstall ==
  \/ LoadInstalled \/ Preflight \/ ListInstalled \/ RemovePlugin \/ ListMarketplaces
  \/ RemoveMarketplace \/ RemoveSection \/ RemoveBinary \/ RemoveWrapper \/ JudgeTree
  \/ RemoveTreeFile \/ RemoveState

Next ==
  \/ \E v \in Version, alias \in BOOLEAN : BeginInstall(v, alias)
  \/ BeginUninstall \/ Install \/ Uninstall \/ RunEnds \/ Edit

Spec == Init /\ [][Next]_vars

-----------------------------------------------------------------------------
(* Properties *)

\* No step of a run, whatever came before it, replaces or removes what the user has
\* written, or what codex keeps for another installation.
UserContentKept ==
  [][edits' = edits =>
       /\ disk.binary = User => disk'.binary = User
       /\ disk.wrapper = "user" => disk'.wrapper = "user"
       /\ disk.section = "user" => disk'.section = "user"
       /\ \A f \in 1..TreeFiles : disk.tree[f] = User => disk'.tree[f] = User
       /\ codex.market = "other" => codex' = codex]_vars

\* An uninstall that refuses because something was modified before it began has
\* removed nothing: neither a file nor the plugin.
AllOrNothing ==
  At("refused") /\ run.op = "uninstall" /\ ~run.edited =>
    disk = start.disk /\ codex = start.codex

\* An install that succeeds while the user does nothing leaves every part in place and
\* of its own version, whatever failed runs came before.
InstallComplete ==
  At("done") /\ run.op = "install" /\ ~run.edited =>
    /\ disk.binary = run.version /\ TreeHash = run.version /\ disk.section = "ours"
    /\ run.alias => disk.wrapper = "ours"
    /\ saved = [version |-> run.version, wrapper |-> run.alias]
    /\ codex = [market |-> "ours", plugin |-> run.version]

\* An uninstall that succeeds leaves nothing of the installer's behind, though runs
\* failed before it: only a wrapper that a later install without one has dropped from
\* the state.
UninstallComplete ==
  At("done") /\ run.op = "uninstall" /\ ~run.edited =>
    /\ disk.binary = NoVersion /\ Missing /\ ~disk.root /\ disk.section = "none"
    /\ disk.wrapper = "ours" => ~run.prev.wrapper
    /\ codex.market # "ours" /\ codex.plugin \notin Version

\* A run that finds no edit by the user and no other installation is refused as
\* ConfigUserModified in two cases only: an uninstall finds no install state, or an install
\* that never finished was of a version which is neither the run's own nor the one
\* recorded.  One that follows failed or interrupted runs of the same version goes
\* through, and so does an upgrade, begun anew as often as it fails.
RefusalMeansModified ==
  At("refused") /\ edits = 0 /\ codex.market # "other" =>
    \/ run.op = "uninstall" /\ run.prev = NoState
    \/ tried \ {run.version, run.prev.version} # {}

\* A configuration the user had before is backed up before it is first changed: the
\* backup never holds the installer's section.
BackupOriginal == filled => backup # "ours"
=============================================================================
