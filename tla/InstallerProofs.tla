----------------------------- MODULE InstallerProofs -----------------------------
(***************************************************************************)
(* What is proved of Installer: that a run keeps what is the user's, that  *)
(* its refusals and successes mean what they say, and that the user's      *)
(* configuration is backed up in time; for any versions, files, runs,      *)
(* edits and faults.                                                       *)
(***************************************************************************)
EXTENDS Installer, TLAPS

Runs ==
  [pc : Ends \union InstallSteps \union UninstallSteps, op : {"none", "install", "uninstall"},
   version : {0} \union Version, alias : BOOLEAN, prev : States, file : 0..(TreeFiles - 1),
   edited : BOOLEAN]

-----------------------------------------------------------------------------
(* What a run knows and what it has checked *)

\* The steps a run has left after it has written the binary, the tree, and so on.
AfterWrapper == {"state", "effective", "marketAdd", "list", "replace", "add", "done"}
AfterSection == {"wrapper"} \union AfterWrapper
AfterTree == {"parse", "section", "sectionWrite"} \union AfterSection
AfterBinary == {"treeCheck", "treeWrite"} \union AfterTree
AfterState == AfterWrapper \ {"state"}
AfterMarket == {"list", "replace", "add"}

\* A run is an install of a version, or an uninstall with a state to go by.
RunKnows ==
  /\ run.pc \in InstallSteps => run.op = "install"
  /\ run.pc \in UninstallSteps => run.op = "uninstall"
  /\ run.op = "install" => run.version \in Version
  /\ run.op = "uninstall" => run.version = 0
  /\ run.pc \in UninstallSteps \ {"uload"} => run.prev \in States \ {NoState}
  /\ edits = 0 => ~run.edited

\* Another installation's plugin comes with its marketplace, and no run gets past the two.
OthersApart ==
  /\ codex.market = "other" <=> codex.plugin = User
  /\ run.pc \in AfterMarket \union {"mremove"} => codex.market = "ours"
  /\ run.pc \in {"replace", "uremove"} => codex.plugin # User

\* A file that is about to be written or removed is not the user's; a tree without a root
\* has no files.
NotTheUsers ==
  /\ ~disk.root => Missing
  /\ run.pc \in InTree => \A f \in 1..TreeFiles : disk.tree[f] # User
  /\ run.pc = "treeRemove" => \A f \in 1..run.file : disk.tree[f] = NoVersion
  /\ run.pc = "sectionWrite" => disk.section # "user"

InstallerInv == InstallerTypeOK /\ RunKnows /\ OthersApart /\ NotTheUsers

-----------------------------------------------------------------------------
(* What a run has done *)

\* How far an install has come, if the user has done nothing since it began.
InstallProgress ==
  run.op = "install" /\ ~run.edited =>
    /\ run.pc \in AfterBinary => disk.binary = run.version
    /\ run.pc = "treeWrite" => \A f \in 1..run.file : disk.tree[f] = run.version
    /\ run.pc \in AfterTree =>
         disk.root /\ \A f \in 1..TreeFiles : disk.tree[f] = run.version
    /\ run.pc \in AfterSection => disk.section = "ours"
    /\ run.pc \in AfterWrapper /\ run.alias => disk.wrapper = "ours"
    /\ run.pc \in AfterState => saved = [version |-> run.version, wrapper |-> run.alias]
    /\ run.pc = "done" => codex = [market |-> "ours", plugin |-> run.version]

\* The steps of an uninstall that come before it removes a surface or asks codex to.
BeforeRemoval == {"uload", "preflight", "ulist", "uremove", "mlist", "refused"}
BeforeSection == {"ulist", "uremove", "mlist", "mremove", "usection"}
BeforeBinary == BeforeSection \union {"ubinary"}
BeforeWrapper == BeforeBinary \union {"uwrapper"}
BeforeTree == BeforeWrapper \union {"treeJudge"}

\* How far an uninstall has come: what it has still to remove is as it was at the
\* preflight, what it has removed is gone, and until then all is as at its start.
UninstallProgress ==
  run.op = "uninstall" /\ ~run.edited =>
    /\ run.pc \in BeforeRemoval => disk = start.disk
    /\ run.pc \in BeforeRemoval \ {"mlist"} => codex = start.codex
    /\ run.pc = "mlist" /\ codex.market = "other" => codex = start.codex
    /\ run.pc \in BeforeSection => SectionUnmodified
    /\ run.pc \in BeforeBinary => BinaryUnmodified
    /\ run.pc \in BeforeWrapper => WrapperUnmodified
    /\ run.pc \in BeforeTree => TreeUnmodified
    /\ run.pc \in {"mlist", "mremove", "usection", "ubinary", "uwrapper", "treeJudge",
                   "treeRemove", "ustate", "done"} => codex.plugin \notin Version
    /\ run.pc \in {"usection", "ubinary", "uwrapper", "treeJudge", "treeRemove", "ustate",
                   "done"} => codex.market # "ours"
    /\ run.pc \in {"ubinary", "uwrapper", "treeJudge", "treeRemove", "ustate", "done"} =>
         disk.section = "none"
    /\ run.pc \in {"uwrapper", "treeJudge", "treeRemove", "ustate", "done"} =>
         disk.binary = NoVersion
    /\ run.pc \in {"treeJudge", "treeRemove", "ustate", "done"} =>
         ~(disk.wrapper = "ours" /\ run.prev.wrapper)
    /\ run.pc \in {"ustate", "done"} => Missing /\ ~disk.root
    /\ run.pc = "done" => saved = NoState

\* Where the user has a configuration, the installer's section comes after the backup.
BackedUp ==
  filled =>
    /\ backup # "ours"
    /\ run.pc = "sectionWrite" \/ disk.section = "ours" => backup # "absent"

\* The versions the installer may find its own files of: the recorded one, and those of
\* installs that never finished.
Known == {saved.version} \union tried

\* The tree is of such a version, or there is none.
TreeKnown ==
  ~disk.root \/ \E v \in Version \intersect Known : \A f \in 1..TreeFiles : disk.tree[f] = v

\* The steps of a run that go by the state as it was loaded.
GoesByState == {"quiescent", "binary", "treeCheck"} \union (UninstallSteps \ {"uload"})

\* A run is refused for want of a state, or over what an install of another version left.
MayRefuse ==
  \/ run.op = "uninstall" /\ run.prev = NoState
  \/ tried \ {run.version, run.prev.version} # {}

\* Without edits everything is the installer's and of a known version.
AllOurs ==
  edits = 0 =>
    /\ disk.wrapper # "user" /\ disk.section # "user" /\ disk.binary # User
    /\ disk.binary \in {NoVersion} \union Known
    /\ ~(run.pc \in InTree /\ run.file > 0) => TreeKnown
    /\ run.pc \in InstallSteps => run.version \in tried
    /\ run.pc \in GoesByState => run.prev = saved
    /\ run.pc = "refused" => codex.market = "other" \/ MayRefuse

-----------------------------------------------------------------------------
(* The types *)

\* Only the step of a run that goes on changes.
LEMMA GotoType ==
  ASSUME run \in Runs, NEW step \in Ends \union InstallSteps \union UninstallSteps, Goto(step)
  PROVE  /\ run' \in Runs /\ run'.pc = step /\ run'.file = 0
         /\ run'.op = run.op /\ run'.version = run.version /\ run'.alias = run.alias
         /\ run'.prev = run.prev /\ run'.edited = run.edited
<1>1. 0 \in 0..(TreeFiles - 1)
  BY InstallAssumption
<1>2. run' = [run EXCEPT !.pc = step, !.file = 0]
  BY DEF Goto
<1> QED BY <1>1, <1>2 DEF Runs

LEMMA CommandType ==
  ASSUME run \in Runs, codex \in Codex, NEW effect \in Codex,
         NEW step \in Ends \union InstallSteps \union UninstallSteps, Command(effect, step)
  PROVE  /\ codex' \in {codex, effect} /\ codex' \in Codex
         /\ Goto(step) \/ Goto("failed")
         /\ Goto("failed") \/ codex' = effect
BY DEF Command

\* A surface is written and the others stay.
LEMMA BinaryType ==
  ASSUME disk \in Disk, NEW content \in Content, Write("binary", content)
  PROVE  /\ disk' \in Disk /\ disk'.binary = content
         /\ disk'.wrapper = disk.wrapper /\ disk'.section = disk.section
         /\ disk'.tree = disk.tree /\ disk'.root = disk.root
BY DEF Disk, Write

LEMMA WrapperType ==
  ASSUME disk \in Disk, NEW content \in TextContent, Write("wrapper", content)
  PROVE  /\ disk' \in Disk /\ disk'.wrapper = content
         /\ disk'.binary = disk.binary /\ disk'.section = disk.section
         /\ disk'.tree = disk.tree /\ disk'.root = disk.root
BY DEF Disk, Write

LEMMA SectionType ==
  ASSUME disk \in Disk, NEW content \in TextContent, Write("section", content)
  PROVE  /\ disk' \in Disk /\ disk'.section = content
         /\ disk'.binary = disk.binary /\ disk'.wrapper = disk.wrapper
         /\ disk'.tree = disk.tree /\ disk'.root = disk.root
BY DEF Disk, Write

LEMMA InitType == Init => InstallerTypeOK
BY InstallAssumption DEF Init, InstallerTypeOK, Disk, Codex, Content, TextContent, States,
       NoState, Ends, NoVersion

LEMMA TreeType ==
  ASSUME disk \in Disk, NEW file \in 1..TreeFiles, NEW content \in Content,
         NEW root \in BOOLEAN,
         disk' = [disk EXCEPT !.tree[file] = content, !.root = root]
  PROVE  /\ disk' \in Disk
         /\ disk'.tree = [disk.tree EXCEPT ![file] = content] /\ disk'.root = root
         /\ disk'.binary = disk.binary /\ disk'.wrapper = disk.wrapper
         /\ disk'.section = disk.section
BY DEF Disk

\* The next file of the tree.
LEMMA FileType ==
  ASSUME run \in Runs
  PROVE  /\ run.file + 1 \in 1..TreeFiles
         /\ run.file + 1 # TreeFiles => run.file + 1 \in 0..(TreeFiles - 1)
<1>1. run.file \in 0..(TreeFiles - 1)
  BY DEF Runs
<1> QED BY <1>1, InstallAssumption

LEMMA OnType ==
  ASSUME run \in Runs, NEW file \in 0..(TreeFiles - 1), run' = [run EXCEPT !.file = file]
  PROVE  /\ run' \in Runs /\ run'.pc = run.pc /\ run'.file = file
         /\ run'.op = run.op /\ run'.version = run.version /\ run'.alias = run.alias
         /\ run'.prev = run.prev /\ run'.edited = run.edited
BY DEF Runs

\* An edit of the user: it may delete the tree, and it writes no section of the installer's.
LEMMA EditType ==
  ASSUME disk \in Disk, Edit
  PROVE  /\ disk' \in Disk
         /\ disk'.root => disk.root
         /\ ~disk'.root => disk'.tree = IF disk.root THEN [f \in 1..TreeFiles |-> NoVersion]
                                        ELSE disk.tree
         /\ disk'.section = "ours" => disk.section = "ours"
<1>1. CASE \E content \in {NoVersion, User} : Write("binary", content)
  <2>1. PICK content \in Content : Write("binary", content)
    BY <1>1 DEF Content
  <2> QED BY <2>1, BinaryType DEF Disk
<1>2. CASE \E content \in {"none", "user"} : Write("wrapper", content)
  <2>1. PICK content \in TextContent : Write("wrapper", content)
    BY <1>2 DEF TextContent
  <2> QED BY <2>1, WrapperType DEF Disk
<1>3. CASE \E content \in {"none", "user"} : Write("section", content)
  <2>1. PICK content \in TextContent : Write("section", content) /\ content # "ours"
    BY <1>3 DEF TextContent
  <2> QED BY <2>1, SectionType DEF Disk
<1>4. CASE \E file \in 1..TreeFiles, content \in {NoVersion, User} :
             disk.root /\ disk' = [disk EXCEPT !.tree[file] = content]
  BY <1>4 DEF Disk, Content
<1>5. CASE disk.root /\ disk' = [disk EXCEPT !.root = FALSE,
                                           !.tree = [f \in 1..TreeFiles |-> NoVersion]]
  BY <1>5 DEF Disk, Content
<1> QED
  BY <1>1, <1>2, <1>3, <1>4, <1>5 DEF Edit

LEMMA TypeNext == InstallerTypeOK /\ RunKnows /\ [Next]_vars => InstallerTypeOK'
<1> SUFFICES ASSUME InstallerTypeOK, RunKnows, [Next]_vars PROVE InstallerTypeOK'
  OBVIOUS
<1> SUFFICES /\ disk' \in Disk /\ codex' \in Codex /\ start' \in [disk : Disk, codex : Codex]
             /\ backup' \in {"absent"} \union TextContent /\ filled' \in BOOLEAN
             /\ saved' \in States /\ run' \in Runs /\ runs' \in 0..MaxRuns
             /\ edits' \in 0..MaxEdits /\ tried' \subseteq Version
  BY DEF InstallerTypeOK, Runs
<1> USE DEF RunStep, OnlyRun, OnlyDisk, OnlyCodex, OnlySaved, At
<1>0. /\ disk \in Disk /\ codex \in Codex /\ start \in [disk : Disk, codex : Codex]
      /\ backup \in {"absent"} \union TextContent /\ filled \in BOOLEAN
      /\ saved \in States /\ run \in Runs /\ runs \in 0..MaxRuns /\ edits \in 0..MaxEdits
      /\ tried \subseteq Version
      /\ run.version \in {0} \union Version
  BY DEF InstallerTypeOK, Runs
<1>1. CASE \E v \in Version, alias \in BOOLEAN : BeginInstall(v, alias)
  BY <1>0, <1>1, InstallAssumption DEF BeginInstall, BeginRun, Runs, InstallSteps, States
<1>2. CASE BeginUninstall
  BY <1>0, <1>2, InstallAssumption
     DEF BeginUninstall, BeginRun, Runs, UninstallSteps, States
<1>3. CASE LoadState
  BY <1>0, <1>3 DEF LoadState, Runs, InstallSteps
<1>4. CASE EnsureQuiescent
  BY <1>0, <1>4, GotoType DEF EnsureQuiescent, InstallSteps, Ends
<1>5. CASE InstallBinary
  BY <1>0, <1>5, GotoType, BinaryType
     DEF InstallBinary, InstallSteps, Ends, Content, NoVersion
<1>6. CASE CheckTree
  BY <1>0, <1>6, GotoType DEF CheckTree, InstallSteps, Ends
<1>7. CASE WriteTreeFile
  <2>1. disk' \in Disk
    BY <1>0, <1>7, FileType, TreeType DEF WriteTreeFile, Content, NoVersion
  <2> QED
    BY <1>0, <1>7, <2>1, GotoType, FileType, OnType DEF WriteTreeFile, InstallSteps, Ends
<1>8. CASE ParseSection
  BY <1>0, <1>8, GotoType, CommandType DEF ParseSection, InstallSteps, Ends
<1>9. CASE CheckSection
  BY <1>0, <1>9, GotoType DEF CheckSection, InstallSteps, Ends, Disk
<1>10. CASE WriteSection
  BY <1>0, <1>10, GotoType, SectionType DEF WriteSection, InstallSteps, TextContent
<1>11. CASE InstallWrapper
  BY <1>0, <1>11, GotoType, WrapperType DEF InstallWrapper, InstallSteps, Ends, TextContent
<1>12. CASE SaveState
  <2>1. run.version \in Version /\ run.alias \in BOOLEAN
    BY <1>0, <1>12 DEF SaveState, RunKnows, InstallSteps, Runs
  <2> QED
    BY <1>0, <1>12, <2>1, GotoType DEF SaveState, InstallSteps, States
<1>13. CASE CheckEffective
  BY <1>0, <1>13, GotoType, CommandType DEF CheckEffective, InstallSteps, Ends
<1>14. CASE AddMarketplace
  <2>1. [codex EXCEPT !.market = "ours"] \in Codex
    BY <1>0 DEF Codex
  <2> QED
    BY <1>0, <1>14, <2>1, GotoType, CommandType DEF AddMarketplace, InstallSteps, Ends
<1>15. CASE ListPlugins
  BY <1>0, <1>15, GotoType, CommandType DEF ListPlugins, InstallSteps, Ends
<1>16. CASE ReplacePlugin
  <2>1. [codex EXCEPT !.plugin = NoVersion] \in Codex
    BY <1>0 DEF Codex, Content
  <2> QED
    BY <1>0, <1>16, <2>1, GotoType, CommandType DEF ReplacePlugin, InstallSteps, Ends
<1>17. CASE AddPlugin
  <2>1. [codex EXCEPT !.plugin = run.version] \in Codex
    BY <1>0 DEF Codex, Content, NoVersion
  <2> QED
    BY <1>0, <1>17, <2>1, GotoType, CommandType DEF AddPlugin, InstallSteps, Ends
<1>18. CASE LoadInstalled
  BY <1>0, <1>18 DEF LoadInstalled, Runs, UninstallSteps, Ends
<1>19. CASE Preflight
  BY <1>0, <1>19, GotoType DEF Preflight, UninstallSteps, Ends
<1>20. CASE ListInstalled
  BY <1>0, <1>20, GotoType, CommandType DEF ListInstalled, UninstallSteps, Ends
<1>21. CASE RemovePlugin
  <2>1. [codex EXCEPT !.plugin = NoVersion] \in Codex
    BY <1>0 DEF Codex, Content
  <2> QED
    BY <1>0, <1>21, <2>1, GotoType, CommandType DEF RemovePlugin, UninstallSteps, Ends
<1>22. CASE ListMarketplaces
  BY <1>0, <1>22, GotoType, CommandType DEF ListMarketplaces, UninstallSteps, Ends
<1>23. CASE RemoveMarketplace
  <2>1. [codex EXCEPT !.market = "none"] \in Codex
    BY <1>0 DEF Codex
  <2> QED
    BY <1>0, <1>23, <2>1, GotoType, CommandType DEF RemoveMarketplace, UninstallSteps, Ends
<1>24. CASE RemoveSection
  BY <1>0, <1>24, GotoType, SectionType
     DEF RemoveSection, RemoveSurface, UninstallSteps, Ends, TextContent
<1>25. CASE RemoveBinary
  BY <1>0, <1>25, GotoType, BinaryType
     DEF RemoveBinary, RemoveSurface, UninstallSteps, Ends, Content
<1>26. CASE RemoveWrapper
  <2>1. disk.wrapper \in TextContent
    BY <1>0 DEF Disk
  <2> QED
    BY <1>0, <1>26, <2>1, GotoType, WrapperType
       DEF RemoveWrapper, RemoveSurface, UninstallSteps, Ends, TextContent
<1>27. CASE JudgeTree
  BY <1>0, <1>27, GotoType DEF JudgeTree, UninstallSteps, Ends
<1>28. CASE RemoveTreeFile
  <2>1. disk' \in Disk
    BY <1>0, <1>28, FileType, TreeType DEF RemoveTreeFile, Content
  <2> QED
    BY <1>0, <1>28, <2>1, GotoType, FileType, OnType
       DEF RemoveTreeFile, UninstallSteps, Ends
<1>29. CASE RemoveState
  BY <1>0, <1>29, GotoType DEF RemoveState, UninstallSteps, Ends, States
<1>30. CASE RunEnds
  BY <1>0, <1>30, GotoType DEF RunEnds, Ends
<1>31. CASE Edit
  <2>1. disk' \in Disk
    BY <1>0, <1>31, EditType
  <2>2. run' \in Runs
    BY <1>0, <1>31 DEF Edit, Runs
  <2>3. edits' \in 0..MaxEdits
    BY <1>0, <1>31, InstallAssumption DEF Edit
  <2> QED
    BY <1>0, <1>31, <2>1, <2>2, <2>3 DEF Edit
<1>32. CASE UNCHANGED vars
  BY <1>0, <1>32 DEF vars
<1> QED
  BY <1>1, <1>2, <1>3, <1>4, <1>5, <1>6, <1>7, <1>8, <1>9, <1>10, <1>11, <1>12, <1>13, <1>14,
     <1>15, <1>16, <1>17, <1>18, <1>19, <1>20, <1>21, <1>22, <1>23, <1>24, <1>25, <1>26,
     <1>27, <1>28, <1>29, <1>30, <1>31, <1>32 DEF Next, Install, Uninstall

-----------------------------------------------------------------------------
(* What a step of a run leaves alone *)

\* The steps of a run, install or uninstall, but for the one that loads the state.
Onward ==
  /\ run'.op = run.op /\ run'.version = run.version /\ run'.alias = run.alias
  /\ run'.prev = run.prev /\ run'.edited = run.edited
  /\ UNCHANGED <<filled, runs, edits, start>>
  /\ tried' = IF run'.pc = "done" THEN {} ELSE tried

\* Which steps follow which.
Successor(pc) ==
  CASE pc = "quiescent" -> {"binary"} [] pc = "binary" -> {"treeCheck"}
    [] pc = "treeCheck" -> {"treeWrite"} [] pc = "treeWrite" -> {"treeWrite", "parse"}
    [] pc = "parse" -> {"section"} [] pc = "section" -> {"sectionWrite"}
    [] pc = "sectionWrite" -> {"wrapper"} [] pc = "wrapper" -> {"state"}
    [] pc = "state" -> {"effective"} [] pc = "effective" -> {"marketAdd"}
    [] pc = "marketAdd" -> {"list"} [] pc = "list" -> {"add", "done", "replace"}
    [] pc = "replace" -> {"add"} [] pc = "add" -> {"done"}
    [] pc = "preflight" -> {"ulist"} [] pc = "ulist" -> {"uremove", "mlist"}
    [] pc = "uremove" -> {"mlist"} [] pc = "mlist" -> {"mremove", "usection"}
    [] pc = "mremove" -> {"usection"} [] pc = "usection" -> {"ubinary"}
    [] pc = "ubinary" -> {"uwrapper"} [] pc = "uwrapper" -> {"treeJudge"}
    [] pc = "treeJudge" -> {"treeRemove", "ustate"}
    [] pc = "treeRemove" -> {"treeRemove", "ustate"} [] pc = "ustate" -> {"done"}
    [] OTHER -> {}

LEMMA StepsOf ==
  ASSUME RunKnows
  PROVE  /\ Install => run.pc \in InstallSteps /\ run.op = "install"
         /\ Uninstall => run.pc \in UninstallSteps /\ run.op = "uninstall"
<1>1. Install => run.pc \in InstallSteps
  BY DEF Install, LoadState, EnsureQuiescent, InstallBinary, CheckTree, WriteTreeFile,
     ParseSection, CheckSection, WriteSection, InstallWrapper, SaveState, CheckEffective,
     AddMarketplace, ListPlugins, ReplacePlugin, AddPlugin, At, InstallSteps
<1>2. Uninstall => run.pc \in UninstallSteps
  BY DEF Uninstall, LoadInstalled, Preflight, ListInstalled, RemovePlugin, ListMarketplaces,
         RemoveMarketplace, RemoveSection, RemoveBinary, RemoveWrapper, RemoveSurface,
         JudgeTree, RemoveTreeFile, RemoveState, At, UninstallSteps
<1> QED BY <1>1, <1>2 DEF RunKnows

LEMMA InstallOnward ==
  ASSUME InstallerTypeOK, Install, ~LoadState
  PROVE  Onward /\ run'.pc \in Successor(run.pc) \union {"refused", "failed"}
<1> USE DEF RunStep, OnlyRun, OnlyDisk, OnlyCodex, OnlySaved, At
<1>1. run \in Runs /\ codex \in Codex
  BY DEF InstallerTypeOK, Runs
<1>2. ASSUME NEW step \in Ends \union InstallSteps \union UninstallSteps, Goto(step)
      PROVE  /\ run'.pc = step
             /\ run'.op = run.op /\ run'.version = run.version /\ run'.alias = run.alias
             /\ run'.prev = run.prev /\ run'.edited = run.edited
  BY <1>1, <1>2, GotoType
<1>3. CASE WriteTreeFile
  BY <1>1, <1>3, <1>2, FileType, OnType
     DEF WriteTreeFile, Onward, Successor, InstallSteps
<1>4. CASE EnsureQuiescent \/ InstallBinary \/ CheckTree
  BY <1>1, <1>4, <1>2
     DEF EnsureQuiescent, InstallBinary, CheckTree, Onward, Successor, InstallSteps, Ends
<1>5. CASE ParseSection \/ CheckSection \/ WriteSection \/ InstallWrapper
  BY <1>1, <1>5, <1>2
     DEF ParseSection, CheckSection, WriteSection, InstallWrapper, Command, Onward,
         Successor, InstallSteps, Ends
<1>6. CASE SaveState \/ CheckEffective \/ AddMarketplace \/ ListPlugins
  BY <1>1, <1>6, <1>2
     DEF SaveState, CheckEffective, AddMarketplace, ListPlugins, Command, Onward, Successor,
         InstallSteps, Ends
<1>7. CASE ReplacePlugin \/ AddPlugin
  BY <1>1, <1>7, <1>2
     DEF ReplacePlugin, AddPlugin, Command, Onward, Successor, InstallSteps, Ends
<1> QED
  BY <1>3, <1>4, <1>5, <1>6, <1>7 DEF Install

LEMMA UninstallOnward ==
  ASSUME InstallerTypeOK, Uninstall, ~LoadInstalled
  PROVE  Onward /\ run'.pc \in Successor(run.pc) \union {"refused", "failed"}
<1> USE DEF RunStep, OnlyRun, OnlyDisk, OnlyCodex, OnlySaved, At
<1>1. run \in Runs /\ codex \in Codex
  BY DEF InstallerTypeOK, Runs
<1>2. ASSUME NEW step \in Ends \union InstallSteps \union UninstallSteps, Goto(step)
      PROVE  /\ run'.pc = step
             /\ run'.op = run.op /\ run'.version = run.version /\ run'.alias = run.alias
             /\ run'.prev = run.prev /\ run'.edited = run.edited
  BY <1>1, <1>2, GotoType
<1>3. CASE RemoveTreeFile
  BY <1>1, <1>3, <1>2, FileType, OnType
     DEF RemoveTreeFile, Onward, Successor, UninstallSteps
<1>4. CASE Preflight \/ ListInstalled \/ RemovePlugin
  BY <1>1, <1>4, <1>2
     DEF Preflight, ListInstalled, RemovePlugin, Command, Onward, Successor, UninstallSteps,
         Ends
<1>5. CASE ListMarketplaces \/ RemoveMarketplace
  BY <1>1, <1>5, <1>2
     DEF ListMarketplaces, RemoveMarketplace, Command, Onward, Successor, UninstallSteps,
         Ends
<1>6. CASE RemoveSection \/ RemoveBinary \/ RemoveWrapper
  BY <1>1, <1>6, <1>2
     DEF RemoveSection, RemoveBinary, RemoveWrapper, RemoveSurface, Onward, Successor,
         UninstallSteps, Ends
<1>7. CASE JudgeTree \/ RemoveState
  BY <1>1, <1>7, <1>2 DEF JudgeTree, RemoveState, Onward, Successor, UninstallSteps, Ends
<1> QED
  BY <1>3, <1>4, <1>5, <1>6, <1>7 DEF Uninstall

LEMMA EndsOnward ==
  ASSUME InstallerTypeOK, RunEnds
  PROVE  Onward /\ run'.pc = "failed" /\ UNCHANGED <<disk, backup, saved, codex>>
<1>1. run \in Runs
  BY DEF InstallerTypeOK, Runs
<1>2. /\ run'.pc = "failed" /\ run'.op = run.op /\ run'.version = run.version
      /\ run'.alias = run.alias /\ run'.prev = run.prev /\ run'.edited = run.edited
  BY <1>1, GotoType DEF RunEnds, Ends
<1> QED
  BY <1>2 DEF RunEnds, OnlyRun, RunStep, Onward

\* The steps that are not of the kind above.
LEMMA OtherSteps ==
  ASSUME InstallerTypeOK, [Next]_vars
  PROVE  \/ \E v \in Version, alias \in BOOLEAN : BeginInstall(v, alias)
         \/ BeginUninstall \/ LoadState \/ LoadInstalled \/ Edit \/ UNCHANGED vars
         \/ Install /\ Onward /\ run'.pc \in Successor(run.pc) \union {"refused", "failed"}
         \/ Uninstall /\ Onward /\ run'.pc \in Successor(run.pc) \union {"refused", "failed"}
         \/ RunEnds /\ Onward /\ run'.pc = "failed"
BY InstallOnward, UninstallOnward, EndsOnward DEF Next

LEMMA KnowsNext ==
  ASSUME InstallerTypeOK, RunKnows, [Next]_vars
  PROVE  RunKnows'
<1>1. run \in Runs /\ saved \in States /\ edits \in Nat
  BY InstallAssumption DEF InstallerTypeOK, Runs
<1>2. CASE \E v \in Version, alias \in BOOLEAN : BeginInstall(v, alias)
  BY <1>2 DEF BeginInstall, BeginRun, RunKnows, InstallSteps, UninstallSteps
<1>3. CASE BeginUninstall
  BY <1>3 DEF BeginUninstall, BeginRun, RunKnows, InstallSteps, UninstallSteps
<1>4. CASE LoadState \/ LoadInstalled
  <2>1. ASSUME NEW pc, run' = [run EXCEPT !.prev = saved, !.pc = pc]
        PROVE  /\ run'.op = run.op /\ run'.version = run.version /\ run'.edited = run.edited
               /\ run'.prev = saved /\ run'.pc = pc
    BY <1>1, <2>1 DEF Runs
  <2>2. edits' = edits
    BY <1>4 DEF LoadState, LoadInstalled, OnlyRun, RunStep
  <2>3. CASE LoadState
    <3>1. PICK pc \in {"binary", "quiescent"} : run' = [run EXCEPT !.prev = saved, !.pc = pc]
      BY <2>3 DEF LoadState
    <3> QED
      BY <1>1, <2>1, <2>2, <2>3, <3>1
         DEF LoadState, At, RunKnows, InstallSteps, UninstallSteps
  <2>4. CASE LoadInstalled
    <3>1. PICK pc \in {"refused", "preflight"} :
            /\ run' = [run EXCEPT !.prev = saved, !.pc = pc]
            /\ pc = "preflight" => saved # NoState
      BY <2>4 DEF LoadInstalled
    <3> QED
      BY <1>1, <2>1, <2>2, <2>4, <3>1
         DEF LoadInstalled, At, RunKnows, InstallSteps, UninstallSteps
  <2> QED
    BY <1>4, <2>3, <2>4
<1>5. CASE Edit
  BY <1>1, <1>5 DEF Edit, RunKnows, Runs, InstallSteps, UninstallSteps
<1>6. CASE Onward /\ run'.pc \in Successor(run.pc) \union {"refused", "failed"}
  BY <1>6 DEF Onward, Successor, RunKnows, InstallSteps, UninstallSteps
<1>7. CASE UNCHANGED vars
  BY <1>7 DEF vars, RunKnows
<1> QED
  BY <1>2, <1>3, <1>4, <1>5, <1>6, <1>7, OtherSteps

\* What codex keeps changes by a command alone.
LEMMA OthersNext ==
  ASSUME InstallerTypeOK, RunKnows, OthersApart, [Next]_vars
  PROVE  OthersApart' /\ (codex.market = "other" => codex' = codex)
<1> USE DEF RunStep, OnlyRun, OnlyDisk, OnlyCodex, OnlySaved, At
<1>1. /\ run \in Runs /\ codex \in Codex
      /\ User \notin Version /\ User # NoVersion
      /\ run.pc \in InstallSteps => run.version \in Version
  BY InstallAssumption DEF InstallerTypeOK, Runs, User, NoVersion, RunKnows
<1>2. ASSUME NEW step \in Ends \union InstallSteps \union UninstallSteps, Goto(step)
      PROVE  run'.pc = step
  BY <1>1, <1>2, GotoType
<1>3. /\ [codex EXCEPT !.market = "ours"] = [market |-> "ours", plugin |-> codex.plugin]
      /\ [codex EXCEPT !.market = "none"] = [market |-> "none", plugin |-> codex.plugin]
      /\ \A v : [codex EXCEPT !.plugin = v] = [market |-> codex.market, plugin |-> v]
  BY <1>1 DEF Codex
<1>4. CASE \/ \E v \in Version, alias \in BOOLEAN : BeginInstall(v, alias)
           \/ BeginUninstall
  BY <1>4 DEF BeginInstall, BeginUninstall, BeginRun, OthersApart, AfterMarket
<1>5. CASE LoadState \/ LoadInstalled
  BY <1>1, <1>5 DEF LoadState, LoadInstalled, OthersApart, AfterMarket, Runs
<1>6. CASE Edit
  BY <1>1, <1>6 DEF Edit, OthersApart, Runs
<1>7. CASE EnsureQuiescent \/ InstallBinary \/ CheckTree
  BY <1>1, <1>7, <1>2
     DEF EnsureQuiescent, InstallBinary, CheckTree, OthersApart, AfterMarket, InstallSteps,
         Ends
<1>8. CASE WriteTreeFile \/ RemoveTreeFile
  BY <1>1, <1>8, <1>2, FileType, OnType
     DEF WriteTreeFile, RemoveTreeFile, OthersApart, AfterMarket, InstallSteps,
         UninstallSteps
<1>9. CASE ParseSection \/ CheckSection \/ WriteSection \/ InstallWrapper
  BY <1>1, <1>9, <1>2
     DEF ParseSection, CheckSection, WriteSection, InstallWrapper, Command, OthersApart,
         AfterMarket, InstallSteps, Ends
<1>10. CASE SaveState \/ CheckEffective
  BY <1>1, <1>10, <1>2
     DEF SaveState, CheckEffective, Command, OthersApart, AfterMarket, InstallSteps, Ends
<1>11. CASE AddMarketplace
  BY <1>1, <1>11, <1>2, <1>3
     DEF AddMarketplace, Command, OthersApart, AfterMarket, InstallSteps, Ends
<1>12. CASE ListPlugins
  BY <1>1, <1>12, <1>2
     DEF ListPlugins, Command, OthersApart, AfterMarket, InstallSteps, Ends
<1>13. CASE ReplacePlugin
  BY <1>1, <1>13, <1>2, <1>3
     DEF ReplacePlugin, Command, OthersApart, AfterMarket, InstallSteps, Ends
<1>14. CASE AddPlugin
  BY <1>1, <1>14, <1>2, <1>3
     DEF AddPlugin, Command, OthersApart, AfterMarket, InstallSteps, Ends
<1>15. CASE Preflight \/ JudgeTree \/ RemoveState
  BY <1>1, <1>15, <1>2
     DEF Preflight, JudgeTree, RemoveState, OthersApart, AfterMarket, UninstallSteps, Ends
<1>16. CASE ListInstalled
  BY <1>1, <1>16, <1>2
     DEF ListInstalled, Command, OthersApart, AfterMarket, UninstallSteps, Ends
<1>17. CASE RemovePlugin
  BY <1>1, <1>17, <1>2, <1>3
     DEF RemovePlugin, Command, OthersApart, AfterMarket, UninstallSteps, Ends
<1>18. CASE ListMarketplaces
  BY <1>1, <1>18, <1>2
     DEF ListMarketplaces, Command, OthersApart, AfterMarket, UninstallSteps, Ends, Codex
<1>19. CASE RemoveMarketplace
  BY <1>1, <1>19, <1>2, <1>3
     DEF RemoveMarketplace, Command, OthersApart, AfterMarket, UninstallSteps, Ends
<1>20. CASE RemoveSection \/ RemoveBinary \/ RemoveWrapper
  BY <1>1, <1>20, <1>2
     DEF RemoveSection, RemoveBinary, RemoveWrapper, RemoveSurface, OthersApart,
         AfterMarket, UninstallSteps, Ends
<1>21. CASE RunEnds
  BY <1>21, EndsOnward DEF OthersApart, AfterMarket
<1>22. CASE UNCHANGED vars
  BY <1>22 DEF vars, OthersApart
<1> QED
  BY <1>4, <1>5, <1>6, <1>7, <1>8, <1>9, <1>10, <1>11, <1>12, <1>13, <1>14, <1>15, <1>16,
     <1>17, <1>18, <1>19, <1>20, <1>21, <1>22 DEF Next, Install, Uninstall

-----------------------------------------------------------------------------
(* The tree *)

LEMMA HashOfWhole ==
  ASSUME disk \in Disk, NEW v \in Version
  PROVE  TreeHash = v <=> \A f \in 1..TreeFiles : disk.tree[f] = v
<1>1. 1 \in 1..TreeFiles /\ v # 0 /\ v # User
  BY InstallAssumption DEF NoVersion
<1>2. ASSUME \A f \in 1..TreeFiles : disk.tree[f] = v
      PROVE  TreeHash = v
  BY <1>1, <1>2 DEF TreeHash, NoVersion
<1>3. ASSUME TreeHash = v
      PROVE  \A f \in 1..TreeFiles : disk.tree[f] = v
  BY <1>1, <1>3 DEF TreeHash, NoVersion
<1> QED BY <1>2, <1>3

\* What the installer calls unmodified holds nothing of the user's.
LEMMA UnmodifiedIsOurs ==
  ASSUME InstallerTypeOK, RunKnows, TreeUnmodified, disk.root,
         run.pc \in UninstallSteps \ {"uload"}
  PROVE  \A f \in 1..TreeFiles : disk.tree[f] # User
<1>1. run.prev.version \in Version
  BY DEF RunKnows, States, NoState
<1> QED
  BY <1>1, HashOfWhole, InstallAssumption DEF TreeUnmodified, InstallerTypeOK

\* The files up to the next one.
LEMMA Files ==
  ASSUME run \in Runs
  PROVE  \A f \in 1..(run.file + 1) :
           f \in 1..TreeFiles /\ (f \in 1..run.file \/ f = run.file + 1)
<1>1. run.file \in 0..(TreeFiles - 1)
  BY DEF Runs
<1> QED BY <1>1, InstallAssumption

LEMMA UsersNext ==
  ASSUME InstallerInv, [Next]_vars
  PROVE  /\ NotTheUsers'
         /\ edits' = edits =>
              /\ disk.binary = User => disk'.binary = User
              /\ disk.wrapper = "user" => disk'.wrapper = "user"
              /\ disk.section = "user" => disk'.section = "user"
              /\ \A f \in 1..TreeFiles : disk.tree[f] = User => disk'.tree[f] = User
<1> DEFINE Kept == /\ disk.binary = User => disk'.binary = User
                   /\ disk.wrapper = "user" => disk'.wrapper = "user"
                   /\ disk.section = "user" => disk'.section = "user"
                   /\ \A f \in 1..TreeFiles : disk.tree[f] = User => disk'.tree[f] = User
<1> SUFFICES NotTheUsers' /\ (edits' = edits => Kept)
  OBVIOUS
<1> USE DEF RunStep, OnlyRun, OnlyDisk, OnlyCodex, OnlySaved, At
<1>1. /\ InstallerTypeOK /\ RunKnows /\ NotTheUsers /\ run \in Runs /\ disk \in Disk
      /\ disk.tree \in [1..TreeFiles -> Content]
      /\ User \notin Version /\ User # NoVersion
      /\ run.version \in {0} \union Version /\ run.prev.version \in {0} \union Version
      /\ run.pc \in InstallSteps => run.version \in Version
      /\ edits \in Nat
  BY InstallAssumption
     DEF InstallerInv, InstallerTypeOK, Runs, States, NoState, Disk, User, NoVersion,
         RunKnows
<1>2. ASSUME NEW step \in Ends \union InstallSteps \union UninstallSteps, Goto(step)
      PROVE  run'.pc = step /\ run'.file = 0
  BY <1>1, <1>2, GotoType
<1>3. ASSUME disk' = disk, run'.pc \notin Unwatched \/ run' = run
      PROVE  NotTheUsers' /\ Kept
  BY <1>1, <1>3 DEF NotTheUsers, Unwatched, InTree, Missing
<1>4. CASE \/ \E v \in Version, alias \in BOOLEAN : BeginInstall(v, alias)
           \/ BeginUninstall
  BY <1>3, <1>4 DEF BeginInstall, BeginUninstall, BeginRun, Unwatched, InTree
<1>5. CASE LoadState \/ LoadInstalled
  BY <1>1, <1>5, <1>3 DEF LoadState, LoadInstalled, Runs, Unwatched, InTree
<1>6. CASE Edit
  <2>1. edits' # edits /\ run'.pc = run.pc /\ run.pc \notin Unwatched
    BY <1>1, <1>6 DEF Edit, Runs
  <2>2. ~disk'.root => Missing'
    BY <1>1, <1>6, EditType DEF NotTheUsers, Missing
  <2> QED BY <2>1, <2>2 DEF NotTheUsers, Unwatched, InTree
<1>7. CASE InstallBinary
  <2>1. CASE disk' = disk /\ Goto("refused")
    BY <1>2, <1>3, <2>1 DEF Unwatched, InTree, Ends
  <2>2. CASE /\ disk.binary \in {NoVersion, run.version, run.prev.version}
             /\ Write("binary", run.version) /\ Goto("treeCheck")
    <3>1. /\ disk'.binary = run.version /\ disk'.wrapper = disk.wrapper
          /\ disk'.section = disk.section /\ disk'.tree = disk.tree /\ disk'.root = disk.root
      BY <1>1, <2>2, BinaryType DEF Content, NoVersion
    <3>2. run'.pc = "treeCheck"
      BY <1>2, <2>2 DEF InstallSteps
    <3>3. disk.binary # User
      BY <1>1, <2>2 DEF NoVersion, User
    <3> QED BY <1>1, <3>1, <3>2, <3>3 DEF NotTheUsers, Missing, InTree
  <2> QED BY <1>7, <2>1, <2>2 DEF InstallBinary, MayReplace
<1>8. CASE CheckTree
  <2>1. CASE Goto("refused")
    BY <1>2, <1>3, <1>8, <2>1 DEF CheckTree, Unwatched, InTree, Ends
  <2>2. CASE /\ ~disk.root \/ (TreeHash # 0 /\ TreeHash \in {run.version, run.prev.version})
             /\ Goto("treeWrite")
    <3>1. \A f \in 1..TreeFiles : disk.tree[f] # User
      <4>1. CASE ~disk.root
        BY <1>1, <4>1 DEF NotTheUsers, Missing
      <4>2. CASE TreeHash \in Version
        BY <1>1, <4>2, HashOfWhole
      <4> QED BY <1>1, <2>2, <4>1, <4>2
    <3>2. run'.pc = "treeWrite"
      BY <1>2, <2>2 DEF InstallSteps
    <3> QED BY <1>1, <1>8, <3>1, <3>2 DEF CheckTree, NotTheUsers, Missing
  <2> QED BY <1>8, <2>1, <2>2 DEF CheckTree
<1>9. CASE WriteTreeFile
  <2>1. /\ disk'.tree = [disk.tree EXCEPT ![run.file + 1] = run.version] /\ disk'.root
        /\ disk'.binary = disk.binary /\ disk'.wrapper = disk.wrapper
        /\ disk'.section = disk.section
    <3>1. run.file + 1 \in 1..TreeFiles /\ run.version \in Content /\ disk \in Disk
      BY <1>1, <1>9, FileType DEF Content, NoVersion, Runs
    <3>2. TRUE \in BOOLEAN
      OBVIOUS
    <3>3. disk' = [disk EXCEPT !.tree[run.file + 1] = run.version, !.root = TRUE]
      BY <1>1, <1>9 DEF WriteTreeFile
    <3> QED
      BY <3>1, <3>2, <3>3, TreeType
  <2>2. run'.pc \in {"treeWrite", "parse"} /\ run.pc = "treeWrite"
    BY <1>1, <1>2, <1>9, FileType, OnType DEF WriteTreeFile, InstallSteps
  <2> QED
    BY <1>1, <2>1, <2>2 DEF NotTheUsers, Unwatched, InTree, InstallSteps
<1>10. CASE EnsureQuiescent \/ ParseSection
  BY <1>1, <1>2, <1>3, <1>10
     DEF EnsureQuiescent, ParseSection, Command, Unwatched, InTree, InstallSteps, Ends
<1>11. CASE CheckSection
  BY <1>1, <1>2, <1>11
     DEF CheckSection, MayReplace, OwnedText, NotTheUsers, Missing, InTree, InstallSteps,
         Ends
<1>12. CASE WriteSection
  BY <1>1, <1>2, <1>12, SectionType
     DEF WriteSection, NotTheUsers, Missing, InTree, InstallSteps, TextContent
<1>13. CASE InstallWrapper
  BY <1>1, <1>2, <1>3, <1>13, WrapperType
     DEF InstallWrapper, MayReplace, OwnedText, NotTheUsers, Missing, Unwatched, InTree,
         InstallSteps, Ends, TextContent
<1>14. CASE SaveState \/ CheckEffective \/ AddMarketplace
  BY <1>1, <1>2, <1>3, <1>14
     DEF SaveState, CheckEffective, AddMarketplace, Command, Unwatched, InTree,
         InstallSteps, Ends
<1>15. CASE ListPlugins \/ ReplacePlugin \/ AddPlugin
  BY <1>1, <1>2, <1>3, <1>15
     DEF ListPlugins, ReplacePlugin, AddPlugin, Command, Unwatched, InTree, InstallSteps,
         Ends
<1>16. CASE Preflight \/ ListInstalled \/ RemovePlugin \/ ListMarketplaces
              \/ RemoveMarketplace \/ RemoveState
  BY <1>1, <1>2, <1>3, <1>16
     DEF Preflight, ListInstalled, RemovePlugin, ListMarketplaces, RemoveMarketplace,
         RemoveState, Command, Unwatched, InTree, UninstallSteps, Ends
<1>17. CASE RemoveSection
  BY <1>1, <1>2, <1>3, <1>17, SectionType
     DEF RemoveSection, RemoveSurface, SectionUnmodified, Unmodified, NotTheUsers, Missing,
         Unwatched, InTree, UninstallSteps, Ends, TextContent
<1>18. CASE RemoveBinary
  BY <1>1, <1>2, <1>3, <1>18, BinaryType
     DEF RemoveBinary, RemoveSurface, BinaryUnmodified, Unmodified, NotTheUsers, Missing,
         Unwatched, InTree, UninstallSteps, Ends, Content, NoVersion
<1>19. CASE RemoveWrapper
  <2>1. disk.wrapper \in TextContent
    BY <1>1 DEF Disk
  <2> QED
    BY <1>1, <1>2, <1>3, <1>19, <2>1, WrapperType
       DEF RemoveWrapper, RemoveSurface, WrapperUnmodified, Unmodified, NotTheUsers,
           Missing, Unwatched, InTree, UninstallSteps, Ends, TextContent
<1>20. CASE JudgeTree
  BY <1>1, <1>2, <1>20, UnmodifiedIsOurs
     DEF JudgeTree, NotTheUsers, Missing, Unwatched, InTree, UninstallSteps, Ends
<1>21. CASE RemoveTreeFile
  <2>1. /\ disk'.tree = [disk.tree EXCEPT ![run.file + 1] = NoVersion]
        /\ disk'.root = (run.file + 1 # TreeFiles)
        /\ disk'.binary = disk.binary /\ disk'.wrapper = disk.wrapper
        /\ disk'.section = disk.section
    <3>1. run.file + 1 \in 1..TreeFiles /\ NoVersion \in Content /\ disk \in Disk
      BY <1>1, <1>21, FileType DEF Content, NoVersion, Runs
    <3>2. (run.file + 1 # TreeFiles) \in BOOLEAN
      OBVIOUS
    <3>3. disk' = [disk EXCEPT !.tree[run.file + 1] = NoVersion, !.root = run.file + 1 # TreeFiles]
      BY <1>1, <1>21 DEF RemoveTreeFile
    <3> QED
      BY <3>1, <3>2, <3>3, TreeType
  <2>2. /\ run.pc = "treeRemove" /\ run.file + 1 \in 1..TreeFiles
        /\ \/ run.file + 1 = TreeFiles /\ run'.pc = "ustate"
           \/ run.file + 1 # TreeFiles /\ run'.pc = "treeRemove" /\ run'.file = run.file + 1
    BY <1>1, <1>2, <1>21, FileType, OnType DEF RemoveTreeFile, UninstallSteps
  <2>3. \A f \in 1..(run.file + 1) : disk'.tree[f] = NoVersion
    BY <1>1, <2>1, <2>2, Files DEF NotTheUsers
  <2>4. disk'.tree \in [1..TreeFiles -> Content]
    BY <1>1, <2>1 DEF Content
  <2>5. ~disk'.root => Missing'
    BY <2>1, <2>2, <2>3, <2>4 DEF Missing
  <2>6. \A f \in 1..TreeFiles : disk'.tree[f] # User
    BY <1>1, <2>1, <2>2 DEF NotTheUsers, InTree
  <2> QED
    BY <1>1, <2>1, <2>2, <2>3, <2>5, <2>6 DEF NotTheUsers, InTree
<1>22. CASE RunEnds
  BY <1>3, <1>22, EndsOnward, <1>1 DEF Unwatched, InTree
<1>23. CASE UNCHANGED vars
  BY <1>3, <1>23 DEF vars
<1> QED
  BY <1>4, <1>5, <1>6, <1>7, <1>8, <1>9, <1>10, <1>11, <1>12, <1>13, <1>14, <1>15, <1>16,
     <1>17, <1>18, <1>19, <1>20, <1>21, <1>22, <1>23 DEF Next, Install, Uninstall

-----------------------------------------------------------------------------
(* The types and the user's content *)

LEMMA InvInit == Init => InstallerInv
<1> SUFFICES ASSUME Init PROVE InstallerInv
  OBVIOUS
<1>1. InstallerTypeOK
  BY InitType
<1>2. RunKnows
  BY DEF Init, RunKnows, InstallSteps, UninstallSteps
<1>3. OthersApart
  BY DEF Init, OthersApart, AfterMarket, User, NoVersion
<1>4. NotTheUsers
  BY DEF Init, NotTheUsers, Missing, InTree
<1> QED BY <1>1, <1>2, <1>3, <1>4 DEF InstallerInv

LEMMA InvNext == InstallerInv /\ [Next]_vars => InstallerInv'
BY TypeNext, KnowsNext, OthersNext, UsersNext DEF InstallerInv

LEMMA InstallerInvariant == Spec => []InstallerInv
BY InvInit, InvNext, PTL DEF Spec

\* The variables of the installer, its install state and its run keep to their types.
THEOREM InstallerTypeCorrect == Spec => []InstallerTypeOK
<1>1. InstallerInv => InstallerTypeOK
  BY DEF InstallerInv
<1> QED BY <1>1, InstallerInvariant, PTL

\* No step of install or uninstall, whatever runs, faults and edits came before it,
\* replaces or removes what the user has written, or what codex keeps for another
\* installation (protect_owned_file_before_replace, validate_owned_file,
\* require_same_path).
THEOREM UsersContentIsKept == Spec => UserContentKept
<1>1. InstallerInv /\ [Next]_vars =>
        [edits' = edits =>
           /\ disk.binary = User => disk'.binary = User
           /\ disk.wrapper = "user" => disk'.wrapper = "user"
           /\ disk.section = "user" => disk'.section = "user"
           /\ \A f \in 1..TreeFiles : disk.tree[f] = User => disk'.tree[f] = User
           /\ codex.market = "other" => codex' = codex]_vars
  BY UsersNext, OthersNext DEF InstallerInv
<1> QED BY <1>1, InstallerInvariant, PTL DEF Spec, UserContentKept

-----------------------------------------------------------------------------
(* An install that succeeds *)

LEMMA InstallProgressNext ==
  ASSUME InstallerInv, InstallProgress, [Next]_vars
  PROVE  InstallProgress'
<1> USE DEF RunStep, OnlyRun, OnlyDisk, OnlyCodex, OnlySaved, At,
        AfterBinary, AfterTree, AfterSection, AfterWrapper, AfterState, AfterMarket
<1>1. /\ InstallerTypeOK /\ RunKnows /\ OthersApart /\ NotTheUsers
      /\ run \in Runs /\ disk \in Disk /\ codex \in Codex
      /\ disk.tree \in [1..TreeFiles -> Content]
      /\ run.version \in {0} \union Version
      /\ run.pc \in InstallSteps => run.op = "install" /\ run.version \in Version
  BY DEF InstallerInv, InstallerTypeOK, Runs, Disk, RunKnows
<1>2. ASSUME NEW step \in Ends \union InstallSteps \union UninstallSteps, Goto(step)
      PROVE  run'.pc = step /\ run'.file = 0
  BY <1>1, <1>2, GotoType
<1>3. ASSUME run'.pc \in {"load", "quiescent", "binary", "uload", "refused", "failed"}
      PROVE  InstallProgress'
  BY <1>3 DEF InstallProgress
<1>4. ASSUME run'.op # "install" \/ run'.edited
      PROVE  InstallProgress'
  BY <1>4 DEF InstallProgress
<1>5. CASE \E v \in Version, alias \in BOOLEAN : BeginInstall(v, alias)
  BY <1>3, <1>5 DEF BeginInstall, BeginRun
<1>6. CASE BeginUninstall \/ LoadState
  <2>1. CASE BeginUninstall
    BY <1>3, <2>1 DEF BeginUninstall, BeginRun
  <2>2. CASE LoadState
    <3>1. PICK pc \in {"binary", "quiescent"} : run' = [run EXCEPT !.prev = saved, !.pc = pc]
      BY <2>2 DEF LoadState
    <3> QED BY <1>1, <1>3, <3>1 DEF Runs
  <2> QED BY <1>6, <2>1, <2>2
<1>7. CASE LoadInstalled \/ Edit
  BY <1>1, <1>4, <1>7 DEF LoadInstalled, Edit, Runs, RunKnows, UninstallSteps
<1>8. CASE Uninstall /\ Onward
  BY <1>1, <1>4, <1>8, StepsOf DEF Onward
<1>9. CASE UNCHANGED vars
  BY <1>9 DEF vars, InstallProgress
<1>10. CASE RunEnds /\ run'.pc = "failed"
  BY <1>3, <1>10
<1>11. ASSUME Install, Onward, ~LoadState, run.op = "install", ~run.edited
       PROVE  InstallProgress'
  <2>0. /\ run'.op = run.op /\ run'.version = run.version /\ run'.alias = run.alias
        /\ run'.edited = run.edited
    BY <1>11 DEF Onward
  <2>1. CASE EnsureQuiescent
    BY <1>2, <1>3, <2>1 DEF EnsureQuiescent, InstallSteps, Ends
  <2>2. CASE InstallBinary
    <3>1. CASE Goto("refused")
      BY <1>2, <1>3, <3>1 DEF Ends
    <3>2. CASE Write("binary", run.version) /\ Goto("treeCheck")
      <4>1. disk'.binary = run.version
        BY <1>1, <3>2, BinaryType DEF Content, NoVersion
      <4>2. run'.pc = "treeCheck"
        BY <1>2, <3>2 DEF InstallSteps
      <4> QED BY <2>0, <4>1, <4>2 DEF InstallProgress
    <3> QED BY <2>2, <3>1, <3>2 DEF InstallBinary
  <2>3. CASE CheckTree
    BY <1>1, <1>2, <1>3, <1>11, <2>0, <2>3
       DEF CheckTree, InstallSteps, Ends, InstallProgress
  <2>4. CASE WriteTreeFile
    <3>1. /\ disk'.tree = [disk.tree EXCEPT ![run.file + 1] = run.version] /\ disk'.root
          /\ disk'.binary = disk.binary
      <4>1. run.file + 1 \in 1..TreeFiles /\ run.version \in Content /\ disk \in Disk
        BY <1>1, <2>4, FileType DEF Content, NoVersion, Runs
      <4>2. TRUE \in BOOLEAN
        OBVIOUS
      <4>3. disk' = [disk EXCEPT !.tree[run.file + 1] = run.version, !.root = TRUE]
        BY <1>1, <2>4 DEF WriteTreeFile
      <4> QED
        BY <4>1, <4>2, <4>3, TreeType
    <3>2. /\ run.pc = "treeWrite" /\ run.file + 1 \in 1..TreeFiles
          /\ \/ run.file + 1 = TreeFiles /\ run'.pc = "parse"
             \/ run.file + 1 # TreeFiles /\ run'.pc = "treeWrite" /\ run'.file = run.file + 1
      BY <1>1, <1>2, <2>4, FileType, OnType DEF WriteTreeFile, InstallSteps
    <3>3. \A f \in 1..(run.file + 1) : disk'.tree[f] = run.version
      <4>1. \A f \in 1..run.file : disk.tree[f] = run.version
        BY <1>11, <3>2 DEF InstallProgress
      <4> QED BY <1>1, <3>1, <4>1, Files
    <3> QED
      BY <1>11, <2>0, <3>1, <3>2, <3>3 DEF InstallProgress
  <2>5. CASE ParseSection \/ CheckSection
    BY <1>1, <1>2, <1>3, <1>11, <2>0, <2>5
       DEF ParseSection, CheckSection, Command, InstallSteps, Ends, InstallProgress
  <2>6. CASE WriteSection
    BY <1>1, <1>2, <1>11, <2>0, <2>6, SectionType
       DEF WriteSection, InstallSteps, TextContent, InstallProgress
  <2>7. CASE InstallWrapper
    BY <1>1, <1>2, <1>3, <1>11, <2>0, <2>7, WrapperType
       DEF InstallWrapper, InstallSteps, Ends, TextContent, InstallProgress
  <2>8. CASE SaveState
    BY <1>1, <1>2, <1>11, <2>0, <2>8 DEF SaveState, InstallSteps, InstallProgress
  <2>9. CASE CheckEffective
    BY <1>1, <1>2, <1>3, <1>11, <2>0, <2>9
       DEF CheckEffective, Command, InstallSteps, Ends, InstallProgress
  <2>10. CASE AddMarketplace
    BY <1>1, <1>2, <1>3, <1>11, <2>0, <2>10
       DEF AddMarketplace, Command, InstallSteps, Ends, InstallProgress
  <2>11. CASE ListPlugins
    <3>1. CASE run'.pc \in {"refused", "failed"}
      BY <1>3, <3>1
    <3>2. /\ codex' = codex /\ run.pc = "list" /\ codex.market = "ours"
          /\ run'.pc \in {"refused", "failed", "add", "replace", "done"}
          /\ run'.pc = "done" => codex.plugin = run.version
      BY <1>1, <1>2, <2>11
         DEF ListPlugins, Command, OthersApart, InstallSteps, Ends
    <3>3. run'.pc = "done" => codex = [market |-> "ours", plugin |-> run.version]
      BY <1>1, <3>2 DEF Codex
    <3> QED
      BY <1>11, <2>0, <2>11, <3>1, <3>2, <3>3 DEF ListPlugins, InstallProgress
  <2>12. CASE ReplacePlugin
    BY <1>1, <1>2, <1>3, <1>11, <2>0, <2>12
       DEF ReplacePlugin, Command, InstallSteps, Ends, InstallProgress
  <2>13. CASE AddPlugin
    <3>1. [codex EXCEPT !.plugin = run.version] = [market |-> "ours", plugin |-> run.version]
      BY <1>1, <2>13 DEF AddPlugin, OthersApart, Codex
    <3> QED
      BY <1>1, <1>2, <1>3, <1>11, <2>0, <2>13, <3>1
         DEF AddPlugin, Command, InstallSteps, Ends, InstallProgress
  <2> QED
    BY <1>11, <2>1, <2>2, <2>3, <2>4, <2>5, <2>6, <2>7, <2>8, <2>9, <2>10, <2>11, <2>12,
       <2>13 DEF Install
<1> QED
  BY <1>4, <1>5, <1>6, <1>7, <1>8, <1>9, <1>10, <1>11, OtherSteps DEF Onward, InstallerInv

-----------------------------------------------------------------------------
(* An uninstall that refuses or succeeds *)

LEMMA UninstallProgressNext ==
  ASSUME InstallerInv, UninstallProgress, [Next]_vars
  PROVE  UninstallProgress'
<1> USE DEF RunStep, OnlyRun, OnlyDisk, OnlyCodex, OnlySaved, At,
        BeforeRemoval, BeforeSection, BeforeBinary, BeforeWrapper, BeforeTree
<1>1. /\ InstallerTypeOK /\ RunKnows /\ OthersApart /\ NotTheUsers
      /\ run \in Runs /\ disk \in Disk /\ codex \in Codex
      /\ run.pc \in UninstallSteps => run.op = "uninstall"
      /\ NoVersion \notin Version /\ User \notin Version
  BY InstallAssumption DEF InstallerInv, InstallerTypeOK, Runs, RunKnows
<1>2. ASSUME NEW step \in Ends \union InstallSteps \union UninstallSteps, Goto(step)
      PROVE  run'.pc = step /\ run'.file = 0
  BY <1>1, <1>2, GotoType
<1>3. ASSUME run'.pc \in {"load", "failed"}
      PROVE  UninstallProgress'
  BY <1>3 DEF UninstallProgress
<1>4. ASSUME run'.op # "uninstall" \/ run'.edited
      PROVE  UninstallProgress'
  BY <1>4 DEF UninstallProgress
<1>5. CASE \E v \in Version, alias \in BOOLEAN : BeginInstall(v, alias)
  BY <1>3, <1>5 DEF BeginInstall, BeginRun
<1>6. CASE BeginUninstall
  BY <1>6 DEF BeginUninstall, BeginRun, UninstallProgress
<1>7. CASE LoadState \/ Edit
  BY <1>1, <1>4, <1>7 DEF LoadState, Edit, Runs, RunKnows, InstallSteps
<1>8. CASE LoadInstalled
  <2>1. PICK pc \in {"refused", "preflight"} : run' = [run EXCEPT !.prev = saved, !.pc = pc]
    BY <1>8 DEF LoadInstalled
  <2>2. /\ run'.pc = pc /\ run'.op = run.op /\ run'.edited = run.edited /\ run.pc = "uload"
        /\ disk' = disk /\ codex' = codex /\ start' = start
    BY <1>1, <1>8, <2>1 DEF LoadInstalled, Runs
  <2> QED BY <1>3, <2>1, <2>2 DEF UninstallProgress
<1>9. CASE Install /\ Onward
  BY <1>1, <1>4, <1>9, StepsOf DEF Onward
<1>10. CASE UNCHANGED vars
  BY <1>10
     DEF vars, UninstallProgress, SectionUnmodified, BinaryUnmodified, WrapperUnmodified,
         TreeUnmodified, TreeHash, Missing
<1>11. CASE RunEnds /\ run'.pc = "failed"
  BY <1>3, <1>11
<1>12. ASSUME Uninstall, Onward, ~LoadInstalled, run.op = "uninstall", ~run.edited
       PROVE  UninstallProgress'
  <2>0. /\ run'.op = run.op /\ run'.version = run.version /\ run'.alias = run.alias
        /\ run'.edited = run.edited /\ run'.prev = run.prev /\ start' = start
    BY <1>12 DEF Onward
  <2>1. /\ disk'.section = disk.section => SectionUnmodified' = SectionUnmodified
        /\ disk'.binary = disk.binary => BinaryUnmodified' = BinaryUnmodified
        /\ disk'.wrapper = disk.wrapper => WrapperUnmodified' = WrapperUnmodified
        /\ disk'.tree = disk.tree /\ disk'.root = disk.root =>
             TreeUnmodified' = TreeUnmodified /\ Missing' = Missing
    BY <2>0
       DEF SectionUnmodified, BinaryUnmodified, WrapperUnmodified, TreeUnmodified, TreeHash,
           Missing
  <2>2. CASE Preflight
    BY <1>1, <1>2, <1>12, <2>0, <2>1, <2>2
       DEF Preflight, validate_uninstall_state, UninstallSteps, Ends, UninstallProgress
  <2>3. CASE ListInstalled
    BY <1>1, <1>2, <1>12, <2>0, <2>1, <2>3
       DEF ListInstalled, Command, UninstallSteps, Ends, UninstallProgress
  <2>4. CASE RemovePlugin
    <3>1. /\ [codex EXCEPT !.plugin = NoVersion].plugin = NoVersion
          /\ [codex EXCEPT !.plugin = NoVersion].market = codex.market
      BY <1>1 DEF Codex
    <3>2. run.pc = "uremove" /\ codex.market # "other"
      BY <1>1, <2>4 DEF RemovePlugin, OthersApart
    <3>3. \/ run'.pc = "failed"
          \/ /\ run'.pc = "mlist" /\ disk' = disk
             /\ codex'.plugin = NoVersion /\ codex'.market # "other"
      BY <1>2, <2>4, <3>1, <3>2 DEF RemovePlugin, Command, UninstallSteps, Ends
    <3> QED
      BY <1>1, <1>3, <1>12, <2>0, <2>1, <3>2, <3>3 DEF UninstallProgress
  <2>5. CASE ListMarketplaces
    BY <1>1, <1>2, <1>12, <2>0, <2>1, <2>5
       DEF ListMarketplaces, Command, UninstallSteps, Ends, UninstallProgress
  <2>6. CASE RemoveMarketplace
    <3>1. /\ [codex EXCEPT !.market = "none"].plugin = codex.plugin
          /\ [codex EXCEPT !.market = "none"].market = "none"
      BY <1>1 DEF Codex
    <3>2. \/ run'.pc = "failed"
          \/ /\ run.pc = "mremove" /\ run'.pc = "usection" /\ disk' = disk
             /\ codex'.plugin = codex.plugin /\ codex'.market = "none"
      BY <1>2, <2>6, <3>1 DEF RemoveMarketplace, Command, UninstallSteps, Ends
    <3> QED
      BY <1>1, <1>3, <1>12, <2>0, <2>1, <3>2 DEF UninstallProgress
  <2>7. CASE RemoveSection
    BY <1>1, <1>2, <1>12, <2>0, <2>1, <2>7, SectionType
       DEF RemoveSection, RemoveSurface, UninstallSteps, Ends, TextContent,
           UninstallProgress
  <2>8. CASE RemoveBinary
    BY <1>1, <1>2, <1>12, <2>0, <2>1, <2>8, BinaryType
       DEF RemoveBinary, RemoveSurface, UninstallSteps, Ends, Content, UninstallProgress
  <2>9. CASE RemoveWrapper
    BY <1>1, <1>2, <1>12, <2>0, <2>1, <2>9, WrapperType
       DEF RemoveWrapper, RemoveSurface, UninstallSteps, Ends, TextContent,
           UninstallProgress, WrapperUnmodified, Unmodified, Disk
  <2>10. CASE JudgeTree
    BY <1>1, <1>2, <1>12, <2>0, <2>1, <2>10
       DEF JudgeTree, UninstallSteps, Ends, UninstallProgress, NotTheUsers
  <2>11. CASE RemoveTreeFile
    <3>1. /\ disk'.root = (run.file + 1 # TreeFiles)
          /\ disk'.binary = disk.binary /\ disk'.wrapper = disk.wrapper
          /\ disk'.section = disk.section /\ codex' = codex
      BY <1>1, <2>11, FileType, TreeType DEF RemoveTreeFile, Content
    <3>2. /\ run.pc = "treeRemove"
          /\ \/ run.file + 1 = TreeFiles /\ run'.pc = "ustate"
             \/ run.file + 1 # TreeFiles /\ run'.pc = "treeRemove"
      BY <1>1, <1>2, <2>11, FileType, OnType DEF RemoveTreeFile, UninstallSteps
    <3>3. ~disk'.root => Missing'
      BY InvNext DEF InstallerInv, NotTheUsers
    <3> QED
      BY <1>1, <1>12, <2>0, <2>1, <3>1, <3>2, <3>3 DEF UninstallProgress
  <2>12. CASE RemoveState
    BY <1>1, <1>2, <1>12, <2>0, <2>1, <2>12
       DEF RemoveState, UninstallSteps, Ends, UninstallProgress
  <2> QED
    BY <1>12, <2>2, <2>3, <2>4, <2>5, <2>6, <2>7, <2>8, <2>9, <2>10, <2>11, <2>12
       DEF Uninstall
<1> QED
  BY <1>4, <1>5, <1>6, <1>7, <1>8, <1>9, <1>10, <1>11, <1>12, OtherSteps
     DEF Onward, InstallerInv

-----------------------------------------------------------------------------
(* The backup *)

LEMMA BackedUpNext ==
  ASSUME InstallerInv, BackedUp, [Next]_vars
  PROVE  BackedUp'
<1> USE DEF RunStep, OnlyRun, OnlyDisk, OnlyCodex, OnlySaved, At
<1>1. /\ InstallerTypeOK /\ NotTheUsers /\ run \in Runs /\ disk \in Disk
      /\ disk.section \in TextContent
  BY DEF InstallerInv, InstallerTypeOK, Runs, Disk
<1>2. ASSUME NEW step \in Ends \union InstallSteps \union UninstallSteps, Goto(step)
      PROVE  run'.pc = step
  BY <1>1, <1>2, GotoType
<1>3. ASSUME backup' = backup, filled' = filled,
             disk'.section = "ours" => disk.section = "ours" \/ run.pc = "sectionWrite",
             run'.pc = "sectionWrite" => run.pc = "sectionWrite"
      PROVE  BackedUp'
  BY <1>3 DEF BackedUp
<1>4. CASE \/ \E v \in Version, alias \in BOOLEAN : BeginInstall(v, alias)
           \/ BeginUninstall
  BY <1>3, <1>4 DEF BeginInstall, BeginUninstall, BeginRun
<1>5. CASE LoadState \/ LoadInstalled
  BY <1>1, <1>3, <1>5 DEF LoadState, LoadInstalled, Runs
<1>6. CASE Edit
  BY <1>1, <1>3, <1>6, EditType DEF Edit, Runs
<1>7. CASE InstallBinary
  <2>1. disk'.section = disk.section
    BY <1>1, <1>7, BinaryType DEF InstallBinary, Content, NoVersion, Runs
  <2> QED BY <1>2, <1>3, <1>7, <2>1 DEF InstallBinary, InstallSteps, Ends
<1>8. CASE WriteTreeFile \/ RemoveTreeFile
  <2>1. disk'.section = disk.section
    BY <1>1, <1>8, FileType, TreeType
       DEF WriteTreeFile, RemoveTreeFile, Content, NoVersion, Runs
  <2> QED
    BY <1>1, <1>2, <1>3, <1>8, <2>1, FileType, OnType
       DEF WriteTreeFile, RemoveTreeFile, InstallSteps, UninstallSteps
<1>9. CASE CheckSection
  BY <1>1, <1>2, <1>9
     DEF CheckSection, MayReplace, OwnedText, BackedUp, InstallSteps, Ends, TextContent
<1>10. CASE WriteSection
  BY <1>1, <1>2, <1>3, <1>10 DEF WriteSection, InstallSteps
<1>11. CASE InstallWrapper
  <2>1. disk'.section = disk.section
    BY <1>1, <1>11, WrapperType DEF InstallWrapper, TextContent
  <2> QED BY <1>2, <1>3, <1>11, <2>1 DEF InstallWrapper, InstallSteps, Ends
<1>12. CASE EnsureQuiescent \/ CheckTree \/ ParseSection \/ SaveState \/ CheckEffective
  BY <1>2, <1>3, <1>12
     DEF EnsureQuiescent, CheckTree, ParseSection, SaveState, CheckEffective, Command,
         InstallSteps, Ends
<1>13. CASE AddMarketplace \/ ListPlugins \/ ReplacePlugin \/ AddPlugin
  BY <1>2, <1>3, <1>13
     DEF AddMarketplace, ListPlugins, ReplacePlugin, AddPlugin, Command, InstallSteps, Ends
<1>14. CASE \/ Preflight \/ ListInstalled \/ RemovePlugin \/ ListMarketplaces
            \/ RemoveMarketplace \/ JudgeTree \/ RemoveState
  BY <1>2, <1>3, <1>14
     DEF Preflight, ListInstalled, RemovePlugin, ListMarketplaces, RemoveMarketplace,
         JudgeTree, RemoveState, Command, UninstallSteps, Ends
<1>15. CASE RemoveSection
  BY <1>1, <1>2, <1>3, <1>15, SectionType
     DEF RemoveSection, RemoveSurface, UninstallSteps, Ends, TextContent
<1>16. CASE RemoveBinary
  <2>1. disk'.section = disk.section
    BY <1>1, <1>16, BinaryType DEF RemoveBinary, RemoveSurface, Content
  <2> QED BY <1>2, <1>3, <1>16, <2>1 DEF RemoveBinary, RemoveSurface, UninstallSteps, Ends
<1>17. CASE RemoveWrapper
  <2>1. disk'.section = disk.section
    BY <1>1, <1>17, WrapperType DEF RemoveWrapper, RemoveSurface, TextContent, Disk
  <2> QED BY <1>2, <1>3, <1>17, <2>1 DEF RemoveWrapper, RemoveSurface, UninstallSteps, Ends
<1>18. CASE RunEnds
  BY <1>3, <1>18, EndsOnward, <1>1 DEF Onward
<1>19. CASE UNCHANGED vars
  BY <1>3, <1>19 DEF vars
<1> QED
  BY <1>4, <1>5, <1>6, <1>7, <1>8, <1>9, <1>10, <1>11, <1>12, <1>13, <1>14, <1>15, <1>16,
     <1>17, <1>18, <1>19 DEF Next, Install, Uninstall

-----------------------------------------------------------------------------
(* A run that refuses, when the user has edited nothing *)

\* A tree of a known version has that version's hash.
LEMMA KnownHash ==
  ASSUME disk \in Disk, TreeKnown, disk.root
  PROVE  TreeHash \in Version \intersect Known
<1>1. PICK v \in Version \intersect Known : \A f \in 1..TreeFiles : disk.tree[f] = v
  BY DEF TreeKnown
<1> QED BY <1>1, HashOfWhole

\* When a run succeeds, everything is of its version or gone.
LEMMA AllOursDone ==
  ASSUME InstallerInv', InstallProgress', UninstallProgress', Onward,
         edits' = 0, run'.pc = "done", run.op \in {"install", "uninstall"},
         disk'.wrapper # "user" /\ disk'.section # "user" /\ disk'.binary # User
  PROVE  AllOurs'
<1>1. /\ InstallerTypeOK' /\ RunKnows' /\ tried' = {}
      /\ run'.op = run.op /\ ~run'.edited
  BY DEF InstallerInv, Onward, RunKnows
<1>2. CASE run.op = "install"
  <2>1. run'.version \in Version
    BY <1>1, <1>2 DEF RunKnows
  <2>2. /\ disk'.binary = run'.version
        /\ disk'.root /\ \A f \in 1..TreeFiles : disk'.tree[f] = run'.version
        /\ saved' = [version |-> run'.version, wrapper |-> run'.alias]
    BY <1>1, <1>2 DEF InstallProgress, AfterBinary, AfterTree, AfterSection, AfterWrapper,
                      AfterState
  <2>3. saved'.version = run'.version /\ TreeKnown'
    BY <2>1, <2>2 DEF TreeKnown, Known
  <2> QED
    BY <2>1, <2>2, <2>3 DEF AllOurs, Known, GoesByState, InstallSteps, UninstallSteps
<1>3. CASE run.op = "uninstall"
  <2>1. disk'.binary = NoVersion /\ ~disk'.root
    BY <1>1, <1>3 DEF UninstallProgress
  <2>2. TreeKnown'
    BY <2>1 DEF TreeKnown
  <2> QED
    BY <2>1, <2>2 DEF AllOurs, GoesByState, InstallSteps, UninstallSteps
<1> QED BY <1>2, <1>3

LEMMA AllOursInstall ==
  ASSUME InstallerInv, InstallProgress, InstallProgress', AllOurs, Install, ~LoadState, Onward,
         run'.pc # "done", edits = 0
  PROVE  AllOurs'
<1> USE DEF RunStep, OnlyRun, OnlyDisk, OnlyCodex, OnlySaved, At
<1>1. /\ InstallerTypeOK /\ RunKnows /\ OthersApart /\ NotTheUsers
      /\ run \in Runs /\ disk \in Disk /\ codex \in Codex /\ codex.plugin \in Content
      /\ disk.section \in TextContent /\ disk.wrapper \in TextContent
      /\ User \notin Version /\ User # NoVersion
  BY InstallAssumption
     DEF InstallerInv, InstallerTypeOK, Runs, Disk, Codex, User, NoVersion
<1>2. ASSUME NEW step \in Ends \union InstallSteps \union UninstallSteps, Goto(step)
      PROVE  run'.pc = step /\ run'.file = 0
  BY <1>1, <1>2, GotoType
<1>3. /\ run'.op = run.op /\ run'.version = run.version /\ run'.edited = run.edited
      /\ run'.prev = run.prev /\ tried' = tried /\ edits' = 0 /\ ~run.edited
  BY <1>1 DEF Onward, RunKnows
<1>4. run.pc \in InstallSteps /\ run.op = "install"
  BY <1>1, StepsOf
<1>5. /\ run.version \in tried /\ run.version \in Version
      /\ disk.wrapper # "user" /\ disk.section # "user" /\ disk.binary # User
  BY <1>1, <1>4 DEF AllOurs, RunKnows
<1>6. disk'.tree = disk.tree /\ disk'.root = disk.root /\ saved' = saved =>
        TreeKnown' = TreeKnown
  BY <1>3 DEF TreeKnown, Known
<1>22. run'.pc \in GoesByState => run'.prev = saved
  <2>1. run'.pc \in Successor(run.pc) \union {"refused", "failed"}
    BY InstallOnward, <1>1
  <2>2. run'.pc \in GoesByState => run.pc \in {"quiescent", "binary"}
    BY <1>4, <2>1 DEF Successor, GoesByState, InstallSteps, UninstallSteps
  <2> QED BY <1>3, <2>2 DEF AllOurs, GoesByState
<1>7. ASSUME disk' = disk, saved' = saved,
             run'.pc \in InstallSteps \union {"failed"}, run'.file = 0,
             run.pc \notin InTree
      PROVE  AllOurs'
  BY <1>3, <1>5, <1>6, <1>7, <1>22 DEF AllOurs, Known, InTree, InstallSteps, UninstallSteps
<1>8. CASE EnsureQuiescent
  BY <1>2, <1>7, <1>8 DEF EnsureQuiescent, InstallSteps, Ends, InTree
<1>9. CASE InstallBinary
  <2>1. CASE /\ disk.binary \in {NoVersion, run.version, run.prev.version}
             /\ Write("binary", run.version) /\ Goto("treeCheck")
    <3>1. /\ disk'.binary = run.version /\ disk'.wrapper = disk.wrapper
          /\ disk'.section = disk.section /\ disk'.tree = disk.tree /\ disk'.root = disk.root
      BY <1>1, <1>5, <2>1, BinaryType DEF Content
    <3>2. run'.pc = "treeCheck" /\ run.pc = "binary"
      BY <1>2, <1>9, <2>1 DEF InstallBinary, InstallSteps
    <3> QED
      BY <1>1, <1>3, <1>5, <1>6, <1>22, <1>9, <3>1, <3>2
         DEF InstallBinary, AllOurs, Known, InTree, InstallSteps, UninstallSteps
  <2>2. CASE /\ ~(disk.binary \in {NoVersion, run.version, run.prev.version})
             /\ disk' = disk /\ Goto("refused")
    <3>1. run.prev = saved /\ run.pc \notin InTree
      BY <1>5, <1>9 DEF InstallBinary, AllOurs, GoesByState, InTree
    <3>2. disk.binary \in tried \ {run.version, run.prev.version}
      BY <1>5, <2>2, <3>1 DEF AllOurs, Known
    <3>3. run'.pc = "refused" /\ MayRefuse'
      BY <1>2, <1>3, <2>2, <3>2 DEF MayRefuse, Ends
    <3> QED
      BY <1>3, <1>5, <1>6, <1>9, <1>22, <2>2, <3>1, <3>3
         DEF InstallBinary, AllOurs, Known, InstallSteps, UninstallSteps
  <2> QED BY <1>9, <2>1, <2>2 DEF InstallBinary, MayReplace
<1>10. CASE CheckTree
  <2>1. CASE Goto("treeWrite")
    <3>1. run'.pc = "treeWrite" /\ run'.file = 0 /\ run.pc = "treeCheck"
      BY <1>2, <1>10, <2>1 DEF CheckTree, InstallSteps
    <3> QED BY <1>7, <1>10, <3>1 DEF CheckTree, InstallSteps, InTree
  <2>2. CASE /\ disk.root /\ ~(TreeHash # 0 /\ TreeHash \in {run.version, run.prev.version})
             /\ Goto("refused")
    <3>1. run.pc \notin InTree
      BY <1>10 DEF CheckTree, InTree
    <3>2. run.prev = saved /\ TreeKnown
      BY <1>5, <1>10, <3>1 DEF CheckTree, AllOurs, GoesByState
    <3>3. TreeHash \in tried \ {run.version, run.prev.version}
      BY <1>1, <2>2, <3>2, KnownHash, InstallAssumption DEF Known, NoVersion
    <3>4. run'.pc = "refused" /\ MayRefuse'
      BY <1>2, <1>3, <2>2, <3>3 DEF MayRefuse, Ends
    <3> QED
      BY <1>3, <1>5, <1>6, <1>10, <1>22, <3>1, <3>4
         DEF CheckTree, AllOurs, Known, InstallSteps, UninstallSteps
  <2> QED BY <1>10, <2>1, <2>2 DEF CheckTree
<1>11. CASE WriteTreeFile
  <2>1. /\ disk'.binary = disk.binary /\ disk'.wrapper = disk.wrapper
        /\ disk'.section = disk.section
    BY <1>1, <1>5, <1>11, FileType, TreeType DEF WriteTreeFile, Content
  <2>2. \/ run'.pc = "parse"
        \/ run'.pc = "treeWrite" /\ run'.file = run.file + 1 /\ run.file + 1 > 0
    BY <1>1, <1>2, <1>11, FileType, OnType, InstallAssumption
       DEF WriteTreeFile, InstallSteps
  <2>3. run'.pc = "parse" => TreeKnown'
    BY <1>3, <1>4, <1>5 DEF InstallProgress, AfterTree, TreeKnown, Known
  <2> QED
    BY <1>3, <1>5, <1>11, <1>22, <2>1, <2>2, <2>3
       DEF WriteTreeFile, AllOurs, Known, InTree, InstallSteps, UninstallSteps
<1>12. CASE ParseSection
  BY <1>2, <1>7, <1>12 DEF ParseSection, Command, InstallSteps, Ends, InTree
<1>13. CASE CheckSection
  BY <1>1, <1>2, <1>5, <1>7, <1>13
     DEF CheckSection, MayReplace, OwnedText, InstallSteps, Ends, InTree, TextContent
<1>14. CASE WriteSection
  <2>1. /\ disk'.binary = disk.binary /\ disk'.wrapper = disk.wrapper
        /\ disk'.section = "ours" /\ disk'.tree = disk.tree /\ disk'.root = disk.root
    BY <1>1, <1>14, SectionType DEF WriteSection, TextContent
  <2> QED
    BY <1>2, <1>3, <1>5, <1>6, <1>22, <1>14, <2>1
       DEF WriteSection, AllOurs, Known, InTree, InstallSteps, UninstallSteps
<1>15. CASE InstallWrapper
  <2>1. CASE disk' = disk
    BY <1>1, <1>2, <1>5, <1>7, <1>15, <2>1
       DEF InstallWrapper, MayReplace, InstallSteps, Ends, InTree, TextContent
  <2>2. CASE Write("wrapper", "ours") /\ Goto("state")
    <3>1. /\ disk'.binary = disk.binary /\ disk'.wrapper = "ours"
          /\ disk'.section = disk.section /\ disk'.tree = disk.tree /\ disk'.root = disk.root
      BY <1>1, <2>2, WrapperType DEF TextContent
    <3> QED
      BY <1>2, <1>3, <1>5, <1>6, <1>22, <1>15, <2>2, <3>1
         DEF InstallWrapper, AllOurs, Known, InTree, InstallSteps, UninstallSteps
  <2> QED BY <1>15, <2>1, <2>2 DEF InstallWrapper
<1>16. CASE SaveState
  <2>1. run.pc = "state" /\ saved'.version = run.version /\ disk' = disk
        /\ run'.pc = "effective"
    BY <1>2, <1>16 DEF SaveState, InstallSteps
  <2>2. disk.binary = run.version /\ \A f \in 1..TreeFiles : disk.tree[f] = run.version
    BY <1>3, <1>4, <2>1
       DEF InstallProgress, AfterBinary, AfterTree, AfterSection, AfterWrapper
  <2>3. TreeKnown'
    BY <1>5, <2>1, <2>2 DEF TreeKnown, Known
  <2> QED
    BY <1>3, <1>5, <2>1, <2>2, <2>3
       DEF AllOurs, Known, GoesByState, InstallSteps, UninstallSteps
<1>17. CASE CheckEffective
  BY <1>2, <1>7, <1>17 DEF CheckEffective, Command, InstallSteps, Ends, InTree
<1>18. CASE AddMarketplace
  <2>1. CASE run'.pc = "refused"
    <3>1. codex.market = "other" /\ codex' = codex
      BY <1>1, <1>2, <1>18, <2>1 DEF AddMarketplace, Command, InstallSteps, Ends
    <3> QED
      BY <1>3, <1>5, <1>6, <1>22, <1>18, <2>1, <3>1
         DEF AddMarketplace, AllOurs, Known, InTree, InstallSteps, UninstallSteps
  <2>2. CASE run'.pc # "refused"
    <3>1. [codex EXCEPT !.market = "ours"].plugin = codex.plugin
      BY <1>1 DEF Codex
    <3> QED
      BY <1>2, <1>7, <1>18, <2>2, <3>1
         DEF AddMarketplace, Command, InstallSteps, Ends, InTree
  <2> QED BY <2>1, <2>2
<1>19. CASE ListPlugins
  <2>1. codex' = codex /\ disk' = disk /\ saved' = saved /\ run.pc = "list" /\ run'.file = 0
        /\ run'.pc \in {"failed", "refused", "add", "replace", "done"}
        /\ (run'.pc = "refused" => codex.plugin = User)
    BY <1>2, <1>19 DEF ListPlugins, Command, InstallSteps, Ends
  <2>2. run'.pc # "refused"
    BY <1>1, <2>1 DEF OthersApart, AfterMarket
  <2> QED BY <1>7, <2>1, <2>2 DEF InstallSteps, InTree
<1>20. CASE ReplacePlugin
  <2>1. [codex EXCEPT !.plugin = NoVersion].plugin = NoVersion
    BY <1>1 DEF Codex
  <2> QED BY <1>2, <1>7, <1>20, <2>1 DEF ReplacePlugin, Command, InstallSteps, Ends, InTree
<1>21. CASE AddPlugin
  <2>1. [codex EXCEPT !.plugin = run.version].plugin = run.version
    BY <1>1 DEF Codex
  <2> QED BY <1>2, <1>7, <1>21, <2>1 DEF AddPlugin, Command, InstallSteps, Ends, InTree
<1> QED
  BY <1>8, <1>9, <1>10, <1>11, <1>12, <1>13, <1>14, <1>15, <1>16, <1>17, <1>18, <1>19, <1>20,
     <1>21 DEF Install

LEMMA AllOursUninstall ==
  ASSUME InstallerInv, InstallerInv', UninstallProgress, AllOurs, Uninstall, ~LoadInstalled,
         Onward, run'.pc # "done", edits = 0
  PROVE  AllOurs'
<1> USE DEF RunStep, OnlyRun, OnlyDisk, OnlyCodex, OnlySaved, At
<1>1. /\ InstallerTypeOK /\ RunKnows /\ OthersApart /\ NotTheUsers
      /\ run \in Runs /\ disk \in Disk /\ codex \in Codex /\ codex.plugin \in Content
      /\ disk.section \in TextContent /\ disk.wrapper \in TextContent
      /\ User \notin Version /\ User # NoVersion
  BY InstallAssumption
     DEF InstallerInv, InstallerTypeOK, Runs, Disk, Codex, User, NoVersion
<1>2. ASSUME NEW step \in Ends \union InstallSteps \union UninstallSteps, Goto(step)
      PROVE  run'.pc = step /\ run'.file = 0
  BY <1>1, <1>2, GotoType
<1>3. /\ run'.op = run.op /\ run'.version = run.version /\ run'.edited = run.edited
      /\ run'.prev = run.prev /\ tried' = tried /\ edits' = 0 /\ ~run.edited
  BY <1>1 DEF Onward, RunKnows
<1>4. run.pc \in UninstallSteps \ {"uload"} /\ run.op = "uninstall"
  <2>1. run.pc # "uload"
    BY DEF Uninstall, LoadInstalled, Preflight, ListInstalled, RemovePlugin,
       ListMarketplaces, RemoveMarketplace, RemoveSection, RemoveBinary, RemoveWrapper,
       RemoveSurface, JudgeTree, RemoveTreeFile, RemoveState
  <2> QED BY <1>1, <2>1, StepsOf
<1>5. /\ run.prev = saved /\ run.prev.version \in Version
      /\ disk.wrapper # "user" /\ disk.section # "user" /\ disk.binary # User
      /\ run.pc \notin InstallSteps
  BY <1>1, <1>4
     DEF AllOurs, GoesByState, RunKnows, States, NoState, UninstallSteps, InstallSteps
<1>6. disk'.tree = disk.tree /\ disk'.root = disk.root /\ saved' = saved =>
        TreeKnown' = TreeKnown
  BY <1>3 DEF TreeKnown, Known
<1>22. run'.pc \in GoesByState => run'.prev = saved
  BY <1>3, <1>5
<1>7. ASSUME disk' = disk, saved' = saved,
             run'.pc \in UninstallSteps \union {"failed"}, run'.file = 0,
             run.pc \notin InTree
      PROVE  AllOurs'
  BY <1>3, <1>5, <1>6, <1>7, <1>22 DEF AllOurs, Known, InTree, InstallSteps, UninstallSteps
<1>8. CASE Preflight
  <2>1. CASE validate_uninstall_state
    BY <1>2, <1>7, <1>8, <2>1 DEF Preflight, UninstallSteps, InTree
  <2>2. CASE ~validate_uninstall_state
    <3>1. disk.binary \in {NoVersion} \union Known /\ TreeKnown
      BY <1>5, <1>8 DEF AllOurs, Preflight, InTree
    <3>2. SectionUnmodified /\ WrapperUnmodified
      BY <1>1, <1>5 DEF SectionUnmodified, WrapperUnmodified, Unmodified, TextContent
    <3>3. ASSUME ~BinaryUnmodified PROVE MayRefuse
      <4>1. disk.binary \in tried \ {run.version, run.prev.version}
        BY <1>1, <1>4, <1>5, <3>1, <3>3
           DEF BinaryUnmodified, Unmodified, Known, RunKnows, NoVersion
      <4> QED BY <4>1 DEF MayRefuse
    <3>4. ASSUME ~TreeUnmodified PROVE MayRefuse
      <4>1. TreeHash \in Version \intersect Known /\ TreeHash # run.prev.version
        BY <1>1, <3>1, <3>4, KnownHash DEF TreeUnmodified
      <4>2. TreeHash \in tried \ {run.version, run.prev.version}
        BY <1>1, <1>4, <1>5, <4>1, InstallAssumption DEF Known, RunKnows, NoVersion
      <4> QED BY <4>2 DEF MayRefuse
    <3>5. MayRefuse
      BY <2>2, <3>2, <3>3, <3>4 DEF validate_uninstall_state
    <3>6. run'.pc = "refused" /\ MayRefuse'
      BY <1>2, <1>3, <1>8, <2>2, <3>5 DEF Preflight, MayRefuse, Ends
    <3> QED
      BY <1>3, <1>5, <1>6, <1>8, <1>22, <3>1, <3>6
         DEF Preflight, AllOurs, Known, InstallSteps, UninstallSteps
  <2> QED BY <2>1, <2>2
<1>9. CASE ListInstalled \/ ListMarketplaces
  <2>1. /\ codex' = codex /\ disk' = disk /\ saved' = saved /\ run'.file = 0
        /\ run.pc \in {"ulist", "mlist"}
        /\ run'.pc \in {"failed", "refused", "uremove", "mlist", "mremove", "usection"}
        /\ run'.pc = "refused" => codex.market = "other"
    BY <1>1, <1>2, <1>9
       DEF ListInstalled, ListMarketplaces, Command, OthersApart, UninstallSteps, Ends
  <2>2. CASE run'.pc # "refused"
    BY <1>7, <2>1, <2>2 DEF UninstallSteps, InTree
  <2>3. CASE run'.pc = "refused"
    BY <1>3, <1>5, <1>6, <2>1, <2>3
       DEF AllOurs, Known, InTree, InstallSteps, UninstallSteps
  <2> QED BY <2>2, <2>3
<1>10. CASE RemovePlugin
  <2>1. [codex EXCEPT !.plugin = NoVersion].plugin = NoVersion
    BY <1>1 DEF Codex
  <2> QED BY <1>2, <1>7, <1>10, <2>1 DEF RemovePlugin, Command, UninstallSteps, Ends, InTree
<1>11. CASE RemoveMarketplace
  <2>1. [codex EXCEPT !.market = "none"].plugin = codex.plugin
    BY <1>1 DEF Codex
  <2> QED
    BY <1>2, <1>7, <1>11, <2>1 DEF RemoveMarketplace, Command, UninstallSteps, Ends, InTree
<1>12. CASE RemoveSection
  <2>1. SectionUnmodified
    BY <1>3, <1>4, <1>12
       DEF RemoveSection, RemoveSurface, UninstallProgress, BeforeSection
  <2>2. /\ disk'.binary = disk.binary /\ disk'.wrapper = disk.wrapper
        /\ disk'.section = "none" /\ disk'.tree = disk.tree /\ disk'.root = disk.root
    BY <1>1, <1>12, <2>1, SectionType DEF RemoveSection, RemoveSurface, TextContent
  <2> QED
    BY <1>2, <1>3, <1>5, <1>6, <1>22, <1>12, <2>1, <2>2
       DEF RemoveSection, RemoveSurface, AllOurs, Known, InTree, InstallSteps,
           UninstallSteps
<1>13. CASE RemoveBinary
  <2>1. BinaryUnmodified
    BY <1>3, <1>4, <1>13
       DEF RemoveBinary, RemoveSurface, UninstallProgress, BeforeBinary, BeforeSection
  <2>2. /\ disk'.binary = NoVersion /\ disk'.wrapper = disk.wrapper
        /\ disk'.section = disk.section /\ disk'.tree = disk.tree /\ disk'.root = disk.root
    BY <1>1, <1>13, <2>1, BinaryType DEF RemoveBinary, RemoveSurface, Content
  <2> QED
    BY <1>1, <1>2, <1>3, <1>5, <1>6, <1>22, <1>13, <2>1, <2>2
       DEF RemoveBinary, RemoveSurface, AllOurs, Known, InTree, InstallSteps,
           UninstallSteps
<1>14. CASE RemoveWrapper
  <2>1. WrapperUnmodified
    BY <1>3, <1>4, <1>14
       DEF RemoveWrapper, RemoveSurface, UninstallProgress, BeforeWrapper, BeforeBinary,
           BeforeSection
  <2>2. /\ disk'.binary = disk.binary /\ disk'.wrapper \in {"none", disk.wrapper}
        /\ disk'.section = disk.section /\ disk'.tree = disk.tree /\ disk'.root = disk.root
    BY <1>1, <1>14, <2>1, WrapperType DEF RemoveWrapper, RemoveSurface, TextContent
  <2> QED
    BY <1>1, <1>2, <1>3, <1>5, <1>6, <1>22, <1>14, <2>1, <2>2
       DEF RemoveWrapper, RemoveSurface, AllOurs, Known, InTree, InstallSteps,
           UninstallSteps
<1>15. CASE JudgeTree
  <2>1. TreeUnmodified
    BY <1>3, <1>4, <1>15
       DEF JudgeTree, UninstallProgress, BeforeTree, BeforeWrapper, BeforeBinary,
           BeforeSection
  <2> QED BY <1>2, <1>7, <1>15, <2>1 DEF JudgeTree, UninstallSteps, InTree
<1>16. CASE RemoveTreeFile
  <2>1. /\ disk'.binary = disk.binary /\ disk'.wrapper = disk.wrapper
        /\ disk'.section = disk.section /\ disk'.root = (run.file + 1 # TreeFiles)
    BY <1>1, <1>16, FileType, TreeType DEF RemoveTreeFile, Content
  <2>2. \/ run'.pc = "ustate" /\ run.file + 1 = TreeFiles
        \/ run'.pc = "treeRemove" /\ run'.file = run.file + 1 /\ run.file + 1 > 0
    BY <1>1, <1>2, <1>16, FileType, OnType, InstallAssumption
       DEF RemoveTreeFile, UninstallSteps
  <2>3. run'.pc = "ustate" => TreeKnown'
    BY <2>1, <2>2 DEF TreeKnown
  <2> QED
    BY <1>3, <1>5, <1>16, <1>22, <2>1, <2>2, <2>3
       DEF RemoveTreeFile, AllOurs, Known, InTree, InstallSteps, UninstallSteps
<1>17. CASE RemoveState
  BY <1>2, <1>17 DEF RemoveState, Ends
<1> QED
  BY <1>8, <1>9, <1>10, <1>11, <1>12, <1>13, <1>14, <1>15, <1>16, <1>17 DEF Uninstall

LEMMA AllOursNext ==
  ASSUME InstallerInv, InstallProgress, UninstallProgress, AllOurs,
         "torn" \notin InstallFaults, [Next]_vars
  PROVE  AllOurs'
<1>1. /\ InstallerInv' /\ InstallProgress' /\ UninstallProgress'
      /\ InstallerTypeOK /\ RunKnows /\ run \in Runs /\ edits \in Nat
  BY InvNext, InstallProgressNext, UninstallProgressNext, InstallAssumption
     DEF InstallerInv, InstallerTypeOK, Runs
<1>2. CASE edits' # 0
  BY <1>2 DEF AllOurs
<1>3. CASE \E v \in Version, alias \in BOOLEAN : BeginInstall(v, alias)
  <2>1. PICK v \in Version, alias \in BOOLEAN : BeginInstall(v, alias)
    BY <1>3
  <2>2. /\ UNCHANGED <<disk, saved, codex, edits>> /\ tried' = tried \union {v}
        /\ run.pc \in Ends /\ run'.pc = "load" /\ run'.version = v
    BY <2>1 DEF BeginInstall, BeginRun
  <2>3. TreeKnown => TreeKnown'
    BY <2>2 DEF TreeKnown, Known
  <2>4. run.pc \notin InTree
    BY <2>2 DEF InTree, Ends
  <2> QED
    BY <2>2, <2>3, <2>4 DEF AllOurs, Known, GoesByState, InstallSteps, UninstallSteps
<1>4. CASE BeginUninstall
  <2>1. /\ UNCHANGED <<disk, saved, codex, edits, tried>>
        /\ run.pc \in Ends /\ run'.pc = "uload"
    BY <1>4 DEF BeginUninstall, BeginRun
  <2>2. TreeKnown' = TreeKnown
    BY <2>1 DEF TreeKnown, Known
  <2>3. run.pc \notin InTree
    BY <2>1 DEF InTree, Ends
  <2> QED
    BY <2>1, <2>2, <2>3 DEF AllOurs, Known, GoesByState, InstallSteps, UninstallSteps
<1>5. CASE LoadState \/ LoadInstalled
  <2>1. ASSUME NEW pc, run' = [run EXCEPT !.prev = saved, !.pc = pc]
        PROVE  /\ run'.pc = pc /\ run'.prev = saved /\ run'.version = run.version
               /\ run'.op = run.op
    BY <1>1, <2>1 DEF Runs
  <2>2. /\ run'.prev = saved /\ run'.version = run.version /\ run'.op = run.op
        /\ \/ run.pc = "load" /\ run'.pc \in {"binary", "quiescent"}
           \/ run.pc = "uload" /\ run'.pc = "preflight"
           \/ run.pc = "uload" /\ run'.pc = "refused" /\ saved = NoState
    BY <1>5, <2>1 DEF LoadState, LoadInstalled, At
  <2>3. /\ UNCHANGED <<disk, saved, codex, edits, tried>>
        /\ run.pc \in {"load", "uload"}
        /\ run'.pc \in InstallSteps => run.pc \in InstallSteps
    BY <1>5, <2>2
       DEF LoadState, LoadInstalled, OnlyRun, RunStep, InstallSteps
  <2>4. TreeKnown' = TreeKnown
    BY <2>3 DEF TreeKnown, Known
  <2>5. run'.pc = "refused" => MayRefuse'
    BY <1>1, <2>2 DEF MayRefuse, RunKnows, UninstallSteps
  <2> QED
    BY <2>2, <2>3, <2>4, <2>5 DEF AllOurs, Known, InTree
<1>6. CASE Edit
  BY <1>1, <1>2, <1>6 DEF Edit
<1>7. CASE \/ Install /\ ~LoadState /\ Onward
           \/ Uninstall /\ ~LoadInstalled /\ Onward
  <2>1. CASE edits = 0 /\ run'.pc # "done"
    BY <1>1, <1>7, <2>1, AllOursInstall, AllOursUninstall
  <2>2. CASE edits = 0 /\ run'.pc = "done"
    <3>1. run.op \in {"install", "uninstall"}
      BY <1>1, <1>7, StepsOf
    <3>2. run.pc \in {"list", "add", "ustate"}
      BY <1>1, <1>7, <2>2, InstallOnward, UninstallOnward DEF Successor
    <3>3. disk' = disk
      BY <1>7, <3>2
         DEF Install, LoadState, EnsureQuiescent, InstallBinary, CheckTree, WriteTreeFile,
             ParseSection, CheckSection, WriteSection, InstallWrapper, SaveState,
             CheckEffective, AddMarketplace, ListPlugins, ReplacePlugin, AddPlugin,
             Uninstall, LoadInstalled, Preflight, ListInstalled, RemovePlugin,
             ListMarketplaces, RemoveMarketplace, RemoveSection, RemoveBinary,
             RemoveWrapper, RemoveSurface, JudgeTree, RemoveTreeFile, RemoveState, At,
             OnlyCodex, OnlySaved
    <3>4. edits' = 0
      BY <1>7, <2>2 DEF Onward
    <3> QED
      BY <1>1, <1>7, <2>2, <3>1, <3>3, <3>4, AllOursDone DEF AllOurs
  <2>3. edits' = edits
    BY <1>7 DEF Onward
  <2> QED BY <1>2, <2>1, <2>2, <2>3
<1>8. CASE RunEnds /\ Onward /\ run'.pc = "failed"
  <2>1. /\ UNCHANGED <<disk, saved, codex, edits, tried>>
    BY <1>1, <1>8, EndsOnward DEF Onward
  <2>2. ~(run.pc \in InTree /\ run.file > 0)
    BY <1>8 DEF RunEnds
  <2>3. TreeKnown' = TreeKnown
    BY <2>1 DEF TreeKnown, Known
  <2> QED
    BY <1>8, <2>1, <2>2, <2>3 DEF AllOurs, Known, GoesByState, InstallSteps, UninstallSteps
<1>9. CASE UNCHANGED vars
  BY <1>9 DEF vars, AllOurs, Known, TreeKnown, MayRefuse
<1> QED
  BY <1>1, <1>3, <1>4, <1>5, <1>6, <1>7, <1>8, <1>9, OtherSteps

-----------------------------------------------------------------------------
(* What the end of a run means *)

ProgressInv == InstallerInv /\ InstallProgress /\ UninstallProgress /\ BackedUp

LEMMA ProgressInvariant == Spec => []ProgressInv
<1>1. Init => ProgressInv
  BY InvInit DEF Init, ProgressInv, InstallProgress, UninstallProgress, BackedUp
<1>2. ProgressInv /\ [Next]_vars => ProgressInv'
  BY InvNext, InstallProgressNext, UninstallProgressNext, BackedUpNext DEF ProgressInv
<1> QED BY <1>1, <1>2, PTL DEF Spec

\* An uninstall that refuses over what was modified before it began has changed
\* nothing: the preflight finds every refusal, or the two lists of codex do before
\* anything is removed (validate_uninstall_state, require_same_path).
THEOREM RefusalsChangeNothing == Spec => []AllOrNothing
<1>1. ProgressInv => AllOrNothing
  BY DEF ProgressInv, UninstallProgress, AllOrNothing, BeforeRemoval, At
<1> QED BY <1>1, ProgressInvariant, PTL

\* An install that succeeds has put every part in place, of its own version, whatever
\* earlier runs left half done (install).
THEOREM InstallsAreComplete == Spec => []InstallComplete
<1>1. ProgressInv => InstallComplete
  <2> SUFFICES ASSUME ProgressInv, run.pc = "done", run.op = "install", ~run.edited
               PROVE  /\ disk.binary = run.version /\ TreeHash = run.version
                      /\ disk.section = "ours"
                      /\ run.alias => disk.wrapper = "ours"
                      /\ saved = [version |-> run.version, wrapper |-> run.alias]
                      /\ codex = [market |-> "ours", plugin |-> run.version]
    BY DEF InstallComplete, At
  <2>1. run.version \in Version /\ disk \in Disk
    BY DEF ProgressInv, InstallerInv, InstallerTypeOK, RunKnows
  <2>2. /\ disk.binary = run.version
        /\ \A f \in 1..TreeFiles : disk.tree[f] = run.version
        /\ disk.section = "ours"
        /\ run.alias => disk.wrapper = "ours"
        /\ saved = [version |-> run.version, wrapper |-> run.alias]
        /\ codex = [market |-> "ours", plugin |-> run.version]
    BY DEF ProgressInv, InstallProgress, AfterBinary, AfterTree, AfterSection, AfterWrapper,
           AfterState
  <2> QED BY <2>1, <2>2, HashOfWhole
<1> QED BY <1>1, ProgressInvariant, PTL

\* An uninstall that succeeds has left nothing of the installer's behind, but for a
\* wrapper its state did not name (uninstall, uninstall_plugin).
THEOREM UninstallsAreComplete == Spec => []UninstallComplete
<1>1. ProgressInv => UninstallComplete
  BY DEF ProgressInv, UninstallProgress, UninstallComplete, At
<1> QED BY <1>1, ProgressInvariant, PTL

\* The backup of a configuration holds what the user had before the installer's
\* section came in (install_mcp_section).
THEOREM BackupsAreOriginal == Spec => []BackupOriginal
<1>1. ProgressInv => BackupOriginal
  BY DEF ProgressInv, BackedUp, BackupOriginal
<1> QED BY <1>1, ProgressInvariant, PTL

\* Unless a run ends in the middle of the tree, a run that meets no edit by the user and
\* no other installation is refused only if it is an uninstall without a state, or if an
\* install that never finished was of a version neither its own nor the recorded one
\* (install, uninstall, protect_owned_file_before_replace, validate_uninstall_state).
THEOREM RefusalsAreRight ==
  "torn" \notin InstallFaults /\ Spec => []RefusalMeansModified
<1> SUFFICES ASSUME "torn" \notin InstallFaults
             PROVE  Spec => []RefusalMeansModified
  OBVIOUS
<1>1. Init => AllOurs
  BY DEF Init, AllOurs, TreeKnown, GoesByState, InstallSteps, UninstallSteps, User, NoVersion
<1>2. ProgressInv /\ AllOurs /\ [Next]_vars => AllOurs'
  BY AllOursNext DEF ProgressInv
<1>3. ProgressInv /\ AllOurs => RefusalMeansModified
  BY DEF AllOurs, MayRefuse, RefusalMeansModified, At
<1> QED
  BY <1>1, <1>2, <1>3, ProgressInvariant, PTL DEF Spec
=============================================================================
