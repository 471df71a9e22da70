---------------------------- MODULE ClientSetup ----------------------------
(* `imcp2-local setup`: registering the local server with the AI clients of *)
(* this machine, and taking the registration out again (setup.rs).          *)
(*                                                                          *)
(* A run visits the clients in a fixed order.  A client with a CLI of its   *)
(* own is asked through it; the config files of the others are edited:      *)
(* read, merged, backed up once, staged beside the file and renamed over    *)
(* it.  The owner and the client itself edit the same files meanwhile, a    *)
(* write can fail at every step, and the run can be killed between any two. *)
(*                                                                          *)
(* What a config file says is abstracted to what the edit must tell apart:  *)
(* whether it parses, whether the place of the servers is a table, the      *)
(* entry under the server's name, and everything else it holds.             *)
EXTENDS Naturals

CONSTANTS
    Client,     \* the clients of this instance
    Other,      \* what a config file holds beside the entry
    Perm,       \* the permissions a file can have
    Given,      \* bound: what others can have written to a file
    NoFile,     \* there is no file
    Partial,    \* cut short by a failed or a killed write
    Blank,      \* nothing but white space
    Broken,     \* does not parse
    NoEntry,    \* there is no entry under the server's name
    Scalar,     \* what is under the name is no table
    Refused,    \* the edit refuses the text
    Nothing,    \* the edit finds nothing to do
    MaxRuns,    \* bound: runs of setup
    MaxEdits    \* bound: edits by others

ASSUME ClientAssumption ==
    Client \subseteq {"desktop", "code", "codex", "cursor", "antigravity", "perplexity"}
ASSUME BoundsAssumption == MaxRuns \in Nat /\ MaxEdits \in Nat

VARIABLES
    machine,    \* what is installed: the clients detected, and the `codex` CLI
    disk,       \* for each client, its config file and what setup keeps beside it
    setup,      \* the run: where it stands and what it holds
    before,     \* history: what each file said until setup first wrote it
    wrote,      \* history: how setup first wrote each file
    edits       \* history: how many edits others made
setupVars == <<machine, disk, setup, before, wrote, edits>>

(* The clients in the order in which they are visited. *)
Order(c) ==
    CASE c = "desktop"     -> 1
      [] c = "code"        -> 2
      [] c = "codex"       -> 3
      [] c = "cursor"      -> 4
      [] c = "antigravity" -> 5
      [] c = "perplexity"  -> 6

JsonClient == {"desktop", "cursor", "antigravity"}
Modes == {"apply", "remove", "print"}

NoOther == "nothing else"
Default == "umask"

(* An entry: the command it runs, and whether the user added keys to it. *)
Entry == {NoEntry, Scalar} \cup [command : {"exe", "another"}, extra : BOOLEAN]

(* What a file that parses says.  `table`: the servers have, or would get, *)
(* a JSON object or a TOML table of their own; an inline TOML table is     *)
(* none, and yet holds entries.                                            *)
Config == [other : Other \cup {NoOther}, table : BOOLEAN, entry : Entry]
Text   == Config \cup {NoFile, Partial, Blank, Broken}
ASSUME GivenAssumption == Given \subseteq Text \ {Partial}

(* What is not a configuration, or not an entry, is not mistaken for one.   *)
ASSUME TextAssumption ==
    /\ NoFile \notin {Partial, Blank, Broken} /\ Partial \notin {Blank, Broken} /\ Blank # Broken
    /\ Config \cap {NoFile, Partial, Blank, Broken} = {}
    /\ Refused # Nothing /\ Text \cap {Refused, Nothing} = {}
    /\ {NoEntry, Scalar} \cap [command : {"exe", "another"}, extra : BOOLEAN] = {}

(* Only TOML has inline tables. *)
TextsOf(c) ==
    {text \in Given : text \in Config /\ ~text.table => c = "codex" \/ text.entry = NoEntry}

Empty  == [other |-> NoOther, table |-> TRUE, entry |-> NoEntry]

File(text, perm) == [text |-> text, perm |-> perm]
Gone == File(NoFile, Default)

-----------------------------------------------------------------------------
(* Where a client is registered on this machine.                            *)
Target(c, capable) ==
    CASE c \notin machine.installed       -> "not detected"
      [] c \in JsonClient                 -> "file"
      [] c = "codex"                      -> IF capable THEN "cli" ELSE "file"
      [] c = "code"                       -> "cli"
      [] c = "perplexity"                 -> "manual"

(* The probe of `codex mcp --help`, made anew by each run. *)
Capable(c) == IF c = "codex" /\ machine.codex THEN BOOLEAN ELSE {FALSE}

\* Mutant: the entry is replaced, and the user's keys with it.
FreshEntry(entry) == [command |-> "exe", extra |-> FALSE]

WithCommand(entry) ==
    IF entry \in {NoEntry, Scalar} THEN [command |-> "exe", extra |-> FALSE]
                                   ELSE [entry EXCEPT !.command = "exe"]

(* What the edit makes of the text it read: a text to write, the refusal to *)
(* touch the file, or nothing to do.                                        *)
Upserted(text) ==
    LET config == IF text \in {NoFile, Blank} THEN Empty ELSE text
    IN  IF config \in Config /\ config.table
        THEN [config EXCEPT !.entry = WithCommand(@)]
        ELSE Refused

RemovedJson(text) ==
    CASE text = NoFile                    -> Nothing
      [] text \in {Blank, Broken, Partial} -> Refused
      [] OTHER -> IF text.table /\ text.entry # NoEntry
                  THEN [text EXCEPT !.entry = NoEntry] ELSE Nothing

RemovedCodex(text) ==
    CASE text \in {NoFile, Blank}          -> Nothing
      [] text \in {Broken, Partial}        -> Refused
      [] OTHER -> IF text.table /\ text.entry # NoEntry
                  THEN [text EXCEPT !.entry = NoEntry] ELSE Nothing

Edited(c, mode, text) ==
    IF mode = "apply" THEN Upserted(text)
    ELSE IF c \in JsonClient THEN RemovedJson(text) ELSE RemovedCodex(text)

-----------------------------------------------------------------------------
Idle(runs) == [at |-> "off", mode |-> "print", todo |-> {}, read |-> NoFile,
               text |-> NoFile, failed |-> 0, edited |-> {}, runs |-> runs]

SetupInit ==
    /\ machine \in [installed : SUBSET Client, codex : BOOLEAN]
    /\ machine.codex => "codex" \in machine.installed
    /\ disk \in [Client -> {[live |-> f, staged |-> Gone, backup |-> NoFile,
                             copy |-> NoFile, link |-> l] :
                            f \in {IF t = NoFile THEN Gone ELSE File(t, p) :
                                    t \in Given, p \in Perm},
                            l \in {"plain", "link", "dangling"}}]
    /\ \A c \in Client : /\ disk[c].live.text \in TextsOf(c)
                         /\ disk[c].link = "dangling" => disk[c].live = Gone
                         /\ disk[c].link = "link" => disk[c].live # Gone
    /\ setup = Idle(0)
    /\ before = [c \in Client |-> {disk[c].live.text}]
    /\ wrote = [c \in Client |-> "never"]
    /\ edits = 0

Visiting(c) == c \in setup.todo /\ \A d \in setup.todo : Order(c) <= Order(d)

\* Mutant: a failed client is not counted.
NextUncounted(c, failures) ==
    setup' = [setup EXCEPT !.at = "visit", !.todo = @ \ {c},
                           !.read = NoFile, !.text = NoFile]

(* The rest of the loop, with what this client added to the failures. *)
NextClient(c, failures) ==
    setup' = [setup EXCEPT !.at = "visit", !.todo = @ \ {c}, !.failed = @ + failures,
                           !.read = NoFile, !.text = NoFile]

Start(mode) ==
    /\ setup.at \in {"off", "exit"} /\ setup.runs < MaxRuns
    /\ setup' = [Idle(setup.runs + 1) EXCEPT !.at = "visit", !.mode = mode,
                                                !.todo = Client]
    /\ UNCHANGED <<machine, disk, before, wrote, edits>>

(* A client with nothing to do: only printed, not detected, or registrable  *)
(* in its own window alone.                                                 *)
Skip(c) ==
    /\ setup.at = "visit" /\ Visiting(c)
    /\ setup.mode = "print" \/ Target(c, FALSE) \in {"not detected", "manual"}
    /\ NextClient(c, 0)
    /\ UNCHANGED <<machine, disk, before, wrote, edits>>

(* A client asked through its CLI: done, refused, or the CLI cannot be run. *)
(* A removal it refuses because there is no such entry is no failure.       *)
VendorCli(c) ==
    LET text  == disk[c].live.text
        asked == IF setup.mode = "apply" THEN Upserted(text)
                 ELSE IF text \in Config THEN [text EXCEPT !.entry = NoEntry] ELSE text
        absent == text \in Config => text.entry = NoEntry
    IN  /\ setup.at = "visit" /\ Visiting(c) /\ setup.mode # "print"
        /\ \E capable \in Capable(c) : Target(c, capable) = "cli"
        /\ \/ /\ asked # Refused
              /\ disk' = [disk EXCEPT ![c].live.text = asked,
                     ![c].live.perm = IF text = NoFile THEN Default ELSE @,
                     ![c].link = IF @ = "dangling" THEN "plain" ELSE @]
              /\ before' = [before EXCEPT ![c] =
                     IF wrote[c] = "never" THEN @ \cup {asked} ELSE @]
              /\ NextClient(c, 0)
           \/ /\ setup.mode = "remove" /\ absent
              /\ NextClient(c, 0) /\ UNCHANGED <<disk, before>>
           \/ NextClient(c, 1) /\ UNCHANGED <<disk, before>>
        /\ UNCHANGED <<machine, wrote, edits>>

(* The file is read and the edit computed. *)
ReadConfig(c) ==
    LET edit == Edited(c, setup.mode, disk[c].live.text)
    IN  /\ setup.at = "visit" /\ Visiting(c) /\ setup.mode # "print"
        /\ \E capable \in Capable(c) : Target(c, capable) = "file"
        /\ \/ edit = Refused /\ NextClient(c, 1)
           \/ edit = Nothing /\ NextClient(c, 0)
           \/ /\ edit \in Config
              /\ setup' = [setup EXCEPT !.at = "backup", !.read = disk[c].live.text,
                                        !.text = edit]
           \/ disk[c].live # Gone /\ NextClient(c, 1)           \* cannot be read
        /\ UNCHANGED <<machine, disk, before, wrote, edits>>

\* Mutant: every run makes a backup.
BackupEachTime(c) == disk[c].live # Gone

(* The one backup: none of a file that is not there, and never a second.    *)
(* The copy is whole before it gets the backup's name.                      *)
BackupNeeded(c) == disk[c].live # Gone /\ disk[c].backup = NoFile

SkipBackup(c) ==
    /\ setup.at = "backup" /\ Visiting(c) /\ ~BackupNeeded(c)
    /\ setup' = [setup EXCEPT !.at = "stage"]
    /\ UNCHANGED <<machine, disk, before, wrote, edits>>

CopyBackup(c) ==
    /\ setup.at = "backup" /\ Visiting(c) /\ BackupNeeded(c)
    /\ \/ /\ disk' = [disk EXCEPT ![c].copy = Partial]
          /\ NextClient(c, 1)
       \/ /\ disk' = [disk EXCEPT ![c].copy = Partial]
          /\ setup' = [setup EXCEPT !.at = "copy"]
    /\ UNCHANGED <<machine, before, wrote, edits>>

CopyEnds(c) ==
    /\ setup.at = "copy" /\ Visiting(c)
    /\ disk' = [disk EXCEPT ![c].copy = disk[c].live.text]
    /\ setup' = [setup EXCEPT !.at = "keep"]
    /\ UNCHANGED <<machine, before, wrote, edits>>

KeepBackup(c) ==
    /\ setup.at = "keep" /\ Visiting(c)
    /\ \/ /\ disk' = [disk EXCEPT ![c].backup = disk[c].copy, ![c].copy = NoFile]
          /\ setup' = [setup EXCEPT !.at = "stage"]
       \/ /\ disk' = [disk EXCEPT ![c].copy = NoFile]
          /\ NextClient(c, 1)
    /\ UNCHANGED <<machine, before, wrote, edits>>

(* The new text is staged in a file of its own, with the permissions of the *)
(* file it replaces, and renamed over it; through a link, over its target.  *)
Stage(c) ==
    /\ setup.at = "stage" /\ Visiting(c)
    /\ \/ /\ disk[c].link = "dangling"
          /\ NextClient(c, 1) /\ UNCHANGED disk
       \/ /\ disk[c].link # "dangling"
          /\ disk' = [disk EXCEPT ![c].staged =
                          File(Partial, IF @ = Gone THEN Default ELSE @.perm)]
          /\ \/ setup' = [setup EXCEPT !.at = "write"]
             \/ NextClient(c, 1)
    /\ UNCHANGED <<machine, before, wrote, edits>>

StageEnds(c) ==
    /\ setup.at = "write" /\ Visiting(c)
    /\ disk' = [disk EXCEPT ![c].staged.text = setup.text]
    /\ setup' = [setup EXCEPT !.at = "carry"]
    /\ UNCHANGED <<machine, before, wrote, edits>>

CarryPermissions(c) ==
    /\ setup.at = "carry" /\ Visiting(c)
    /\ \/ /\ disk' = [disk EXCEPT ![c].staged.perm =
                          IF disk[c].live = Gone THEN @ ELSE disk[c].live.perm]
          /\ setup' = [setup EXCEPT !.at = "publish"]
       \/ /\ disk[c].live # Gone
          /\ disk' = [disk EXCEPT ![c].staged = Gone]
          /\ NextClient(c, 1)
    /\ UNCHANGED <<machine, before, wrote, edits>>

Publish(c) ==
    /\ setup.at = "publish" /\ Visiting(c)
    /\ \/ /\ disk' = [disk EXCEPT ![c].live = disk[c].staged, ![c].staged = Gone]
          /\ wrote' = [wrote EXCEPT ![c] =
                 CASE @ # "never" -> @
                   [] disk[c].live.text # setup.read -> "over an edit"
                   [] setup.read = NoFile -> "made"
                   [] OTHER -> "changed"]
          /\ NextClient(c, 0)
       \/ /\ disk' = [disk EXCEPT ![c].staged = Gone]
          /\ NextClient(c, 1) /\ UNCHANGED wrote
    /\ UNCHANGED <<machine, before, edits>>

(* The report is printed; a run with failures exits nonzero. *)
Finish ==
    /\ setup.at = "visit" /\ setup.todo = {}
    /\ setup' = [setup EXCEPT !.at = "exit"]
    /\ UNCHANGED <<machine, disk, before, wrote, edits>>

(* The process is killed; what it left on the disk stays. *)
Kill ==
    /\ setup.at \notin {"off", "exit"}
    /\ setup' = Idle(setup.runs)
    /\ UNCHANGED <<machine, disk, before, wrote, edits>>

(* The client or the user writes the file.  Nobody takes it away during a   *)
(* run, and a file at the end of a dangling link makes the link whole.      *)
Edit(c) ==
    \E text \in TextsOf(c) \ {disk[c].live.text} :
        /\ edits < MaxEdits
        /\ text = NoFile => setup.at \in {"off", "exit"} /\ disk[c].link = "plain"
        /\ disk' = [disk EXCEPT
               ![c].live = IF text = NoFile THEN Gone ELSE File(text, @.perm),
               ![c].link = IF @ = "dangling" THEN "link" ELSE @]
        /\ before' = [before EXCEPT ![c] = IF wrote[c] = "never" THEN @ \cup {text} ELSE @]
        /\ setup' = [setup EXCEPT !.edited = @ \cup {c}]
        /\ edits' = edits + 1
        /\ UNCHANGED <<machine, wrote>>

OfRun(c) ==
    \/ Skip(c) \/ VendorCli(c) \/ ReadConfig(c)
    \/ SkipBackup(c) \/ CopyBackup(c) \/ CopyEnds(c) \/ KeepBackup(c)
    \/ Stage(c) \/ StageEnds(c) \/ CarryPermissions(c) \/ Publish(c)

SetupNext ==
    \/ \E mode \in Modes : Start(mode)
    \/ \E c \in Client : OfRun(c) \/ Edit(c)
    \/ Finish
    \/ Kill

SetupSpec == SetupInit /\ [][SetupNext]_setupVars

-----------------------------------------------------------------------------
(* The backup is whole, and it says what the file said before setup ever    *)
(* wrote it - however often setup is run, killed or refused a write - unless *)
(* setup made the file itself, or wrote over an edit it had not read        *)
(* (setup.rs, `backup_once`).                                               *)
BackupPredates ==
    \A c \in Client : disk[c].backup # NoFile =>
        /\ disk[c].backup # Partial
        /\ wrote[c] \in {"never", "changed"} => disk[c].backup \in before[c]

(* What setup puts in a file's place is whole and keeps everything that is  *)
(* not its own: the file's permissions, its being a link, and, unless the   *)
(* file was edited since setup read it, the rest of the configuration with  *)
(* the keys the user added to the entry (`persist`, `upsert_*`, `remove_*`). *)
NothingLost ==
    [][setup.at = "publish" /\ edits' = edits => \A c \in Client :
        LET old == disk[c].live
            new == disk'[c].live
        IN  new # old =>
              /\ new.text \in Config
              /\ disk'[c].link = disk[c].link
              /\ setup.read # NoFile => new.perm = old.perm
              /\ old.text = setup.read /\ old.text \in Config =>
                    /\ new.text.other = old.text.other
                    /\ setup.mode = "apply" /\ old.text.entry \notin {NoEntry, Scalar} =>
                          new.text.entry.extra = old.text.entry.extra
      ]_setupVars

(* An exit that reports no failure is true of every client that was         *)
(* detected and that nobody edited since the run began: it runs this binary *)
(* after an apply, and has no entry left after a removal, save one held in  *)
(* an inline table of servers (`run`, `run_in`).                            *)
Registered(text) ==
    text \in Config /\ text.entry \notin {NoEntry, Scalar} /\ text.entry.command = "exe"

ExitTells ==
    setup.at = "exit" /\ setup.failed = 0 =>
        \A c \in (Client \cap machine.installed) \ (setup.edited \cup {"perplexity"}) :
            LET text == disk[c].live.text
            IN  /\ setup.mode = "apply" => Registered(text)
                /\ setup.mode = "remove" /\ text \in Config /\ text.table =>
                      text.entry = NoEntry
=============================================================================
