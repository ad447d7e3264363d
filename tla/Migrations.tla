------------------------------- MODULE Migrations -------------------------------
(***************************************************************************)
(* The migration command: for each file, in order, it asks whether the     *)
(* file is recorded, looks for an unrecorded initial schema, executes the  *)
(* file's statements and records it.  Two commands may run at once, and a  *)
(* command may die between any two steps; the server then may still finish *)
(* the statements it has been sent.                                        *)
(*                                                                         *)
(* MySQL commits every CREATE TABLE by itself.  The initial schema has ten *)
(* tables and the model two; the second file's statements can be repeated. *)
(***************************************************************************)
EXTENDS Naturals, Sequences, FiniteSets

CONSTANTS
    Commands,     (* the runs of the command that may overlap                  *)
    MaxRuns,      (* bound on the runs that are started                        *)
    MaxCrashes    (* bound on the runs that die                                *)

(* db/migrations, sorted *)
Files == <<  <<"users", "sessions">>, <<"seed">>, <<"jobs">>  >>
Tables == {"users", "sessions", "jobs"}
InitialTables == Files[1]
Statements(m) == {Files[m][i] : i \in 1 .. Len(Files[m])}

VARIABLES
    applied,    (* the statements that have taken effect                       *)
    recorded,   (* the rows of schema_migrations                               *)
    cmd,        (* each command: where it is, its file and its next statement  *)
    runs, crashes

vars == <<applied, recorded, cmd, runs, crashes>>

At(pc, file, k, count) == [pc |-> pc, file |-> file, k |-> k, count |-> count]
Off == At("off", 1, 1, 0)
Ended == {"off", "ok", "failed", "dead"}
Set(c, to) == cmd' = [cmd EXCEPT ![c] = to]

Init ==
    /\ applied = {} /\ recorded = {}
    /\ cmd = [c \in Commands |-> Off]
    /\ runs = 0 /\ crashes = 0

(* ensureMigrationTable, filepath.Glob and sort.Strings *)
Start(c) ==
    /\ cmd[c].pc \in Ended /\ runs < MaxRuns
    /\ Set(c, At("check", 1, 1, 0))
    /\ runs' = runs + 1
    /\ UNCHANGED <<applied, recorded, crashes>>

NextFile(c) ==
    IF cmd[c].file < Len(Files) THEN At("check", cmd[c].file + 1, 1, 0)
                                ELSE At("ok", 1, 1, 0)
Fatal == At("failed", 1, 1, 0)

(* migrationApplied, and shouldCheckInitialSchemaBaseline *)
CheckApplied(c) ==
    /\ cmd[c].pc = "check"
    /\ Set(c, IF cmd[c].file \in recorded THEN NextFile(c)
              ELSE At(IF cmd[c].file = 1 THEN "count" ELSE "exec", cmd[c].file, 1, 0))
    /\ UNCHANGED <<applied, recorded, runs, crashes>>

(* countExistingTables: a query for each name *)
CountTable(c) ==
    /\ cmd[c].pc = "count" /\ cmd[c].k <= Len(InitialTables)
    /\ Set(c, [cmd[c] EXCEPT !.k = @ + 1,
                             !.count = IF InitialTables[cmd[c].k] \in applied THEN @ + 1 ELSE @])
    /\ UNCHANGED <<applied, recorded, runs, crashes>>

(* Mutant: any table of the initial schema stands for all of it. *)
BaselineIfAny(c) ==
    /\ cmd[c].pc = "count" /\ cmd[c].k > Len(InitialTables)
    /\ Set(c, IF cmd[c].count = 0 THEN At("exec", 1, 1, 0) ELSE At("record", 1, 1, 0))
    /\ UNCHANGED <<applied, recorded, runs, crashes>>

(* Mutant: the command is over once it has recorded what it found. *)
BaselineEnds(c) ==
    /\ cmd[c].pc = "count" /\ cmd[c].k > Len(InitialTables)
    /\ IF cmd[c].count = Len(InitialTables) /\ 1 \notin recorded
       THEN recorded' = {1} /\ Set(c, At("ok", 1, 1, 0))
       ELSE /\ Set(c, IF cmd[c].count = 0 THEN At("exec", 1, 1, 0) ELSE Fatal)
            /\ UNCHANGED recorded
    /\ UNCHANGED <<applied, runs, crashes>>

(* Mutant: the place in the list of tables is the place in the file. *)
BaselineKeepsPlace(c) ==
    /\ cmd[c].pc = "count" /\ cmd[c].k > Len(InitialTables)
    /\ Set(c, IF cmd[c].count = 0 THEN [cmd[c] EXCEPT !.pc = "exec"] ELSE Fatal)
    /\ UNCHANGED <<applied, recorded, runs, crashes>>

(* No table: execute.  All of them: record only.  Some: refuse. *)
Baseline(c) ==
    /\ cmd[c].pc = "count" /\ cmd[c].k > Len(InitialTables)
    /\ Set(c, CASE cmd[c].count = 0 -> At("exec", 1, 1, 0)
                [] cmd[c].count = Len(InitialTables) -> At("record", 1, 1, 0)
                [] OTHER -> Fatal)
    /\ UNCHANGED <<applied, recorded, runs, crashes>>

(* db.Exec of the whole file, statement by statement; a table that exists is an
   error, and the rest of the file is not executed. *)
Execute(c) ==
    /\ cmd[c].pc \in {"exec", "detached"}
    /\ LET s == Files[cmd[c].file][cmd[c].k]
           last == cmd[c].k = Len(Files[cmd[c].file])
           dead == At("dead", 1, 1, 0)
       IN  IF s \in Tables \cap applied
           THEN /\ Set(c, IF cmd[c].pc = "exec" THEN Fatal ELSE dead)
                /\ UNCHANGED applied
           ELSE /\ applied' = applied \cup {s}
                /\ Set(c, IF ~last THEN [cmd[c] EXCEPT !.k = @ + 1]
                          ELSE IF cmd[c].pc = "exec" THEN At("record", cmd[c].file, 1, 0)
                          ELSE dead)
    /\ UNCHANGED <<recorded, runs, crashes>>

(* recordMigration: the name is the primary key. *)
Record(c) ==
    /\ cmd[c].pc = "record"
    /\ recorded' = recorded \cup {cmd[c].file}
    /\ Set(c, IF cmd[c].file \in recorded THEN Fatal ELSE NextFile(c))
    /\ UNCHANGED <<applied, runs, crashes>>

(* The command dies; statements it has sent may still be executed. *)
Crash(c) ==
    /\ cmd[c].pc \notin Ended \cup {"detached"} /\ crashes < MaxCrashes
    /\ \/ Set(c, At("dead", 1, 1, 0))
       \/ cmd[c].pc = "exec" /\ Set(c, [cmd[c] EXCEPT !.pc = "detached"])
    /\ crashes' = crashes + 1
    /\ UNCHANGED <<applied, recorded, runs>>

Step(c) == CheckApplied(c) \/ CountTable(c) \/ Baseline(c) \/ Execute(c) \/ Record(c)

Next == \E c \in Commands : Start(c) \/ Step(c) \/ Crash(c)

Spec == Init /\ [][Next]_vars
-----------------------------------------------------------------------------
(* The values each variable takes. *)
TypeOK ==
    /\ applied \subseteq UNION {Statements(m) : m \in 1 .. Len(Files)}
    /\ recorded \subseteq 1 .. Len(Files)
    /\ \A c \in Commands :
          /\ cmd[c].pc \in Ended \cup {"check", "count", "exec", "detached", "record"}
          /\ cmd[c].file \in 1 .. Len(Files)
          /\ cmd[c].pc \in {"exec", "detached"} => cmd[c].k <= Len(Files[cmd[c].file])
    /\ runs \in 0 .. MaxRuns /\ crashes \in 0 .. MaxCrashes

(* What is recorded has been applied, the initial schema that was only found too, and
   in the order of the files: no file is begun before the earlier ones are recorded. *)
RecordedIsApplied ==
    \A m \in 1 .. Len(Files) :
        /\ m \in recorded => Statements(m) \subseteq applied
        /\ (Statements(m) \cap applied # {}) => 1 .. m - 1 \subseteq recorded

(* A command that ends well leaves the whole schema. *)
OkIsComplete ==
    (\E c \in Commands : cmd[c].pc = "ok") => recorded = 1 .. Len(Files)

(* Commands that overlap may make each other fail, but one of them finishes: when all
   have ended and none has died, the schema is complete. *)
OneOfThemFinishes ==
    (runs > 0 /\ crashes = 0 /\ \A c \in Commands : cmd[c].pc \in Ended)
        => recorded = 1 .. Len(Files)

(* Not kept by the code (a file applied and not recorded is applied again): a command
   that runs alone and finds each file applied as a whole or not at all does not fail
   (the README says to run it to create the schema, and of no case in which it cannot
   be run again). *)
AppliedIsNoObstacle ==
    (/\ Cardinality(Commands) = 1
     /\ \A m \in 1 .. Len(Files) : Statements(m) \subseteq applied \/ Statements(m) \cap applied = {})
        => \A c \in Commands : cmd[c].pc # "failed"
=============================================================================
