---------------------------- MODULE HarnessEvidence ----------------------------
(***************************************************************************)
(* Attestations of harness runs (math-atoms-attestation/src/lib.rs).       *)
(* run_harness starts an allowlisted program, drains its two pipes from    *)
(* two threads, waits for its end under a deadline, compares what it       *)
(* printed and, when all is as expected, hashes the files and writes the   *)
(* attestation once; verify_harness_attestation rereads all of it, now or  *)
(* in a later process.                                                     *)
(*                                                                         *)
(* A file is the name of its content, its hash is that content; a pipe is  *)
(* the number of chunks written and read; what was printed is "right",     *)
(* "wrong" or "binary" (not UTF-8).  The two pipes are alike and only      *)
(* stdout is kept.                                                         *)
(***************************************************************************)
EXTENDS Naturals

CONSTANTS
  MaxCapture,    \* chunks a reader takes (MAX_CAPTURE_BYTES)
  PipeRoom,      \* chunks a pipe holds before its writer blocks
  MaxPrinted     \* bound: chunks a program prints

VARIABLE harness \* the call, its program, the files and what was attested

Absent == "absent"
Versions == {"v1", "v2"}
Allowed == {"rust-console-exact-v1", "native-pmre-functional-v1"}
ArtifactEnv(id) ==
  CASE id = "native-pmre-functional-v1" -> "MATH_ATOMS_REAL_APP_BMP"
    [] OTHER -> ""

(* HarnessRunSpec: the fields a run is refused for, or that must match. *)
Specs == [id : Allowed \cup {"caller-selected"}, env : {"", "MATH_ATOMS_REAL_APP_BMP"},
          gate : {"", "build"}, timeout : {0, 1, 601}]
Runnable(spec) ==
  /\ spec.id \in Allowed
  /\ spec.gate # ""
  /\ spec.timeout \in 1..600
  /\ spec.env = ArtifactEnv(spec.id)

HarnessInit ==
  harness = [at |-> "idle", spec |-> [id |-> "", env |-> "", gate |-> "", timeout |-> 0],
             child |-> "none", exit |-> 0, printed |-> 0, read |-> 0, prints |-> "right",
             reader |-> "none", artifact |-> Absent, executable |-> "v1", file |-> Absent,
             attested |-> [exit |-> 0], hash |-> Absent]

Is(at) == harness.at = at
Refused == [harness EXCEPT !.at = "refused"]

(* The checks and the spawn; an executable that is missing does not        *)
(* canonicalize.  The readers start with the program.                      *)
RunHarness ==
  /\ Is("idle")
  /\ \E spec \in Specs :
       harness' = IF Runnable(spec) /\ harness.executable # Absent
                  THEN [harness EXCEPT !.at = "waiting", !.spec = spec, !.child = "running", !.reader = "reading"]
                  ELSE [Refused EXCEPT !.spec = spec]

(* The program prints while its pipe has room, and writes the artifact its *)
(* environment names.                                                      *)
ChildPrints ==
  /\ harness.child = "running"
  /\ harness.reader = "reading"
  /\ harness.printed < MaxPrinted
  /\ harness.printed - harness.read < PipeRoom
  /\ \E what \in {"right", "wrong", "binary"} :
       harness' = [harness EXCEPT !.printed = @ + 1,
                                  !.prints = IF harness.printed = 0 \/ what # "right" THEN what ELSE @]
ChildWrites ==
  /\ harness.child = "running"
  /\ \E c \in Versions : harness' = [harness EXCEPT !.artifact = c]

(* It ends by itself, or of the broken pipe a reader over its limit left.  *)
ChildExits ==
  /\ harness.child = "running"
  /\ \E code \in {0, 1} : harness' = [harness EXCEPT !.child = "exited", !.exit = code]
ChildBreaks ==
  /\ harness.child = "running"
  /\ harness.reader = "failed"
  /\ harness' = [harness EXCEPT !.child = "exited", !.exit = 1]

(* Variant: a reader at its limit keeps what it has and ends. *)
ReadsTruncated ==
  /\ harness.reader = "reading"
  /\ \/ /\ harness.read < harness.printed
        /\ harness' = [harness EXCEPT !.read = @ + 1,
                                      !.reader = IF harness.read = MaxCapture THEN "done" ELSE @]
     \/ /\ harness.read = harness.printed
        /\ harness.child # "running"
        /\ harness' = [harness EXCEPT !.reader = "done"]

(* read_bounded: up to the limit and one more, to the end of the pipe. *)
Reads ==
  /\ harness.reader = "reading"
  /\ \/ /\ harness.read < harness.printed
        /\ harness' = [harness EXCEPT !.read = @ + 1,
                                      !.reader = IF harness.read = MaxCapture THEN "failed" ELSE @]
     \/ /\ harness.read = harness.printed
        /\ harness.child # "running"
        /\ harness' = [harness EXCEPT !.reader = "done"]

(* The poll: the program's end, or the deadline with kill and wait. *)
Collected ==
  /\ Is("waiting")
  /\ harness.child = "exited"
  /\ harness' = [harness EXCEPT !.at = "joining"]

(* Variant: the deadline returns without ending the program. *)
TimesOutLeaving ==
  /\ Is("waiting")
  /\ harness.child = "running"
  /\ harness' = Refused

TimesOut ==
  /\ Is("waiting")
  /\ harness.child = "running"
  /\ harness' = [Refused EXCEPT !.child = "exited", !.exit = 1]

(* The readers are joined, then exit code and output are compared. *)
Satisfied == harness.reader = "done" /\ harness.prints = "right" /\ harness.printed > 0 /\ harness.exit = 0
Joined ==
  /\ Is("joining")
  /\ harness.reader \in {"done", "failed"}
  /\ harness' = IF Satisfied THEN [harness EXCEPT !.at = "hashing"] ELSE Refused

(* HarnessAttestation: the fields of the schema, and validate of them. *)
Attestation(h) ==
  [id |-> h.spec.id, env |-> ArtifactEnv(h.spec.id), gate |-> h.spec.gate, exit |-> h.exit,
   artifact |-> h.artifact, executable |-> h.executable, expected |-> "right", actual |-> h.prints]
ValidAttestation(a) ==
  /\ a.id \in Allowed
  /\ a.gate # ""
  /\ a.env = ArtifactEnv(a.id)
  /\ a.exit = 0
  /\ a.expected = a.actual
  /\ {a.artifact, a.executable} \cap {Absent} = {}

(* The files are hashed, and the attestation is created only where none is *)
(* yet, then read back.                                                    *)
Attest ==
  /\ Is("hashing")
  /\ harness' =
       LET a == Attestation(harness) IN
       IF ValidAttestation(a) /\ harness.file = Absent
       THEN [harness EXCEPT !.at = "written", !.attested = a, !.file = "attested", !.hash = "attested"]
       ELSE Refused

(* Other processes, at any time: an artifact or an executable rebuilt (the *)
(* one attested is then not the one that ran), a file lost or              *)
(* put where the attestation goes, or the attestation edited.              *)
Others ==
  \/ \E c \in Versions \cup {Absent} : harness' = [harness EXCEPT !.artifact = c]
  \/ \E c \in Versions \cup {Absent} : harness' = [harness EXCEPT !.executable = c]
  \/ \E c \in {"other", Absent} : harness' = [harness EXCEPT !.file = c]

(* Another run of the same build: its files stay where they are. *)
RunAgain ==
  /\ harness.at \in {"refused", "written"}
  /\ harness.child # "running"
  /\ harness' = [harness EXCEPT !.at = "idle", !.child = "none", !.exit = 0, !.printed = 0, !.read = 0,
                                !.prints = "right", !.reader = "none"]

(* verify_harness_attestation with the hash run_harness returned. *)
Attested(h, gate) ==
  /\ h.hash # Absent
  /\ h.file = h.hash
  /\ ValidAttestation(h.attested)
  /\ h.attested.gate = gate
  /\ h.artifact = h.attested.artifact
  /\ h.executable = h.attested.executable

HarnessNext ==
  \/ RunHarness \/ ChildPrints \/ ChildWrites \/ ChildExits \/ ChildBreaks \/ Reads
  \/ Collected \/ TimesOut \/ Joined \/ Attest \/ Others \/ RunAgain

(***************************************************************************)
(* Properties.                                                             *)
(***************************************************************************)
(* An attestation stands only for a run that ended by itself with code 0   *)
(* and printed exactly what was expected, and it verifies as long as the   *)
(* three files are what they were; any file changed, lost or replaced      *)
(* since makes it fail (run_harness, verify_harness_attestation).          *)
AttestationsAreEarned ==
  /\ Is("written") /\ harness.file = "attested" =>
       /\ harness.attested.exit = 0 /\ harness.attested.actual = "right"
       /\ harness.read = harness.printed /\ harness.printed \in 1..MaxCapture
  /\ Attested(harness, "build") =>
       {harness.artifact, harness.executable, harness.file} \cap {Absent, "other"} = {}

(* When run_harness has returned, its program does not run any more: the   *)
(* files it might still write are the ones that were or will be hashed.    *)
ProgramsAreEnded ==
  harness.at \in {"idle", "joining", "hashing", "refused", "written"} => harness.child # "running"
=============================================================================
