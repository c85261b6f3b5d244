----------------------------- MODULE Installer -----------------------------
(***************************************************************************)
(* The installation of the language server by the WASM extension:          *)
(* language_server_command (src/lib.rs) with the marker and staging files  *)
(* of src/cache.rs and the verification of src/verify.rs.                  *)
(*                                                                         *)
(* Every file operation is an action.  Several editor processes may share  *)
(* the work directory of the extension; each of them runs one call at a    *)
(* time and may die between any two operations.  Bytes are abstracted to   *)
(* the release they belong to, and a digest to the bytes it is of: Bad     *)
(* stands for truncated, corrupt or foreign bytes.                         *)
(*                                                                         *)
(* A definition whose name starts with Bad is a plausible slip in the code *)
(* of the definition that follows it; no specification uses it.            *)
(***************************************************************************)

CONSTANTS
  Instances,  \* editor processes that run the extension
  Releases,   \* what the release lookup may come up with
  Bad, Absent, Link, Malformed

ASSUME ContentsAssumption ==
  /\ Bad \notin Releases /\ Absent \notin Releases \cup {Bad}
  /\ Link \notin Releases \cup {Bad, Absent}
  /\ Malformed \notin Releases \cup {Bad, Absent}

VARIABLES
  stored,   \* the file rsc-ls-<version>
  marker,   \* the file rsc-ls-<version>.verified
  staging,  \* the files rsc-ls-<version>.part-<pid>-<counter>
  inst,     \* the calls: program counters and locals
  tampered  \* history: what something else has done to the work directory

vars == <<stored, marker, staging, inst, tampered>>

Bytes == Releases \cup {Bad}

-----------------------------------------------------------------------------
(***************************************************************************)
(* Types.  "gate" is the place in language_server_command from which the   *)
(* integrity of the stored pair is looked at: step 2, step 3 or, once a    *)
(* download has begun, the check before the command is returned.  "ran" is *)
(* the content of the file of the last command returned, "tidy" holds      *)
(* until a crash or a failing removal: both are history for properties.    *)
(* "tampered" is "forged" once somebody has recorded the digest of bytes   *)
(* that are no release's: the gate checks that the pair agrees, and neither *)
(* half of it is authenticated.                                            *)
(***************************************************************************)
Instance ==
  [pc : {"idle", "look", "marker", "hash", "download", "arriving", "verify",
         "publish", "republish", "mark", "rename", "rerename",
         "cleanup", "remove", "unmark"},
   gate : {"session", "reuse", "recheck"},
   rel : Releases \cup {Absent},
   got : Bytes \cup {Absent},
   cached : {"none", "path", "stored"},
   ran : Bytes \cup {Absent},
   tidy : BOOLEAN]

Fresh == [pc |-> "idle", gate |-> "reuse", rel |-> Absent, got |-> Absent,
          cached |-> "none", ran |-> Absent, tidy |-> TRUE]

TypeOK ==
  /\ stored \in Bytes \cup {Absent, Link}
  /\ marker \in Bytes \cup {Absent, Malformed}
  /\ staging \in [Instances -> Bytes \cup {Absent}]
  /\ inst \in [Instances -> Instance]
  /\ tampered \in {"no", "files", "forged"}
  /\ \A i \in Instances : inst[i].pc \in {"arriving", "verify", "publish",
       "republish", "mark", "rename", "rerename"} => inst[i].rel # Absent

\* Without the process id in the tag, processes share the path.
BadStagingOf(i) == CHOOSE j \in Instances : TRUE

\* staging_path: the path carries the process id, so it is this instance's own.
\* The counter is left out: a call removes what it finds at its path.
StagingOf(i) == i

At(i, pc) == inst[i].pc \in pc

\* The release and the gate are forgotten where they go out of scope.
GoTo(i, pc) ==
  inst' = [inst EXCEPT ![i].pc = pc,
                       ![i].rel = IF pc \in {"cleanup", "remove"} THEN Absent ELSE @,
                       ![i].gate = IF pc = "idle" THEN "reuse" ELSE @]

-----------------------------------------------------------------------------
(* The reuse gates *)

\* A binary on PATH is accepted; its bytes are not the extension's business
\* unless a pin says so.
PathHit(i) ==
  /\ At(i, {"idle"})
  /\ inst' = [inst EXCEPT ![i].cached = "path"]
  /\ UNCHANGED <<stored, marker, staging>>

\* No binary on PATH, or it was refused.
Call(i) ==
  /\ At(i, {"idle"})
  /\ inst' = [inst EXCEPT ![i].pc = "look",
                          ![i].gate = IF inst[i].cached = "stored" THEN "session" ELSE "reuse",
                          ![i].ran = Absent]
  /\ UNCHANGED <<stored, marker, staging>>

\* A pair that fails its gate is reported and left where it is.
BadRefuse(i, next) ==
  inst' = [inst EXCEPT
    ![i].pc = CASE inst[i].gate = "session" -> "look"
                [] inst[i].gate = "reuse" -> IF next = "remove" THEN "idle" ELSE next
                [] OTHER -> "cleanup",
    ![i].gate = IF inst[i].gate = "session" THEN "reuse" ELSE @,
    ![i].got = Absent]

\* The gate stays shut.  Step 2 falls through to step 3, step 3 goes on to
\* next, the last check fails the call.
Refuse(i, next) ==
  inst' = [inst EXCEPT
    ![i].pc = CASE inst[i].gate = "session" -> "look"
                [] inst[i].gate = "reuse" -> next
                [] OTHER -> "cleanup",
    ![i].gate = IF inst[i].gate = "session" THEN "reuse" ELSE @,
    ![i].got = Absent]

\* is_symlink and is_executable (an existence check in the WASM build)
Look(i) ==
  /\ At(i, {"look"})
  /\ \/ stored \in Bytes /\ GoTo(i, "marker")
     \/ stored = Absent /\ Refuse(i, "download")
     \/ stored = Link /\ Refuse(i, "remove")
  /\ UNCHANGED <<stored, marker, staging>>

\* integrity_problem: read_marker_digest
ReadMarker(i) ==
  /\ At(i, {"marker"})
  /\ IF marker \in Bytes
       THEN inst' = [inst EXCEPT ![i].pc = "hash", ![i].got = marker]
       ELSE Refuse(i, "remove")
  /\ UNCHANGED <<stored, marker, staging>>

\* The gate lets any binary pass that has a marker.
BadHashBinary(i) ==
  /\ At(i, {"hash"})
  /\ IF stored \in Bytes
       THEN inst' = [inst EXCEPT ![i].pc = "idle", ![i].cached = "stored",
                                 ![i].ran = stored, ![i].got = Absent,
                                 ![i].gate = "reuse"]
       ELSE Refuse(i, "remove")
  /\ UNCHANGED <<stored, marker, staging>>

\* integrity_problem: the bytes are hashed later than the marker was read.
\* When they agree the command is returned.
HashBinary(i) ==
  /\ At(i, {"hash"})
  /\ IF stored = inst[i].got
       THEN inst' = [inst EXCEPT ![i].pc = "idle", ![i].cached = "stored",
                                 ![i].ran = stored, ![i].got = Absent,
                                 ![i].gate = "reuse"]
       ELSE Refuse(i, "remove")
  /\ UNCHANGED <<stored, marker, staging>>

-----------------------------------------------------------------------------
(* Download, verification and publication *)

\* The release looked up is not kept for the verification.
BadDownload(i, r) ==
  /\ At(i, {"download"})
  /\ staging' = [staging EXCEPT ![StagingOf(i)] = Bad]
  /\ inst' = [inst EXCEPT ![i].pc = "arriving", ![i].gate = "recheck"]
  /\ UNCHANGED <<stored, marker>>

\* The host writes the staging file while bytes arrive.
Download(i, r) ==
  /\ At(i, {"download"})
  /\ staging' = [staging EXCEPT ![StagingOf(i)] = Bad]
  /\ inst' = [inst EXCEPT ![i].pc = "arriving", ![i].gate = "recheck", ![i].rel = r]
  /\ UNCHANGED <<stored, marker>>

Arrive(i) ==
  /\ At(i, {"arriving"})
  /\ staging' = [staging EXCEPT ![StagingOf(i)] = inst[i].rel]
  /\ GoTo(i, "verify")
  /\ UNCHANGED <<stored, marker>>

\* The staging file is left behind when it does not verify.
BadVerify(i) ==
  /\ At(i, {"verify"})
  /\ GoTo(i, IF staging[StagingOf(i)] = inst[i].rel THEN "publish" ELSE "remove")
  /\ UNCHANGED <<stored, marker, staging>>

\* verify_downloaded_binary, then make_file_executable
Verify(i) ==
  /\ At(i, {"verify"})
  /\ GoTo(i, IF staging[StagingOf(i)] = inst[i].rel THEN "publish" ELSE "cleanup")
  /\ UNCHANGED <<stored, marker, staging>>

\* atomic_replace on hosts that refuse to rename over a file: unlink first
Unlink(i) ==
  \/ /\ At(i, {"publish"}) /\ stored # Absent
     /\ stored' = Absent
     /\ GoTo(i, "republish")
     /\ UNCHANGED <<marker, staging>>
  \/ /\ At(i, {"rename"}) /\ marker # Absent
     /\ marker' = Absent
     /\ GoTo(i, "rerename")
     /\ UNCHANGED <<stored, staging>>

\* The rename of the staging file, which fails when somebody removed it.
Publish(i) ==
  /\ At(i, {"publish", "republish"})
  /\ \/ /\ staging[StagingOf(i)] # Absent
        /\ stored' = staging[StagingOf(i)]
        /\ staging' = [staging EXCEPT ![StagingOf(i)] = Absent]
        /\ GoTo(i, "mark")
     \/ /\ staging[StagingOf(i)] = Absent
        /\ GoTo(i, "cleanup")
        /\ UNCHANGED <<stored, staging>>
  /\ UNCHANGED marker

\* The digest is written in place.
BadWriteMarker(i) ==
  /\ At(i, {"mark"})
  /\ marker' = Malformed
  /\ GoTo(i, "rename")
  /\ UNCHANGED <<stored, staging>>

\* write_marker: the digest goes to a file of its own, which nobody reads.
WriteMarker(i) ==
  /\ At(i, {"mark"})
  /\ GoTo(i, "rename")
  /\ UNCHANGED <<stored, marker, staging>>

\* That file is renamed over the marker, and the gate is checked once more.
RenameMarker(i) ==
  /\ At(i, {"rename", "rerename"})
  /\ marker' = inst[i].rel
  /\ inst' = [inst EXCEPT ![i].pc = "look", ![i].rel = Absent]
  /\ UNCHANGED <<stored, staging>>

-----------------------------------------------------------------------------
(* Removal: remove_staging, then remove_cached_artifacts *)

RemoveStaging(i) ==
  /\ At(i, {"cleanup"})
  /\ staging' = [staging EXCEPT ![StagingOf(i)] = Absent]
  /\ GoTo(i, "remove")
  /\ UNCHANGED <<stored, marker>>

RemoveBinary(i) ==
  /\ At(i, {"remove"})
  /\ stored' = Absent
  /\ GoTo(i, "unmark")
  /\ UNCHANGED <<marker, staging>>

\* A stale pair makes way for a download, otherwise the call has failed.
AfterRemoval(i) == IF inst[i].gate = "reuse" THEN "download" ELSE "idle"

RemoveMarker(i) ==
  /\ At(i, {"unmark"})
  /\ marker' = Absent
  /\ GoTo(i, AfterRemoval(i))
  /\ UNCHANGED <<stored, staging>>

-----------------------------------------------------------------------------
(* Failures *)

\* The marker or the binary cannot be read although it is there.
ReadFails(i) ==
  /\ \/ At(i, {"marker"}) /\ marker \in Bytes
     \/ At(i, {"hash"}) /\ stored = inst[i].got
  /\ Refuse(i, "remove")
  /\ UNCHANGED <<stored, marker, staging>>

\* download_file fails half way.
DownloadFails(i) ==
  /\ At(i, {"arriving"})
  /\ GoTo(i, "cleanup")
  /\ UNCHANGED <<stored, marker, staging>>

\* download_file succeeds with bytes that are not the release's.
ArriveCorrupt(i) ==
  /\ At(i, {"arriving"})
  /\ GoTo(i, "verify")
  /\ UNCHANGED <<stored, marker, staging>>

\* No companion digest or no chmod; no rename; no marker.
StepFails(i) ==
  /\ \/ At(i, {"verify"}) /\ staging[StagingOf(i)] = inst[i].rel
     \/ At(i, {"publish", "republish", "mark", "rename", "rerename"})
  /\ GoTo(i, "cleanup")
  /\ UNCHANGED <<stored, marker, staging>>

\* Removals are best effort.
RemovalFails(i) ==
  /\ \/ At(i, {"cleanup"}) /\ staging[StagingOf(i)] # Absent
     \/ At(i, {"remove"}) /\ stored # Absent
     \/ At(i, {"unmark"}) /\ marker # Absent
  /\ LET pc == CASE At(i, {"cleanup"}) -> "remove"
                 [] At(i, {"remove"}) -> "unmark"
                 [] OTHER -> AfterRemoval(i)
     IN inst' = [inst EXCEPT ![i].tidy = FALSE, ![i].pc = pc,
                             ![i].gate = IF pc = "idle" THEN "reuse" ELSE @]
  /\ UNCHANGED <<stored, marker, staging>>

\* The editor is gone; a new one starts with a fresh extension.
Crash(i) ==
  /\ inst[i] # Fresh
  /\ inst' = [inst EXCEPT ![i] = [Fresh EXCEPT !.tidy = FALSE]]
  /\ UNCHANGED <<stored, marker, staging>>

\* Something else truncates, replaces or removes a file that is there, or puts
\* one in the place of the binary or the marker.  What it writes is whatever it
\* likes: other bytes, a release's, and any digest.
Tamper ==
  /\ \/ /\ stored' \in (Bytes \cup {Absent, Link}) \ {stored}
        /\ UNCHANGED <<marker, staging>>
     \/ /\ marker' \in (Bytes \cup {Absent, Malformed}) \ {marker}
        /\ UNCHANGED <<stored, staging>>
     \/ \E i \in Instances :
          /\ staging[i] # Absent
          /\ \E b \in (Bytes \cup {Absent}) \ {staging[i]} :
               staging' = [staging EXCEPT ![i] = b]
          /\ UNCHANGED <<stored, marker>>
  /\ tampered' = IF tampered = "forged" \/ marker' = Bad THEN "forged" ELSE "files"
  /\ UNCHANGED inst

-----------------------------------------------------------------------------
Init ==
  /\ stored = Absent
  /\ marker = Absent
  /\ staging = [i \in Instances |-> Absent]
  /\ inst = [i \in Instances |-> Fresh]
  /\ tampered = "no"

Step(i) ==
  \/ Look(i) \/ ReadMarker(i) \/ HashBinary(i)
  \/ \E r \in Releases : Download(i, r)
  \/ Arrive(i) \/ Verify(i) \/ Unlink(i) \/ Publish(i)
  \/ WriteMarker(i) \/ RenameMarker(i)
  \/ RemoveStaging(i) \/ RemoveBinary(i) \/ RemoveMarker(i)

Failure(i) ==
  \/ ReadFails(i) \/ DownloadFails(i) \/ ArriveCorrupt(i) \/ StepFails(i)
  \/ RemovalFails(i) \/ Crash(i)

Fault == Tamper \/ (UNCHANGED tampered /\ \E i \in Instances : Failure(i))

Act(i) == UNCHANGED tampered /\ (PathHit(i) \/ Call(i) \/ Step(i))

Next == Fault \/ \E i \in Instances : Act(i)

SafeSpec == Init /\ [][Next]_vars

\* A call runs to its end, and the editor asks again.
Spec ==
  /\ SafeSpec
  /\ \A i \in Instances : /\ WF_vars(Step(i) /\ UNCHANGED tampered)
                          /\ WF_vars(Call(i) /\ UNCHANGED tampered)

-----------------------------------------------------------------------------
(* Properties *)

\* "The stored path is never a download target" (src/lib.rs): without
\* tampering, whatever is stored has passed verification, whichever
\* processes install and crash at the same time.
StoredVerified == tampered = "no" => stored \in Releases \cup {Absent}

\* "a crash never leaves a half-written marker behind" (write_marker)
MarkerWhole == tampered = "no" => marker \in Releases \cup {Absent}

\* integrity_problem, write_marker: the bytes behind every command returned were a
\* verified release's, even if the binary, its marker or a staging file is replaced
\* between any two steps, unless somebody has recorded the digest of other bytes:
\* such a pair opens the gate.
RunsVerified ==
  tampered # "forged" => \A i \in Instances : inst[i].ran \in Releases \cup {Absent}

\* Every way out of a call removes its staging file, unless the process died
\* or the removal itself failed.
NoResidue ==
  \A i \in Instances : At(i, {"idle"}) /\ inst[i].tidy => staging[StagingOf(i)] = Absent

\* The pair agrees, on a release unless somebody recorded another digest.
Intact ==
  /\ marker = stored
  /\ stored \in Releases \/ (stored = Bad /\ tampered = "forged")

\* Self-healing: once failures and tampering end, the work directory comes
\* to hold an intact pair and keeps it, wherever the last failure struck.
Heals == <>[][~Fault]_vars => <>[]Intact
=============================================================================
