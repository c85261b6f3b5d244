-------------------------- MODULE Installer_proofs --------------------------
(***************************************************************************)
(* Proofs about Installer, for any number of editor processes and          *)
(* releases.  One inductive invariant, IInv, carries all of them.          *)
(***************************************************************************)
EXTENDS Installer, TLAPS

\* Outside these places a call owns no staging file.
Staging == {"arriving", "verify", "publish", "republish", "cleanup"}

Holding == {"arriving", "verify", "publish", "republish", "mark", "rename", "rerename"}

\* Without tampering, what is about to be published was verified: no other call
\* writes to the staging file between the verification and the rename.
Verified ==
  tampered = "no" => \A i \in Instances :
    At(i, {"publish", "republish"}) => staging[i] = inst[i].rel

\* No call records the digest of unverified bytes, or compares with one, unless
\* somebody else has recorded it.
Digests == tampered # "forged" =>
  /\ marker \in Releases \cup {Absent, Malformed}
  /\ \A i \in Instances : inst[i].got \in Releases \cup {Absent}

\* A tidy call has a staging file only where it still has to remove it.
Tidy ==
  \A i \in Instances : inst[i].tidy /\ ~At(i, Staging) => staging[i] = Absent

IInv ==
  /\ TypeOK
  /\ Verified
  /\ Digests
  /\ Tidy
  /\ StoredVerified
  /\ MarkerWhole
  /\ RunsVerified

LEMMA InitInv == Init => IInv
<1> SUFFICES ASSUME Init PROVE IInv
  OBVIOUS
<1>1. Fresh \in Instance /\ Fresh.pc = "idle" /\ Fresh.got = Absent /\ Fresh.ran = Absent
  BY DEF Fresh, Instance
<1>2. \A i \in Instances : inst[i] = Fresh /\ staging[i] = Absent
  BY DEF Init
<1>3. TypeOK
  <2>1. inst \in [Instances -> Instance] /\ staging \in [Instances -> Bytes \cup {Absent}]
    BY <1>1 DEF Init
  <2> QED BY <1>1, <1>2, <2>1 DEF Init, TypeOK, At
<1>4. stored \in Releases \cup {Absent} /\ marker \in Releases \cup {Absent}
  BY DEF Init
<1>5. Verified /\ Digests /\ Tidy /\ RunsVerified
  BY <1>1, <1>2, <1>4 DEF Verified, Digests, Tidy, RunsVerified, At
<1> QED BY <1>3, <1>4, <1>5 DEF IInv, StoredVerified, MarkerWhole

-----------------------------------------------------------------------------
(* How a step of one call changes its record. *)

LEMMA GoToType ==
  ASSUME NEW i \in Instances, inst \in [Instances -> Instance], NEW p, GoTo(i, p),
         p \in {"idle", "look", "marker", "hash", "download", "arriving", "verify",
                "publish", "republish", "mark", "rename", "rerename",
                "cleanup", "remove", "unmark"}
  PROVE  /\ inst' \in [Instances -> Instance]
         /\ inst'[i].pc = p
         /\ inst'[i].rel = IF p \in {"cleanup", "remove"} THEN Absent ELSE inst[i].rel
         /\ inst'[i].got = inst[i].got
         /\ inst'[i].ran = inst[i].ran
         /\ inst'[i].tidy = inst[i].tidy
         /\ \A j \in Instances \ {i} : inst'[j] = inst[j]
<1>1. inst[i] \in Instance
  OBVIOUS
<1>2. inst'[i] = [inst[i] EXCEPT !.pc = p,
                    !.rel = IF p \in {"cleanup", "remove"} THEN Absent ELSE @,
                    !.gate = IF p = "idle" THEN "reuse" ELSE @]
  BY DEF GoTo
<1>3. inst'[i] \in Instance
  BY <1>1, <1>2 DEF Instance
<1> QED
  BY <1>1, <1>2, <1>3 DEF GoTo, Instance

LEMMA RefuseType ==
  ASSUME NEW i \in Instances, inst \in [Instances -> Instance], NEW p, Refuse(i, p),
         p \in {"download", "remove"}
  PROVE  /\ inst' \in [Instances -> Instance]
         /\ inst'[i].pc \in {"look", "download", "remove", "cleanup"}
         /\ inst'[i].got = Absent
         /\ inst'[i].ran = inst[i].ran
         /\ inst'[i].tidy = inst[i].tidy
         /\ \A j \in Instances \ {i} : inst'[j] = inst[j]
<1>1. inst[i] \in Instance
  OBVIOUS
<1>2. inst'[i] = [inst[i] EXCEPT
         !.pc = CASE inst[i].gate = "session" -> "look"
                  [] inst[i].gate = "reuse" -> p
                  [] OTHER -> "cleanup",
         !.gate = IF inst[i].gate = "session" THEN "reuse" ELSE @,
         !.got = Absent]
  BY DEF Refuse
<1>3. inst'[i].pc \in {"look", "download", "remove", "cleanup"} /\ inst'[i].got = Absent
      /\ inst'[i].ran = inst[i].ran /\ inst'[i].tidy = inst[i].tidy
  BY <1>1, <1>2 DEF Instance
<1>4. inst'[i] \in Instance
  BY <1>1, <1>2 DEF Instance
<1>5. inst' \in [Instances -> Instance] /\ \A j \in Instances \ {i} : inst'[j] = inst[j]
  <2>1. \E v : inst' = [inst EXCEPT ![i] = v]
    BY Zenon DEF Refuse
  <2> QED BY <1>4, <2>1
<1> QED BY <1>3, <1>5

-----------------------------------------------------------------------------
LEMMA TypeStep == TypeOK /\ [Next]_vars => TypeOK'
<1> SUFFICES ASSUME TypeOK, [Next]_vars PROVE TypeOK'
  OBVIOUS
<1> USE DEF TypeOK, StagingOf
<1>1. ASSUME NEW i \in Instances, PathHit(i), UNCHANGED tampered PROVE TypeOK'
  BY <1>1 DEF PathHit, At, Instance
<1>2. ASSUME NEW i \in Instances, Call(i), UNCHANGED tampered PROVE TypeOK'
  <2>1. inst'[i] = [inst[i] EXCEPT !.pc = "look",
           !.gate = IF inst[i].cached = "stored" THEN "session" ELSE "reuse",
           !.ran = Absent]
    BY <1>2 DEF Call
  <2>2. inst[i] \in Instance
    OBVIOUS
  <2>3. inst'[i] \in Instance
    BY <2>1, <2>2 DEF Instance
  <2> QED BY <1>2, <2>1, <2>3 DEF Call
<1>3. ASSUME NEW i \in Instances, Look(i), UNCHANGED tampered PROVE TypeOK'
  BY <1>3, GoToType, RefuseType DEF Look, At
<1>4. ASSUME NEW i \in Instances, ReadMarker(i), UNCHANGED tampered PROVE TypeOK'
  <2>1. CASE marker \in Bytes
    BY <1>4, <2>1 DEF ReadMarker, At, Instance
  <2>2. CASE marker \notin Bytes
    BY <1>4, <2>2, RefuseType DEF ReadMarker, At
  <2> QED BY <2>1, <2>2
<1>5. ASSUME NEW i \in Instances, HashBinary(i), UNCHANGED tampered PROVE TypeOK'
  <2>1. CASE stored = inst[i].got
    BY <1>5, <2>1 DEF HashBinary, At, Instance
  <2>2. CASE stored # inst[i].got
    BY <1>5, <2>2, RefuseType DEF HashBinary, At
  <2> QED BY <2>1, <2>2
<1>6. ASSUME NEW i \in Instances, NEW r \in Releases, Download(i, r), UNCHANGED tampered PROVE TypeOK'
  <2>1. inst'[i] = [inst[i] EXCEPT !.pc = "arriving", !.gate = "recheck", !.rel = r]
    BY <1>6 DEF Download
  <2>2. inst[i] \in Instance
    OBVIOUS
  <2>3. inst'[i] \in Instance
    BY <2>1, <2>2 DEF Instance
  <2> QED BY <1>6, <2>1, <2>3, ContentsAssumption DEF Download, Bytes
<1>7. ASSUME NEW i \in Instances, Arrive(i), UNCHANGED tampered PROVE TypeOK'
  <2>1. inst[i].rel \in Releases
    BY <1>7 DEF Arrive, At, Instance
  <2>2. staging' \in [Instances -> Bytes \cup {Absent}]
    BY <1>7, <2>1 DEF Arrive, Bytes
  <2> QED BY <1>7, <2>2, GoToType DEF Arrive, At
<1>8. ASSUME NEW i \in Instances, Verify(i), UNCHANGED tampered PROVE TypeOK'
  BY <1>8, GoToType DEF Verify, At
<1>9. ASSUME NEW i \in Instances, Unlink(i), UNCHANGED tampered PROVE TypeOK'
  BY <1>9, GoToType DEF Unlink, At
<1>10. ASSUME NEW i \in Instances, Publish(i), UNCHANGED tampered PROVE TypeOK'
  <2>1. CASE staging[i] # Absent
    BY <1>10, <2>1, GoToType DEF Publish, At
  <2>2. CASE staging[i] = Absent
    BY <1>10, <2>2, GoToType DEF Publish, At
  <2> QED BY <2>1, <2>2
<1>11. ASSUME NEW i \in Instances, WriteMarker(i), UNCHANGED tampered PROVE TypeOK'
  BY <1>11, GoToType DEF WriteMarker, At
<1>12. ASSUME NEW i \in Instances, RenameMarker(i), UNCHANGED tampered PROVE TypeOK'
  BY <1>12 DEF RenameMarker, At, Instance, Bytes
<1>13. ASSUME NEW i \in Instances, RemoveStaging(i), UNCHANGED tampered PROVE TypeOK'
  BY <1>13, GoToType DEF RemoveStaging, At
<1>14. ASSUME NEW i \in Instances, RemoveBinary(i), UNCHANGED tampered PROVE TypeOK'
  BY <1>14, GoToType DEF RemoveBinary, At
<1>15. ASSUME NEW i \in Instances, RemoveMarker(i), UNCHANGED tampered PROVE TypeOK'
  BY <1>15, GoToType DEF RemoveMarker, AfterRemoval, At
<1>16. ASSUME NEW i \in Instances, ReadFails(i), UNCHANGED tampered PROVE TypeOK'
  BY <1>16, RefuseType DEF ReadFails, At
<1>17. ASSUME NEW i \in Instances, DownloadFails(i), UNCHANGED tampered PROVE TypeOK'
  BY <1>17, GoToType DEF DownloadFails, At
<1>18. ASSUME NEW i \in Instances, ArriveCorrupt(i), UNCHANGED tampered PROVE TypeOK'
  BY <1>18, GoToType DEF ArriveCorrupt, At
<1>19. ASSUME NEW i \in Instances, StepFails(i), UNCHANGED tampered PROVE TypeOK'
  BY <1>19, GoToType DEF StepFails, At
<1>20. ASSUME NEW i \in Instances, RemovalFails(i), UNCHANGED tampered PROVE TypeOK'
  BY <1>20 DEF RemovalFails, AfterRemoval, At, Instance
<1>21. ASSUME NEW i \in Instances, Crash(i), UNCHANGED tampered PROVE TypeOK'
  BY <1>21 DEF Crash, Fresh, Instance
<1>22. CASE Tamper
  <2>1. tampered' \in {"files", "forged"} /\ UNCHANGED inst
    BY <1>22 DEF Tamper
  <2>2. /\ stored' \in Bytes \cup {Absent, Link}
        /\ marker' \in Bytes \cup {Absent, Malformed}
        /\ staging' \in [Instances -> Bytes \cup {Absent}]
    BY <1>22 DEF Tamper
  <2> QED BY <2>1, <2>2 DEF At
<1>23. CASE UNCHANGED vars
  BY <1>23 DEF vars
<1> QED
  BY <1>1, <1>2, <1>3, <1>4, <1>5, <1>6, <1>7, <1>8, <1>9, <1>10, <1>11, <1>12,
     <1>13, <1>14, <1>15, <1>16, <1>17, <1>18, <1>19, <1>20, <1>21, <1>22, <1>23
  DEF Next, Act, Fault, Failure, Step
-----------------------------------------------------------------------------
LEMMA InvStep == IInv /\ [Next]_vars => IInv'
<1> SUFFICES ASSUME IInv, [Next]_vars PROVE IInv'
  OBVIOUS
<1>0. TypeOK'
  BY TypeStep DEF IInv
<1> DEFINE Rest == Verified /\ Digests /\ Tidy /\ StoredVerified /\ MarkerWhole /\ RunsVerified
<1> USE DEF IInv, TypeOK, Verified, Digests, Tidy, StoredVerified, MarkerWhole,
            RunsVerified, StagingOf, Staging, At
<1>1. ASSUME NEW i \in Instances, PathHit(i), UNCHANGED tampered PROVE Rest'
  <2>1. /\ \A j \in Instances : inst'[j] = IF j = i THEN [inst[i] EXCEPT !.cached = "path"]
                                                    ELSE inst[j]
        /\ UNCHANGED <<stored, marker, staging, tampered>>
    BY <1>1 DEF PathHit
  <2>2. \A j \in Instances : /\ inst'[j].pc = inst[j].pc /\ inst'[j].got = inst[j].got
                              /\ inst'[j].rel = inst[j].rel /\ inst'[j].ran = inst[j].ran
                              /\ inst'[j].tidy = inst[j].tidy
    BY <2>1 DEF Instance
  <2> QED BY <2>1, <2>2
<1>2. ASSUME NEW i \in Instances, Call(i), UNCHANGED tampered PROVE Rest'
  <2>1. /\ inst'[i].pc = "look" /\ inst'[i].got = inst[i].got /\ inst'[i].ran = Absent
        /\ inst'[i].tidy = inst[i].tidy /\ inst[i].pc = "idle"
    BY <1>2 DEF Call, Instance
  <2>2. /\ \A j \in Instances \ {i} : inst'[j] = inst[j]
        /\ UNCHANGED <<stored, marker, staging, tampered>>
    BY <1>2 DEF Call
  <2> QED BY <1>0, <2>1, <2>2
<1>3. ASSUME NEW i \in Instances, Look(i), UNCHANGED tampered PROVE Rest'
  BY <1>3, GoToType, RefuseType DEF Look
<1>4. ASSUME NEW i \in Instances, ReadMarker(i), UNCHANGED tampered PROVE Rest'
  <2>1. CASE marker \in Bytes
    <3>1. inst'[i] = [inst[i] EXCEPT !.pc = "hash", !.got = marker]
      BY <1>4, <2>1 DEF ReadMarker
    <3>2. inst'[i].pc = "hash" /\ inst'[i].got = marker /\ inst'[i].ran = inst[i].ran
          /\ inst'[i].tidy = inst[i].tidy
      BY <3>1 DEF Instance
    <3>3. \A j \in Instances \ {i} : inst'[j] = inst[j]
      BY <1>4, <2>1 DEF ReadMarker
    <3>4. inst[i].pc = "marker" /\ (tampered # "forged" => marker \in Releases)
      BY <1>4, <2>1, ContentsAssumption DEF ReadMarker, Bytes
    <3> QED BY <1>0, <1>4, <2>1, <3>2, <3>3, <3>4 DEF ReadMarker
  <2>2. CASE marker \notin Bytes
    BY <1>4, <2>2, RefuseType DEF ReadMarker
  <2> QED BY <2>1, <2>2
<1>5. ASSUME NEW i \in Instances, HashBinary(i), UNCHANGED tampered PROVE Rest'
  <2>1. CASE stored = inst[i].got
    <3>1. inst'[i] = [inst[i] EXCEPT !.pc = "idle", !.cached = "stored",
                        !.ran = stored, !.got = Absent, !.gate = "reuse"]
      BY <1>5, <2>1 DEF HashBinary
    <3>2. inst'[i].pc = "idle" /\ inst'[i].got = Absent /\ inst'[i].ran = inst[i].got
          /\ inst'[i].tidy = inst[i].tidy
      BY <2>1, <3>1 DEF Instance
    <3>3. \A j \in Instances \ {i} : inst'[j] = inst[j]
      BY <1>5, <2>1 DEF HashBinary
    <3> QED BY <1>0, <1>5, <3>2, <3>3 DEF HashBinary
  <2>2. CASE stored # inst[i].got
    BY <1>5, <2>2, RefuseType DEF HashBinary
  <2> QED BY <2>1, <2>2
<1>6. ASSUME NEW i \in Instances, NEW r \in Releases, Download(i, r), UNCHANGED tampered PROVE Rest'
  BY <1>0, <1>6 DEF Download, Instance
<1>7. ASSUME NEW i \in Instances, Arrive(i), UNCHANGED tampered PROVE Rest'
  BY <1>7, GoToType DEF Arrive
<1>8. ASSUME NEW i \in Instances, Verify(i), UNCHANGED tampered PROVE Rest'
  BY <1>8, GoToType DEF Verify
<1>9. ASSUME NEW i \in Instances, Unlink(i), UNCHANGED tampered PROVE Rest'
  BY <1>9, GoToType DEF Unlink
<1>10. ASSUME NEW i \in Instances, Publish(i), UNCHANGED tampered PROVE Rest'
  <2>1. inst[i].rel \in Releases /\ (tampered = "no" => staging[i] = inst[i].rel)
    BY <1>10 DEF Publish, Instance
  <2>2. CASE staging[i] # Absent
    BY <1>10, <2>1, <2>2, GoToType DEF Publish
  <2>3. CASE staging[i] = Absent
    BY <1>10, <2>3, GoToType DEF Publish
  <2> QED BY <2>2, <2>3
<1>11. ASSUME NEW i \in Instances, WriteMarker(i), UNCHANGED tampered PROVE Rest'
  BY <1>11, GoToType DEF WriteMarker
<1>12. ASSUME NEW i \in Instances, RenameMarker(i), UNCHANGED tampered PROVE Rest'
  <2>1. inst[i].rel \in Releases
    BY <1>12 DEF RenameMarker, Instance
  <2> QED BY <1>0, <1>12, <2>1 DEF RenameMarker, Instance
<1>13. ASSUME NEW i \in Instances, RemoveStaging(i), UNCHANGED tampered PROVE Rest'
  BY <1>13, GoToType DEF RemoveStaging
<1>14. ASSUME NEW i \in Instances, RemoveBinary(i), UNCHANGED tampered PROVE Rest'
  BY <1>14, GoToType DEF RemoveBinary
<1>15. ASSUME NEW i \in Instances, RemoveMarker(i), UNCHANGED tampered PROVE Rest'
  BY <1>15, GoToType DEF RemoveMarker, AfterRemoval
<1>16. ASSUME NEW i \in Instances, ReadFails(i), UNCHANGED tampered PROVE Rest'
  BY <1>16, RefuseType DEF ReadFails
<1>17. ASSUME NEW i \in Instances, DownloadFails(i), UNCHANGED tampered PROVE Rest'
  BY <1>17, GoToType DEF DownloadFails
<1>18. ASSUME NEW i \in Instances, ArriveCorrupt(i), UNCHANGED tampered PROVE Rest'
  BY <1>18, GoToType DEF ArriveCorrupt
<1>19. ASSUME NEW i \in Instances, StepFails(i), UNCHANGED tampered PROVE Rest'
  BY <1>19, GoToType DEF StepFails
<1>20. ASSUME NEW i \in Instances, RemovalFails(i), UNCHANGED tampered PROVE Rest'
  <2>1. inst'[i].pc \in {"remove", "unmark", "download", "idle"} /\ inst'[i].tidy = FALSE
        /\ inst'[i].got = inst[i].got /\ inst'[i].ran = inst[i].ran
    BY <1>20 DEF RemovalFails, AfterRemoval, Instance
  <2>2. \A j \in Instances \ {i} : inst'[j] = inst[j]
    BY <1>20 DEF RemovalFails
  <2> QED BY <1>20, <2>1, <2>2 DEF RemovalFails
<1>21. ASSUME NEW i \in Instances, Crash(i), UNCHANGED tampered PROVE Rest'
  BY <1>21 DEF Crash, Fresh, Instance
<1>22. ASSUME Tamper PROVE Rest'
  <2>1. UNCHANGED inst /\ tampered' # "no"
    BY <1>22 DEF Tamper
  <2>2. tampered' # "forged" => tampered # "forged" /\ marker' # Bad
    BY <1>22 DEF Tamper
  <2>3. tampered' # "forged" => marker' \in Releases \cup {Absent, Malformed}
    BY <1>0, <2>2 DEF Bytes
  <2>4. \A i \in Instances : staging[i] = Absent => staging'[i] = Absent
    BY <1>22 DEF Tamper
  <2> QED BY <2>1, <2>2, <2>3, <2>4
<1>23. ASSUME UNCHANGED vars PROVE Rest'
  BY <1>23 DEF vars
<1>24. Rest'
  BY <1>1, <1>2, <1>3, <1>4, <1>5, <1>6, <1>7, <1>8, <1>9, <1>10, <1>11, <1>12,
     <1>13, <1>14, <1>15, <1>16, <1>17, <1>18, <1>19, <1>20, <1>21, <1>22, <1>23
  DEF Next, Act, Fault, Failure, Step
<1> QED
  BY <1>0, <1>24

THEOREM Invariance == SafeSpec => []IInv
BY InitInv, InvStep, PTL DEF SafeSpec

-----------------------------------------------------------------------------
\* Every variable keeps its type, and a call past the release lookup knows
\* its release.
THEOREM TypeCorrect == SafeSpec => []TypeOK
<1>1. IInv => TypeOK BY DEF IInv
<1> QED BY <1>1, Invariance, PTL

\* The stored path never holds unverified bytes (no tampering).
THEOREM OnlyVerifiedStored == SafeSpec => []StoredVerified
<1>1. IInv => StoredVerified BY DEF IInv
<1> QED BY <1>1, Invariance, PTL

\* The marker is never half written (no tampering).
THEOREM MarkerAtomic == SafeSpec => []MarkerWhole
<1>1. IInv => MarkerWhole BY DEF IInv
<1> QED BY <1>1, Invariance, PTL

\* Only verified bytes are handed to the editor, whatever is done to the binary,
\* the marker and the staging files, as long as nobody records the digest of
\* bytes that are no release's.
THEOREM OnlyVerifiedRun == SafeSpec => []RunsVerified
<1>1. IInv => RunsVerified BY DEF IInv
<1> QED BY <1>1, Invariance, PTL

\* Every way out of a call removes its staging file.
THEOREM NothingLeft == SafeSpec => []NoResidue
<1>1. IInv => NoResidue BY DEF IInv, Tidy, NoResidue, At, Staging, StagingOf
<1> QED BY <1>1, Invariance, PTL
=============================================================================
