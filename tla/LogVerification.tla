--------------------------- MODULE LogVerification ---------------------------
(***************************************************************************)
(* verify_log_file (app/core/hash_chain.py) running beside the writers of  *)
(* HashChainedLog: GET /api/admin/audit-log/verify or .../guardrail-events *)
(* /verify on a replica that is not writing, or the offline CLI.  It reads *)
(* the log, then the checkpoint, and takes no lock.                        *)
(***************************************************************************)
EXTENDS HashChainedLog

VARIABLES
    vpc,        \* the verifier's next file operation
    vlines,     \* the entries it has read
    verdict,    \* its last answer
    overlapped  \* was there a trim unfinished at some time since it began?

verifierVars == <<vpc, vlines, verdict, overlapped>>
allVars == <<vars, verifierVars>>

VTypeOK ==
    /\ vpc \in {"idle", "checkpoint"}
    /\ vlines \in Seq(Entry)
    /\ verdict \in {"none", "valid", "broken", "error"}
    /\ overlapped \in BOOLEAN

VInit ==
    /\ Init
    /\ vpc = "idle"
    /\ vlines = <<>>
    /\ verdict = "none"
    /\ overlapped = FALSE

\* raw_entries = [json.loads(line) for line in log_path.read_text()...]: a
\* last line that does not parse makes the verification an error.
VerifyReadLog ==
    /\ vpc = "idle"
    /\ IF Readable
       THEN vpc' = "checkpoint" /\ vlines' = log /\ verdict' = "none"
       ELSE verdict' = "error" /\ UNCHANGED <<vpc, vlines>>
    /\ overlapped' = (Trimming \/ interrupted)
    /\ UNCHANGED vars

\* checkpoint = read_checkpoint(log_path); return verify_chain(...)
VerifyReadCheckpoint ==
    /\ vpc = "checkpoint"
    /\ verdict' = IF Verifies(vlines, checkpoint.hash) THEN "valid" ELSE "broken"
    /\ vpc' = "idle"
    /\ vlines' = <<>>
    /\ UNCHANGED <<vars, overlapped>>

LogStep ==
    /\ Next
    /\ overlapped' = (overlapped \/ (vpc = "checkpoint" /\ Trimming'))
    /\ UNCHANGED <<vpc, vlines, verdict>>

VNext == VerifyReadLog \/ VerifyReadCheckpoint \/ LogStep

VSpec == VInit /\ [][VNext]_allVars

-----------------------------------------------------------------------------
\* Nobody tampers with the file here, so "broken" is always a false alarm.  It
\* is raised only when a trim was unfinished while the verifier was reading, or
\* had been left unfinished by a crash: appends alone never cause one.
AlarmMeansTrim == verdict = "broken" => overlapped

=============================================================================
