---------------------------- MODULE Certificates ----------------------------
(***************************************************************************)
(* The certificate of the HTTPS server (src/src/ssl.rs and main): what a   *)
(* start loads, generates and saves, over many starts with the same        *)
(* --cert-dir.  A saved pair is two files, written one after the other and *)
(* in place; a start may fail or be killed between any two of the steps,   *)
(* and what was not yet written back is lost with the power.               *)
(*                                                                         *)
(* A pair stands for a certificate and its key: the two halves are read    *)
(* without a look at them, and rustls refuses a half that does not parse   *)
(* and a certificate with another key.                                     *)
(***************************************************************************)
EXTENDS Naturals, Sequences

CONSTANT MaxPairs  \* bound: pairs generated

ASSUME CertificatesAssumption == MaxPairs \in Nat \ {0}

VARIABLES
    dir,      \* webui.crt and webui.key, as the running system sees them
    flushed,     \* the two as they were last written back
    start,    \* control of the start
    mode,     \* the arguments of this start
    memory,   \* the CertificateResult
    pairs,    \* pairs generated so far
    kept,     \* the pair that was last saved as a whole
    halfway   \* a save began after it, and has not come to the end

certVars == <<dir, flushed, start, mode, memory, pairs, kept, halfway>>

Halves == {"crt", "key"}
Absent == [state |-> "absent", pair |-> 0]
Torn == [state |-> "torn", pair |-> 0]
Whole(n) == [state |-> "whole", pair |-> n]
Contents == {Absent, Torn} \cup {Whole(n) : n \in 1..MaxPairs}

\* save_certificate_to_dir: each file is created (or truncated), written and
\* given its mode.
SaveSteps == <<<<"crt", "create">>, <<"crt", "write">>, <<"crt", "mode">>,
               <<"key", "create">>, <<"key", "write">>, <<"key", "mode">>>>

StartPcs == {"stopped", "load", "generate", "save", "build", "serving", "refused"}
Sources == {"none", "UserProvided", "CertDir", "Generated", "Embedded"}
NoResult == [crt |-> Absent, key |-> Absent, source |-> "none"]

CertTypeOK ==
    /\ dir \in [Halves -> Contents]
    /\ flushed \in [Halves -> Contents]
    /\ start \in [pc : StartPcs, step : 1..Len(SaveSteps)]
    /\ mode \in {"default", "generate-cert", "cert and key"}
    /\ memory \in [crt : Contents, key : Contents, source : Sources]
    /\ pairs \in 0..MaxPairs /\ kept \in 0..pairs
    /\ halfway \in BOOLEAN

At(pc) == [pc |-> pc, step |-> 1]

CertInit ==
    /\ dir = [h \in Halves |-> Absent] /\ flushed = dir
    /\ start = At("stopped") /\ mode = "default" /\ memory = NoResult
    /\ pairs = 0 /\ kept = 0 /\ halfway = FALSE

-----------------------------------------------------------------------------
(* load_or_generate_certificate.                                           *)

\* The user's own files are read or the start fails; whether they then fit is
\* the user's affair.
StartsWith(m) ==
    /\ start.pc = "stopped"
    /\ mode' = m
    /\ memory' = [NoResult EXCEPT !.source = IF m = "cert and key" THEN "UserProvided" ELSE "none"]
    /\ start' \in IF m = "cert and key" THEN {At("serving"), At("refused")} ELSE {At("load")}
    /\ UNCHANGED <<dir, flushed, pairs, kept, halfway>>

Exist == \A h \in Halves : dir[h] # Absent

\* The files are read as bytes.  One that cannot be read leads on to generation.
LoadCertDir ==
    /\ start.pc = "load"
    /\ \/ /\ mode = "default" /\ Exist
          /\ memory' = [crt |-> dir["crt"], key |-> dir["key"], source |-> "CertDir"]
          /\ start' = At("build")
       \/ start' = At("generate") /\ UNCHANGED memory
    /\ UNCHANGED <<dir, flushed, mode, pairs, kept, halfway>>

\* generate_self_signed_certificate, which may fail.
NewPair == Whole(pairs + 1)

\* A new pair; if it cannot be made, one for localhost, or the start fails.
Generate ==
    /\ start.pc = "generate" /\ pairs < MaxPairs
    /\ \/ /\ pairs' = pairs + 1
          /\ \E next \in {<<"Generated", At("save")>>, <<"Embedded", At("build")>>} :
                /\ memory' = [crt |-> NewPair, key |-> NewPair, source |-> next[1]]
                /\ start' = next[2]
       \/ start' = At("refused") /\ UNCHANGED <<memory, pairs>>
    /\ UNCHANGED <<dir, flushed, mode, kept, halfway>>

-----------------------------------------------------------------------------
(* save_certificate_to_dir, whose errors are only logged.                  *)

Step == SaveSteps[start.step]

Proceeds == start' = IF start.step = Len(SaveSteps) THEN At("build")
                     ELSE [start EXCEPT !.step = @ + 1]

\* Variant: a key that is there is kept.
OverwritesUnlessKey(h, content) ==
    dir' = IF h = "key" /\ dir[h].state = "whole" THEN dir ELSE [dir EXCEPT ![h] = content]

\* File::create truncates what is there.
Overwrites(h, content) == dir' = [dir EXCEPT ![h] = content]

SaveStep ==
    LET h == Step[1]
    IN  /\ start.pc = "save"
        /\ CASE Step[2] = "create" -> Overwrites(h, Torn)
             [] Step[2] = "write" -> Overwrites(h, memory[h])
             [] Step[2] = "mode" -> UNCHANGED dir
        /\ halfway' = IF Step = <<"crt", "create">> THEN TRUE
                      ELSE IF Step = <<"key", "write">> THEN FALSE ELSE halfway
        /\ kept' = IF Step = <<"key", "write">> THEN memory.crt.pair ELSE kept
        /\ Proceeds
        /\ UNCHANGED <<flushed, mode, memory, pairs>>

\* The first step that fails ends it, and the pair stays in memory.
SaveFails ==
    /\ start.pc = "save"
    /\ start' = At("build")
    /\ UNCHANGED <<dir, flushed, mode, memory, pairs, kept, halfway>>

-----------------------------------------------------------------------------
(* main: the TLS configuration, the end of the server, and its machine.    *)

Fit == /\ memory.crt.state = "whole" /\ memory.key.state = "whole"
       /\ memory.crt.pair = memory.key.pair

BuildTls ==
    /\ start.pc = "build"
    /\ start' = At(IF Fit THEN "serving" ELSE "refused")
    /\ UNCHANGED <<dir, flushed, mode, memory, pairs, kept, halfway>>

\* Stopped, refused or killed, at any step.
Exits ==
    /\ start.pc # "stopped"
    /\ start' = At("stopped") /\ memory' = NoResult
    /\ UNCHANGED <<dir, flushed, mode, pairs, kept, halfway>>

WrittenBack ==
    /\ flushed # dir /\ flushed' = dir
    /\ UNCHANGED <<dir, start, mode, memory, pairs, kept, halfway>>

\* What was not written back may be new, old or neither.
PowerLoss ==
    /\ start' = At("stopped") /\ memory' = NoResult
    /\ dir' \in [Halves -> Contents]
    /\ \A h \in Halves :
          dir'[h] \in {dir[h], flushed[h]} \cup (IF dir[h] = flushed[h] THEN {} ELSE {Torn})
    /\ flushed' = dir'
    /\ halfway' = (halfway \/ dir' # dir)
    /\ UNCHANGED <<mode, pairs, kept>>

CertNext ==
    \/ \E m \in {"default", "generate-cert", "cert and key"} : StartsWith(m)
    \/ LoadCertDir \/ Generate \/ SaveStep \/ SaveFails \/ BuildTls
    \/ Exits \/ WrittenBack \/ PowerLoss

CertSpec == CertInit /\ [][CertNext]_certVars

-----------------------------------------------------------------------------
(* Properties.                                                             *)

\* As long as no save was cut off between the certificate's file and the end of
\* the key's, whatever else failed and whenever the server was killed, a start
\* from the directory serves, and with the pair that was last saved there: the
\* one that the users' browsers were told to accept.
SavedPairServes ==
    ~halfway /\ memory.source = "CertDir"
        => start.pc # "refused" /\ memory.crt = Whole(kept) /\ memory.key = Whole(kept)

\* README: the directory's certificate, then a generated one, then the embedded
\* one; load_or_generate_certificate: "Continue to generation/fallback".  The
\* server's own files never keep it from starting.
OwnFilesServe == start.pc = "refused" => memory.source # "CertDir"
=============================================================================
