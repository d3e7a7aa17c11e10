----------------------------- MODULE MCControl -----------------------------
(***************************************************************************)
(* What the server does to processes and services, for TLC.  A server      *)
(* started without --system records with a child process (Recorder); one   *)
(* started with it has the system's services do so, and saves their        *)
(* configuration (ServiceConfig).  The two share no state, so each server  *)
(* is followed in one of them: build_router in src/src/main.rs.            *)
(***************************************************************************)
EXTENDS Recorder, ServiceConfig

VARIABLE system  \* Args::system

allVars == <<vars, configVars, system>>

MCInvalidNames == {"export X"}
MCForbiddenNames == {"PATH"}
MCStorageNames == {"STORAGE", "STORAGE_MAX"}
MCSpecial == {"q", "qq"}
MCStripped == [q |-> <<<<"a", 0>>>>, qq |-> <<>>]
MCControlChars == {"c"}
MCWithEquals == {"e"}
MCEnvironment == [home |-> <<<<"b", 0>>>>, unset |-> <<>>]

textA == <<<<"a", 0>>>>
textB == <<<<"b", 0>>>>
textAB == textA \o textB
quotes(n) == <<<<"q", n>>>>

\* The editor alone: every file of two lines, and some longer ones.
LinesToEdit ==
    {Setting("PORT", "exact", TRUE, textA), Setting("PORT", "lower", FALSE, textAB),
     Setting("PORT", "indented", TRUE, quotes(2)),
     Setting("PORT", "exact", FALSE, textB \o quotes(0) \o <<<<"qq", 0>>>>),
     Comment("#", "PORT", TRUE, textB),
     Comment(";", "PORT", FALSE, textAB), Setting("STORAGE", "exact", TRUE, textA),
     Setting("STORAGE_MAX", "exact", FALSE, textB), Setting("export X", "exact", TRUE, textA),
     Setting("PATH", "exact", FALSE, textA), Plain("prose"), Marker}

FilesToEdit ==
    {File(lines, eol, ended) :
        lines \in UNION {[1..n -> LinesToEdit] : n \in 1..2}, eol \in {"lf"}, ended \in {TRUE}}
    \cup {File(<<>>, "lf", TRUE),
          File(<<Setting("PORT", "exact", TRUE, <<<<"c", 0>>>>)>>, "lf", TRUE)}
    \cup {File(<<Setting("PORT", "exact", TRUE, textA)>> \o lines, eol, ended) :
            lines \in [1..2 -> LinesToEdit],
            eol \in {"mixed"}, ended \in {FALSE}}

U(name, upper, value) == Update(Key(name, upper), value)
Posted(updates) == Post("svc", "svc", "object", updates)

PostsToEdit ==
    {Posted(<<U("PORT", upper, v)>>) :
        upper \in BOOLEAN, v \in {Null, Scalar(textA), Scalar(quotes(1)), Json("array", <<textA, textB>>)}}
    \cup {Posted(<<U(Reserved, FALSE, Scalar(textA)), U("STORAGE", TRUE, Scalar(textAB))>>),
          Posted(<<U("PORT", TRUE, Null), U("STORAGE", TRUE, Null)>>),
          Posted(<<U("STORAGE", TRUE, Scalar(<<<<"home", 0>>, <<"a", 0>>, <<"unset", 0>>>>))>>),
          Posted(<<U("DEBUG", TRUE, Scalar(<<>>)), U("PORT", TRUE, Scalar(textB))>>),
          Posted(<<U("PORT", TRUE, Scalar(textA)), U("PORT", FALSE, Scalar(textB))>>),
          Posted(<<U("DEBUG", TRUE, Json("array", <<textA, textAB>>))>>),
          Posted(<<U("DEBUG", TRUE, Scalar(<<<<"c", 0>>>>))>>),
          Posted(<<U("DEBUG", TRUE, Json("object", <<>>))>>),
          Posted(<<U("PATH", TRUE, Scalar(textA)), U("PORT", TRUE, Scalar(textA))>>),
          Post("svc", "edgefirst-svc", "object", <<U("PORT", TRUE, Scalar(textA))>>),
          Post("svc", "svc", "malformed", <<>>)}

\* Two requests for one service, under either of its names.
FilesToShare ==
    {File(<<Setting("PORT", "exact", TRUE, textA), Comment("#", "DEBUG", TRUE, textA)>>, "lf", TRUE)}

PostsToShare ==
    {Post("svc", "svc", "object", <<U("PORT", TRUE, Scalar(textB))>>),
     Post("edgefirst-svc", "edgefirst-svc", "object",
          <<U("DEBUG", TRUE, Scalar(textB)), U("PORT", TRUE, Null)>>)}

MCWorlds ==
    [editor  |-> WorldOf(FilesToEdit, PostsToEdit, {"e1"}, 1, "svc", ""),
     shared  |-> WorldOf(FilesToShare, PostsToShare, {"e1", "e2"}, 2, "svc", "edgefirst-svc"),
     series  |-> WorldOf(FilesToShare, PostsToShare, {"e1", "e2"}, 3, "svc", ""),
     missing |-> WorldOf({NoFile}, PostsToShare, {"e1"}, 1, "", "svc")]

MCInit ==
    /\ system \in BOOLEAN
    /\ Init /\ ConfigInit
    /\ system => table = [p \in Pids |-> "free"]
    /\ ~system => world = "missing" /\ unit = NoUnit

\* Nobody posts anything any more.
Quiet == system /\ (\A c \in Editors : call[c] = IdleEditor) /\ UNCHANGED allVars

MCNext ==
    Quiet \/
    /\ UNCHANGED system
    /\ \/ ~system /\ Next /\ UNCHANGED configVars
       \/ system /\ ConfigNext /\ UNCHANGED vars

MCSpec == MCInit /\ [][MCNext]_allVars /\ Fairness

TypesOK == TypeOK /\ ConfigTypeOK
=============================================================================
