------------------------------ MODULE EnvFile ------------------------------
(***************************************************************************)
(* The editor of systemd environment files (src/src/envfile.rs): what GET  *)
(* reads out of a file, which posts are valid, and the file that a valid   *)
(* post produces; and the storage directory as src/src/config.rs reads it. *)
(*                                                                         *)
(* A word is a pair of an opaque name and the number of times it has been  *)
(* escaped; a text is the sequence of words between single spaces.  A      *)
(* value of a post is a JSON value: null, a scalar (numbers and booleans   *)
(* are written like strings), an array of scalars, or something else.      *)
(***************************************************************************)
EXTENDS Naturals, Sequences, FiniteSets, SequencesExt

CONSTANTS
    InvalidNames,    \* too long, or no names of environment variables
    ForbiddenNames,  \* FORBIDDEN_KEYS and those that begin with LD_
    StorageNames,    \* names that begin with STORAGE, itself included
    Special,         \* names of words with a double quote or a backslash
    Stripped,        \* of a word with a double quote: the words left without it
    Control,         \* names of words with a control character
    WithEquals,      \* names of words with an equals sign
    Environment      \* of a word with a $: the words that the server's variables make of it

Reserved == "FILENAME"

-----------------------------------------------------------------------------
(* Texts and lines.                                                        *)

Escape(text) ==
    [i \in DOMAIN text |->
        IF text[i][1] \in Special THEN <<text[i][1], text[i][2] + 1>> ELSE text[i]]

Unescape(text) ==
    [i \in DOMAIN text |->
        IF text[i][2] > 0 THEN <<text[i][1], text[i][2] - 1>> ELSE text[i]]

\* A line defines a key, mentions one behind # or ;, or does neither.  Its style
\* says how the key is written, the name standing for the upper case.
Setting(name, style, quoted, text) ==
    [kind |-> "active", name |-> name, style |-> style, quoted |-> quoted, text |-> text]
Comment(mark, name, quoted, text) ==
    [kind |-> mark, name |-> name, style |-> "exact", quoted |-> quoted, text |-> text]
Plain(kind) ==
    [kind |-> kind, name |-> "", style |-> "exact", quoted |-> FALSE, text |-> <<>>]

Blank == Plain("blank")
Marker == Plain("marker")  \* APPEND_MARKER

\* A word is escaped only if it has something to escape.
IsWord(w) == w = <<w[1], w[2]>> /\ w[2] \in Nat /\ (w[2] > 0 => w[1] \in Special)

IsText(text) == text \in Seq(ToSet(text)) /\ \A w \in ToSet(text) : IsWord(w)

\* Taking quotes away makes no control character.
ASSUME StrippedAssumption ==
    /\ DOMAIN Stripped \subseteq Special
    /\ \A n \in DOMAIN Stripped :
          /\ IsText(Stripped[n])
          /\ n \notin Control => \A w \in ToSet(Stripped[n]) : w[1] \notin Control

\* A file: how its lines end, and whether the last one does.
File(lines, eol, ended) == [lines |-> lines, eol |-> eol, ended |-> ended]

IsFile(f) ==
    /\ DOMAIN f = {"lines", "eol", "ended"}
    /\ f.lines \in Seq(ToSet(f.lines))
    /\ \A line \in ToSet(f.lines) :
          /\ IsText(line.text)
          /\ ~line.quoted => \A w \in ToSet(line.text) : w[2] = 0

\* What is left of a file whose data were never written.
Torn == File(<<>>, "torn", FALSE)

-----------------------------------------------------------------------------
(* parse_config_content: what GET answers.                                 *)

\* A key as spelled in a post or in a line: its name and whether in capitals.
Key(name, upper) == [name |-> name, upper |-> upper]
KeyOf(line) == Key(line.name, line.style # "lower")

Json(type, parts) == [type |-> type, parts |-> parts]
Null == Json("null", <<>>)
Scalar(text) == Json("scalar", <<text>>)

\* A text without its double quotes; a word of nothing else is gone.
WithoutQuotes(text) ==
    FlattenSeq([i \in DOMAIN text |->
        IF text[i][1] \in DOMAIN Stripped THEN Stripped[text[i][1]] ELSE <<text[i]>>])

ReadText(line) == IF line.quoted THEN Unescape(line.text) ELSE WithoutQuotes(line.text)

\* Variant: what is between quotes is taken as it is.
ValueAsWritten(line) ==
    LET text == IF line.quoted THEN line.text ELSE WithoutQuotes(line.text)
    IN  IF line.quoted \/ Len(text) <= 1 THEN Scalar(text)
        ELSE Json("array", [i \in DOMAIN text |-> <<text[i]>>])

\* Without quotes around it, several words become an array.
ValueOf(line) ==
    IF line.quoted \/ Len(ReadText(line)) <= 1 THEN Scalar(ReadText(line))
    ELSE Json("array", [i \in DOMAIN ReadText(line) |-> <<ReadText(line)[i]>>])

\* A line whose value GET answers as it stands.
Literal(line) == line.quoted \/ \A i \in DOMAIN line.text : line.text[i][1] \notin DOMAIN Stripped

ActiveLines(file) == {i \in DOMAIN file.lines : file.lines[i].kind = "active"}

LastOf(S) == CHOOSE i \in S : \A j \in S : j <= i
FirstOf(S) == CHOOSE i \in S : \A j \in S : i <= j

\* Of several lines with the same key, the last one counts.
View(file) ==
    [k \in {KeyOf(file.lines[i]) : i \in ActiveLines(file)} |->
        ValueOf(file.lines[LastOf({i \in ActiveLines(file) : KeyOf(file.lines[i]) = k})])]

\* What systemd makes of it, whatever the capitals: the last definition.  A value
\* that does not begin with a quote keeps the quotes it has.
Settings(file) ==
    [n \in {file.lines[i].name : i \in ActiveLines(file)} |->
        LET line == file.lines[LastOf({i \in ActiveLines(file) : file.lines[i].name = n})]
        IN  IF line.quoted THEN Unescape(line.text) ELSE line.text]

-----------------------------------------------------------------------------
(* validate.  The updates of a post are a sequence, in the order of the    *)
(* JSON map, of a key and a value each.                                    *)

Update(key, value) == [key |-> key, value |-> value]

\* What updates there can be: JSON values made of words, each escaped or not.
WordsOf(updates) ==
    UNION {UNION {ToSet(part) : part \in ToSet(u.value.parts)} : u \in ToSet(updates)}

AreUpdates(updates) ==
    /\ updates \in Seq(ToSet(updates))
    /\ \A u \in ToSet(updates) : u.value.parts \in Seq(Seq(WordsOf(updates)))
    /\ \A w \in WordsOf(updates) : IsWord(w)

Forbidden(k) == k.name \in ForbiddenNames
GoodKey(k) == k.name \notin InvalidNames /\ ~Forbidden(k)

\* Two spellings of one name are both refused.
Collides(updates, i) ==
    \E j \in DOMAIN updates \ {i} :
        updates[j].key.name = updates[i].key.name /\ GoodKey(updates[j].key)

Coerced(value) == FlattenSeq(value.parts)

\* coerce and check_writable: scalars, and arrays of words, without control
\* characters.
Writable(value) ==
    \/ value = Null
    \/ /\ value.type \in {"scalar", "array"}
       /\ value.type = "array" => \A i \in DOMAIN value.parts : Len(value.parts[i]) = 1
       /\ \A i \in DOMAIN Coerced(value) : Coerced(value)[i][1] \notin Control

Rejected(updates) ==
    {i \in DOMAIN updates :
        \/ ~GoodKey(updates[i].key)
        \/ Collides(updates, i)
        \/ ~Writable(updates[i].value)}

\* An entry of a valid post: its name, and whether it is unset or its text.
Entries(updates) ==
    [i \in DOMAIN updates |->
        [name |-> updates[i].key.name, set |-> updates[i].value # Null,
         text |-> IF updates[i].value = Null THEN <<>> ELSE Coerced(updates[i].value)]]

-----------------------------------------------------------------------------
(* plan_edit.                                                              *)

Render(e) ==
    IF e.set THEN Setting(e.name, "exact", TRUE, Escape(e.text))
             ELSE Comment("#", e.name, FALSE, <<>>)

\* Variant: keys are compared as they are spelled.
DefinesExactly(file, e) ==
    {i \in ActiveLines(file) : KeyOf(file.lines[i]) = Key(e.name, TRUE)}

\* locate: the lines that define an entry's key, and those that mention it.
Defines(file, e) == {i \in ActiveLines(file) : file.lines[i].name = e.name}
Mentions(file, e) ==
    {i \in DOMAIN file.lines : file.lines[i].kind \in {"#", ";"} /\ file.lines[i].name = e.name}

\* place: a line that defines a key of the post is replaced, ...
\* Variant: of several definitions only the one that counts is.
ReplacesLast(file, e, i) == Defines(file, e) # {} /\ i = LastOf(Defines(file, e))

Replaces(file, e, i) == i \in Defines(file, e)

\* ... a new line follows the last mention of a key that is not defined, ...
Inserts(file, e, i) ==
    /\ e.set /\ Defines(file, e) = {}
    /\ Mentions(file, e) # {} /\ i = LastOf(Mentions(file, e))

\* ... and a key that is not there at all is appended.
Appends(file, e) == e.set /\ Defines(file, e) = {} /\ Mentions(file, e) = {}

Among(entries, P(_)) == {j \in DOMAIN entries : P(entries[j])}

\* emit_body, for one line of the file.
Emitted(file, entries, i) ==
    LET owner == Among(entries, LAMBDA e : Replaces(file, e, i))
        below == Among(entries, LAMBDA e : Inserts(file, e, i))
    IN  (IF owner = {} THEN <<file.lines[i]>> ELSE <<Render(entries[LastOf(owner)])>>)
          \o (IF below = {} THEN <<>> ELSE <<Render(entries[LastOf(below)])>>)

Body(file, entries) == FlattenSeq([i \in DOMAIN file.lines |-> Emitted(file, entries, i)])

\* append_missing: under one marker, after an empty line unless it is the first.
Appended(file, entries) ==
    LET missing == FlattenSeq([j \in DOMAIN entries |->
                       IF Appends(file, entries[j]) THEN <<Render(entries[j])>> ELSE <<>>])
        lead == IF file.lines = <<>> THEN <<>> ELSE <<Blank>>
    IN  IF missing = <<>> THEN <<>>
        ELSE (IF Marker \in ToSet(file.lines) THEN <<>> ELSE Append(lead, Marker))
               \o missing

\* Mixed line ends become those of DOS; the last line stays as it was.
Planned(file, entries) ==
    File(Body(file, entries) \o Appended(file, entries),
         IF file.eol = "mixed" THEN "crlf" ELSE file.eol,
         file.ended)

\* Variant: the first line's disposition is final.
DispositionOfFirst(file, e) ==
    IF Defines(file, e) # {}
    THEN IF file.lines[FirstOf(Defines(file, e))] = Render(e) THEN "unchanged"
         ELSE IF e.set THEN "updated" ELSE "unset"
    ELSE IF ~e.set THEN "unchanged"
    ELSE IF Mentions(file, e) # {} THEN "inserted" ELSE "appended"

\* With several definitions, any real change outranks "unchanged".
Disposition(file, e) ==
    CASE ~e.set /\ Defines(file, e) = {} -> "unchanged"
      [] \E i \in Mentions(file, e) : Inserts(file, e, i) -> "inserted"
      [] Appends(file, e) -> "appended"
      [] OTHER -> IF \A i \in Defines(file, e) : file.lines[i] = Render(e) THEN "unchanged"
                  ELSE IF e.set THEN "updated" ELSE "unset"

-----------------------------------------------------------------------------
(* parse_storage_directory: the first line that begins with STORAGE and    *)
(* has one equals sign.  Quotes around the value are removed, nothing is   *)
(* unescaped, and the server's environment is filled in.                   *)

Ordinary(text) == \A i \in DOMAIN text : text[i][1] \notin Special \cup WithEquals

StorageLines(file) ==
    {i \in ActiveLines(file) :
        /\ file.lines[i].name \in StorageNames /\ file.lines[i].style \notin {"lower", "indented"}
        /\ \A w \in DOMAIN file.lines[i].text : file.lines[i].text[w][1] \notin WithEquals}

\* expand_env_vars: $NAME and ${NAME}, of which nothing is left if there is no
\* such variable.  A reference is within one word.
Expanded(text) ==
    FlattenSeq([i \in DOMAIN text |->
        IF text[i][1] \in DOMAIN Environment THEN Environment[text[i][1]] ELSE <<text[i]>>])

\* A set of at most one text.
StorageDirectory(file) ==
    IF StorageLines(file) = {} THEN {}
    ELSE {Expanded(file.lines[FirstOf(StorageLines(file))].text)}

-----------------------------------------------------------------------------
(* Reference: an edit of a map from names to texts, and what it leaves.    *)

Overridden(settings, entries) ==
    LET touched == {entries[j].name : j \in DOMAIN entries}
        set == {entries[j].name : j \in Among(entries, LAMBDA e : e.set)}
        Entry(n) == entries[CHOOSE j \in DOMAIN entries : entries[j].name = n]
    IN  [n \in (DOMAIN settings \ touched) \cup set |->
            IF n \in set THEN Entry(n).text ELSE settings[n]]

\* Every line of a file without a key is in another one, in the same order.
Remarks(f) == {i \in DOMAIN f.lines : f.lines[i].kind # "active"}

KeepsRemarks(f, g) ==
    \E at \in [Remarks(f) -> DOMAIN g.lines] :
        /\ \A i \in Remarks(f) : g.lines[at[i]] = f.lines[i]
        /\ \A i, j \in Remarks(f) : i < j => at[i] < at[j]

\* The post that sends back what GET answered: keys of a map, in any order.
SentBack(file) ==
    SetToSeq({Update(k, View(file)[k]) : k \in {k \in DOMAIN View(file) : k.name # Reserved}})
=============================================================================
