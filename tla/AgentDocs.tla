------------------------------ MODULE AgentDocs ------------------------------
(***************************************************************************)
(* The documents an agent host reads: CLAUDE.md, AGENTS.md, SKILL.md, and  *)
(* what install, refresh and uninstall do to them                          *)
(* (cli/src/commands/refresh.ts, uninstall.ts, cli/src/lib/skill-writer.ts)*)
(*                                                                         *)
(* A document is a sequence of pieces: text of its owner, text that the    *)
(* tool generated, an @-import line, and permission blocks, whose markers  *)
(* and body are pieces of their own.  Missing is no document.  White space *)
(* is left out.                                                            *)
(***************************************************************************)
EXTENDS Naturals, Sequences, FiniteSets

\* "$&": permissions in which a platform's name holds the pattern that String.replace
\* expands to what it matched.
Body == {"plain", "$&"}
Piece == {"user", "head", "ours", "import", "start", "end"} \cup Body
Missing == <<"missing">>

Positions(doc, piece) == {i \in DOMAIN doc : doc[i] = piece}
Has(doc, piece) == Positions(doc, piece) # {}
Least(S) == CHOOSE i \in S : \A j \in S : i <= j
Block(b) == <<"start", b, "end">>

\* The regular expression START[\s\S]*?END: the first START, up to the next END.
Ends(doc) == {j \in Positions(doc, "end") : \E i \in Positions(doc, "start") : i < j}
Whole(doc) == Ends(doc) # {}

\* doc with its pieces from s to e replaced.
Splice(doc, s, e, new) == SubSeq(doc, 1, s - 1) \o new \o SubSeq(doc, e + 1, Len(doc))
ReplaceMatch(doc, new) == Splice(doc, Least(Positions(doc, "start")), Least(Ends(doc)), new)
Matched(doc) == SubSeq(doc, Least(Positions(doc, "start")), Least(Ends(doc)))

\* String.replace with the block as the replacement string.
replaceBlock(doc, b) ==
    IF ~Whole(doc) THEN doc
    ELSE ReplaceMatch(doc, IF b = "$&" THEN <<"start">> \o Matched(doc) \o <<"end">> ELSE Block(b))

\* Its first @-import line is removed.
dropImport(doc) ==
    IF Has(doc, "import")
    THEN LET i == Least(Positions(doc, "import")) IN Splice(doc, i, i, <<>>)
    ELSE doc

\* A block without its end marker counts as no block.
embedUnlessWhole(doc, b) ==
    IF doc = Missing THEN <<"head">> \o Block(b)
    ELSE IF Whole(doc) THEN replaceBlock(doc, b)
    ELSE dropImport(doc) \o Block(b)

embedInClaudeMd(doc, b) ==
    IF doc = Missing THEN <<"head">> \o Block(b)
    ELSE IF Has(doc, "start") THEN replaceBlock(doc, b)
    ELSE dropImport(doc) \o Block(b)

\* AGENTS.md and SKILL.md, only where there is one.
embedPermissionsBlock(doc, b) ==
    IF doc = Missing THEN doc
    ELSE IF Has(doc, "start") THEN replaceBlock(doc, b)
    ELSE doc \o Block(b)

stripPermissionsBlock(doc) == IF Whole(doc) THEN ReplaceMatch(doc, <<>>) ELSE doc

stripClaudeMd(doc) == dropImport(stripPermissionsBlock(doc))

\* The first line is ours.
isAgentValetGeneratedDoc(doc) == doc # Missing /\ doc # <<>> /\ Head(doc) = "ours"

\* Written only where there is no such file.
createIfAbsent(doc) == IF doc = Missing THEN <<"ours">> ELSE doc
=============================================================================
