-------------------------- MODULE ShaderPreprocess --------------------------
(***************************************************************************)
(* ShaderPreprocess: ReplaceIncludes, which expands includes by recursion  *)
(* without remembering what it has expanded, and PrepareGLSL, which        *)
(* ShaderBuilder::AddModule applies to every GLSL source.                  *)
(*                                                                         *)
(* A text is a sequence of lines, a line is what the code looks for in it. *)
(* The recursion of LoadWithInclude is a stack of the streams being read,  *)
(* the source at the bottom.  Each of the others is an open file, and the  *)
(* operating system opens only so many: what ends the recursion on a cycle.*)
(***************************************************************************)
EXTENDS Integers, Sequences

CONSTANTS
    Disks,          \* what may be on the disk: functions from paths to texts
    Texts,          \* the sources that callers have
    Paths,          \* what lines have between quotes; "" when there is nothing
    MaxOpen         \* external: how many files the process can have open

\* "include" is a directive at the start of its line, "indented" one after blanks;
\* "comment" mentions "#include" after other text, and "remark" "#version".
Kinds == {"version", "extension", "text", "include", "indented", "comment", "remark"}

\* A path is what stands between the first and the last quote of the line; what a
\* malformed line yields is a path that is not on the disk.
Lines == [kind : Kinds, path : Paths]

ASSUME PathsAssumption == "" \in Paths
ASSUME TextsAssumption == /\ Texts \subseteq Seq(Lines)
                          /\ \A d \in Disks : \A p \in DOMAIN d : d[p] \in Seq(Lines)
ASSUME MaxOpenAssumption == MaxOpen \in Nat

VARIABLES
    disk,           \* external: the files; nothing writes them meanwhile
    source,         \* the argument of the call
    stack,          \* the activations of LoadWithInclude: lines, the next one, ret
    result          \* what the last call returned, by its name

vars == <<disk, source, stack, result>>

-----------------------------------------------------------------------------
MentionsInclude(line) == line.kind \in {"include", "indented", "comment"}
MentionsVersion(line) == line.kind \in {"version", "remark"}

Activation(lines) == [lines |-> lines, at |-> 1, ret |-> <<>>]
Top == stack[Len(stack)]
Below == SubSeq(stack, 1, Len(stack) - 1)
NextLine == Top.lines[Top.at]
HasLine == stack # <<>> /\ Top.at <= Len(Top.lines)
Advanced == [Top EXCEPT !.at = @ + 1]

\* Mutant: blanks before the directive are skipped.
GetPathFromIndented(line) == line.kind \in {"include", "indented"}

\* GetPathFromLine finds a path in lines that begin with "#include" only.
GetPathFromLine(line) == line.kind = "include"

\* External: fin.is_open(), with a file open for each activation but the first.
Opens(path) == path \in DOMAIN disk /\ Len(stack) - 1 < MaxOpen

-----------------------------------------------------------------------------
Init ==
    /\ disk \in Disks
    /\ source = <<>> /\ stack = <<>>
    /\ result = [of |-> "nothing", text |-> <<>>]

\* Without a mention of an include the source is returned as it is.
ReplaceIncludes(text) ==
    /\ stack = <<>>
    /\ source' = text
    /\ IF \E n \in DOMAIN text : MentionsInclude(text[n])
       THEN stack' = <<Activation(text)>> /\ result' = [of |-> "nothing", text |-> <<>>]
       ELSE UNCHANGED stack /\ result' = [of |-> "ReplaceIncludes", text |-> text]
    /\ UNCHANGED disk

ReadLine ==
    /\ HasLine /\ ~GetPathFromLine(NextLine)
    /\ stack' = Append(Below, [Advanced EXCEPT !.ret = Append(@, NextLine)])
    /\ UNCHANGED <<disk, source, result>>

OpenInclude ==
    /\ HasLine /\ GetPathFromLine(NextLine) /\ Opens(NextLine.path)
    /\ stack' = Below \o <<Advanced, Activation(disk[NextLine.path])>>
    /\ UNCHANGED <<disk, source, result>>

\* Mutant: an include that cannot be opened is tried again.
SkipIncludeRetries ==
    /\ HasLine /\ GetPathFromLine(NextLine) /\ ~Opens(NextLine.path)
    /\ stack' = Append(Below, Top)
    /\ UNCHANGED <<disk, source, result>>

\* An include that cannot be opened leaves nothing, without a word.
SkipInclude ==
    /\ HasLine /\ GetPathFromLine(NextLine) /\ ~Opens(NextLine.path)
    /\ stack' = Append(Below, Advanced)
    /\ UNCHANGED <<disk, source, result>>

\* Mutant: the expansion takes the place of what was read before it.
Joined(before, expansion) == expansion

\* ret += LoadWithInclude(fin)
Appended(before, expansion) == before \o expansion

Return ==
    /\ stack # <<>> /\ ~HasLine
    /\ IF Len(stack) = 1
       THEN stack' = <<>> /\ result' = [of |-> "ReplaceIncludes", text |-> Top.ret]
       ELSE /\ stack' = [Below EXCEPT ![Len(Below)].ret = Appended(@, Top.ret)]
            /\ UNCHANGED result
    /\ UNCHANGED <<disk, source>>

Version   == [kind |-> "version", path |-> ""]
Extension == [kind |-> "extension", path |-> ""]

\* Mutant: the extension is put where the text begins.
WithExtensionFirst(text) ==
    IF \E n \in DOMAIN text : MentionsInclude(text[n]) THEN <<Extension>> \o text ELSE text

\* ret.find("#include"), when there is one.
FirstMention(text) == CHOOSE n \in DOMAIN text :
    MentionsInclude(text[n]) /\ \A m \in 1..(n - 1) : ~MentionsInclude(text[m])

\* The extension is put before the first "#include" of the text.  In a line that
\* begins otherwise this breaks the line: what was before it stays before the
\* extension, which in a comment is lost, and the directive begins a line.
WithExtension(text) ==
    LET first == FirstMention(text)
        broken == [text[first] EXCEPT !.kind = "include"]
    IN  IF \A n \in DOMAIN text : ~MentionsInclude(text[n]) THEN text
        ELSE IF text[first].kind = "comment"
        THEN SubSeq(text, 1, first - 1)
             \o <<[kind |-> "text", path |-> ""], broken>>
             \o SubSeq(text, first + 1, Len(text))
        ELSE SubSeq(text, 1, first - 1) \o <<Extension, broken>>
             \o SubSeq(text, first + 1, Len(text))

\* "#version" is looked for anywhere in the text, in comments too.
WithVersion(text) ==
    IF \E n \in DOMAIN text : MentionsVersion(text[n]) THEN text ELSE <<Version>> \o text

PrepareGLSL(text) ==
    /\ stack = <<>>
    /\ source' = text
    /\ result' = [of |-> "PrepareGLSL", text |-> WithExtension(WithVersion(text))]
    /\ UNCHANGED <<disk, stack>>

Step == ReadLine \/ OpenInclude \/ SkipInclude \/ Return
Next == Step \/ \E t \in Texts : ReplaceIncludes(t) \/ PrepareGLSL(t)

\* A call that was made runs on; nobody has to make one.
Spec == Init /\ [][Next]_vars /\ WF_vars(Step)

-----------------------------------------------------------------------------
Activations == [lines : Seq(Lines), at : Nat, ret : Seq(Lines)]

TypesOK ==
    /\ disk \in Disks
    /\ source \in Seq(Lines)
    /\ stack \in Seq(Activations) /\ Len(stack) <= MaxOpen + 1
    /\ \A n \in DOMAIN stack : stack[n].at \in 1..(Len(stack[n].lines) + 1)
    /\ result \in [of : {"nothing", "ReplaceIncludes", "PrepareGLSL"}, text : Seq(Lines)]

\* Type invariant; above the source, an activation reads the file that the line read
\* last under it includes by a directive, at its start.
TypeOK ==
    /\ TypesOK
    /\ stack # <<>> => stack[1].lines = source
    /\ \A n \in 1..(Len(stack) - 1) :
        /\ stack[n].at >= 2
        /\ LET last == stack[n].lines[stack[n].at - 1]
           IN  /\ last.kind = "include" /\ last.path \in DOMAIN disk
               /\ stack[n + 1].lines = disk[last.path]

-----------------------------------------------------------------------------
\* What the first lines of a text expand to, by how many they are, when every
\* include is replaced by what a function gives for its path; and the whole text.
Expansions(text, File) ==
    LET upTo[n \in 0..Len(text)] ==
            IF n = 0 THEN <<>>
            ELSE upTo[n - 1] \o
                 (IF text[n].kind # "include" THEN <<text[n]>>
                  ELSE IF text[n].path \in DOMAIN File THEN File[text[n].path] ELSE <<>>)
    IN  upTo
Expand(text, File) == Expansions(text, File)[Len(text)]

\* What a file of a disk expands to when so many files, itself included, can be
\* opened.
Expanded(files) ==
    LET file[open \in 0..(MaxOpen + 1)] ==
            [p \in DOMAIN files |->
                IF open = 0 THEN <<>> ELSE Expand(files[p], file[open - 1])]
    IN  file
FileText == Expanded(disk)

\* The files that the includes of a text lead to, within a number of steps.
Included(text, files) ==
    {text[n].path : n \in {m \in DOMAIN text : text[m].kind = "include"}} \cap DOMAIN files
ReachedFrom(text, files) ==
    LET reached[steps \in 0..MaxOpen] ==
            IF steps = 0 THEN Included(text, files)
            ELSE UNION {Included(files[p], files) : p \in reached[steps - 1]}
    IN  reached
Reached == ReachedFrom(source, disk)

\* ShaderPreprocess.cpp:81-125: every line of the source and of what it includes,
\* however often and through whatever files, is in the result, in the order of
\* reading and as often as there are ways to it; and as long as no chain of
\* includes is longer than files can be open, more files would not change it.
ExpansionIsFlattening ==
    result.of = "ReplaceIncludes" =>
        /\ result.text = Expand(source, FileText[MaxOpen])
        /\ Reached[MaxOpen] = {} => result.text = Expand(source, FileText[MaxOpen + 1])

\* The directives of a text; the line at n is the first of them, and a version.
Directives(text) == {n \in DOMAIN text : text[n].kind \notin {"text", "comment", "remark"}}
BeginsWithVersion(text) ==
    \E n \in Directives(text) : text[n].kind = "version" /\ \A m \in Directives(text) : n <= m

\* ShaderPreprocess.cpp:10-28: when no comment is the first to speak of includes, a
\* prepared text has an extension directive before every include, and a version
\* before every other directive if the source has that, or does not speak of one: a
\* source that only mentions "#version", in a comment, is given none.
PreparedInOrder ==
    (/\ result.of = "PrepareGLSL"
     /\ (\E n \in DOMAIN source : MentionsInclude(source[n])) =>
            source[FirstMention(source)].kind # "comment")
    => /\ (BeginsWithVersion(source) \/ \A n \in DOMAIN source : ~MentionsVersion(source[n]))
            => BeginsWithVersion(result.text)
       /\ \A n \in DOMAIN result.text : result.text[n].kind \in {"include", "indented"} =>
            \E m \in 1..(n - 1) : result.text[m].kind = "extension"

\* ShaderPreprocess.cpp:103-125: every expansion comes to an end, on cycles too:
\* when no more files can be opened, the includes that are left are skipped.
CallsReturn == stack # <<>> ~> stack = <<>>
=============================================================================
