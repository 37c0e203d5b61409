---------------------------- MODULE ConfigFile -----------------------------
(***************************************************************************)
(* Config::load_from_file of src/src/core/config.hpp, which reads          *)
(* config.yaml a line at a time with the sections it is inside, one line   *)
(* of lookahead and the key of the last list, and create_strategies of     *)
(* src/src/main.cpp, which turns the list of active strategies into        *)
(* objects.                                                                *)
(*                                                                         *)
(* A file is a sequence of lines: blank lines, comments and quotes are     *)
(* gone, and an indent is a number.  A line is                             *)
(*    "empty"    key:                a section, or the head of a list      *)
(*    "scalar"   key: value                                                *)
(*    "inline"   key: [item]                                               *)
(*    "item"     - item                                                    *)
(* with `text` the key, or the item, and `value` the value or the item.    *)
(***************************************************************************)
EXTENDS Naturals, Sequences, FiniteSetsExt, Functions

CONSTANTS
  Files,           \* the files load_from_file may be given
  ListPaths,       \* trading.symbols and strategies.active
  ActivePath,      \* the second of them
  Defaults,        \* settings given to paths the file leaves out
  DefaultLists,    \* the same for the lists
  Known            \* strategies create_strategies can make

PathsAssumption == ActivePath \in ListPaths /\ ListPaths = DOMAIN DefaultLists

LineType ==
  [indent : Nat, kind : {"empty", "scalar", "inline", "item"}, text : STRING, value : STRING]
FilesAssumption == Files \subseteq Seq(LineType)

VARIABLES
  file, i,              \* the lines, and how many have been read
  section_at_indent,
  pending_list_key,     \* with pending_list_indent: <<>> when that is -1
  settings, lists,      \* lists: trading_symbols and active_strategies
  strategies,           \* g_strategies
  phase                 \* "parse", "defaults", "create", "done"

parserVars == <<section_at_indent, pending_list_key, settings, lists>>
vars == <<file, i, parserVars, strategies, phase>>

TypeOK ==
  /\ i \in 0 .. Len(file)
  /\ DOMAIN section_at_indent \subseteq Nat
  /\ Len(pending_list_key) <= 1
  /\ DOMAIN lists = ListPaths
  /\ phase \in {"parse", "defaults", "create", "done"}

Init ==
  /\ file \in Files /\ i = 0
  /\ section_at_indent = <<>> /\ pending_list_key = <<>>
  /\ settings = <<>> /\ lists = [p \in ListPaths |-> <<>>]
  /\ strategies = <<>> /\ phase = "parse"

Line == file[i + 1]

\* Faulty variant: sections are never left.
OpenSectionsAll(ind) == section_at_indent

\* The entries at the same or a deeper indent are removed.
OpenSections(ind) == Restrict(section_at_indent, {n \in DOMAIN section_at_indent : n < ind})

\* entries[key] = value
Entered(entries, key, value) ==
  [k \in DOMAIN entries \cup {key} |-> IF k = key THEN value ELSE entries[k]]

\* The numbers in S, sorted.
InOrder(S) ==
  CHOOSE q \in [1 .. Cardinality(S) -> S] : \A m, n \in DOMAIN q : m < n => q[m] < q[n]

\* current_prefix(ind), then the key.
FullKey(open, key) ==
  LET indents == InOrder(DOMAIN open)
  IN Append([n \in DOMAIN indents |-> open[indents[n]]], key)

----------------------------------------------------------------------------
Read(kind) ==
  /\ phase = "parse" /\ i < Len(file) /\ Line.kind = kind
  /\ i' = i + 1
  /\ UNCHANGED <<file, strategies, phase>>

\* "- item": belongs to the last list key, if it is indented deeper.
ReadItem ==
  /\ Read("item")
  /\ section_at_indent' = OpenSections(Line.indent)
  /\ lists' = IF pending_list_key # <<>> /\ Line.indent > pending_list_key[1].indent
                 /\ pending_list_key[1].path \in ListPaths
                THEN [lists EXCEPT ![pending_list_key[1].path] = Append(@, Line.value)]
                ELSE lists
  /\ UNCHANGED <<pending_list_key, settings>>

\* "key:" and the next line is an item: the key of a list.
ReadListKey ==
  /\ i + 1 < Len(file) /\ file[i + 2].kind = "item"
  /\ Read("empty")
  /\ section_at_indent' = OpenSections(Line.indent)
  /\ pending_list_key' =
       <<[path |-> FullKey(OpenSections(Line.indent), Line.text), indent |-> Line.indent]>>
  /\ UNCHANGED <<settings, lists>>

\* "key:" otherwise: a section.  On the last line the list stays pending.
ReadSection ==
  /\ ~(i + 1 < Len(file) /\ file[i + 2].kind = "item")
  /\ Read("empty")
  /\ section_at_indent' = Entered(OpenSections(Line.indent), Line.indent, Line.text)
  /\ pending_list_key' = IF i + 1 < Len(file) THEN <<>> ELSE pending_list_key
  /\ UNCHANGED <<settings, lists>>

ReadInline ==
  /\ Read("inline")
  /\ section_at_indent' = OpenSections(Line.indent)
  /\ LET path == FullKey(OpenSections(Line.indent), Line.text)
     IN lists' = IF path \in ListPaths THEN [lists EXCEPT ![path] = <<Line.value>>] ELSE lists
  /\ UNCHANGED <<pending_list_key, settings>>

ReadScalar ==
  /\ Read("scalar")
  /\ section_at_indent' = OpenSections(Line.indent)
  /\ settings' = Entered(settings, FullKey(OpenSections(Line.indent), Line.text), Line.value)
  /\ pending_list_key' = <<>>
  /\ UNCHANGED lists

ParseEnds ==
  /\ phase = "parse" /\ i = Len(file)
  /\ phase' = "defaults"
  /\ UNCHANGED <<file, i, parserVars, strategies>>

\* The entries of `given`, and those of `others` that are missing there.
Completed(given, others) ==
  [p \in DOMAIN given \cup DOMAIN others |-> IF p \in DOMAIN given THEN given[p] ELSE others[p]]

\* Faulty variant: the defaults win.
ApplyDefaultsFirst ==
  /\ phase = "defaults"
  /\ settings' = Completed(Defaults, settings)
  /\ lists' = [p \in ListPaths |-> IF lists[p] = <<>> THEN DefaultLists[p] ELSE lists[p]]
  /\ phase' = "create"
  /\ UNCHANGED <<file, i, section_at_indent, pending_list_key, strategies>>

\* Defaults for what is missing; load_defaults for a file that is not there,
\* which is the empty file here.
ApplyDefaults ==
  /\ phase = "defaults"
  /\ settings' = Completed(settings, Defaults)
  /\ lists' = [p \in ListPaths |-> IF lists[p] = <<>> THEN DefaultLists[p] ELSE lists[p]]
  /\ phase' = "create"
  /\ UNCHANGED <<file, i, section_at_indent, pending_list_key, strategies>>

\* create_strategies: one object for each known name in the active list, in
\* that order and as often as it is there.
CreateStrategies ==
  /\ phase = "create"
  /\ strategies' = SelectSeq(lists[ActivePath], LAMBDA name : name \in Known)
  /\ phase' = "done"
  /\ UNCHANGED <<file, i, parserVars>>

Next ==
  \/ ReadItem \/ ReadListKey \/ ReadSection \/ ReadInline \/ ReadScalar
  \/ ParseEnds \/ ApplyDefaults \/ CreateStrategies

Spec == Init /\ [][Next]_vars

----------------------------------------------------------------------------
\* The outline the header comment describes, read off the whole file f.
IsKey(f, j) == f[j].kind # "item"
HeadsList(f, j) == f[j].kind = "empty" /\ j < Len(f) /\ f[j + 1].kind = "item"

\* The line that line j is nested under: the last one before it that is less
\* indented, and nothing if there is none.
Parents(f, j) ==
  LET less == {k \in 1 .. j - 1 : IsKey(f, k) /\ f[k].indent < f[j].indent}
  IN IF less = {} THEN {} ELSE {Max(less)}

\* Every key is nested under a section, items follow the head of their list
\* and each other at one indent that is deeper than the head's, and a section
\* has something in it.
WellFormed(f) ==
  \A j \in DOMAIN f :
    IF IsKey(f, j)
      THEN \A k \in Parents(f, j) : f[k].kind = "empty" /\ ~HeadsList(f, k)
      ELSE j > 1 /\ IF IsKey(f, j - 1) THEN HeadsList(f, j - 1) /\ f[j].indent > f[j - 1].indent
                                       ELSE f[j].indent = f[j - 1].indent

\* The keys from the outermost section to that of line j.
Path(f, j) ==
  LET path[n \in DOMAIN f] ==
        Append(IF Parents(f, n) = {} THEN <<>> ELSE path[CHOOSE k \in Parents(f, n) : TRUE],
               f[n].text)
  IN path[j]

\* Line j gives the list p an item, or all of it.
Gives(f, j, p) ==
  \/ f[j].kind = "inline" /\ Path(f, j) = p
  \/ \E k \in 1 .. j - 1 : /\ HeadsList(f, k) /\ Path(f, k) = p
                           /\ \A n \in k + 1 .. j : ~IsKey(f, n)

\* What the first n lines say is in the list p: what the lines gave that do
\* not precede its last bracketed form.
ItemsUnder(f, n, p) ==
  LET given == {j \in 1 .. n : Gives(f, j, p)}
      order == InOrder({j \in given : \A k \in given : f[k].kind = "inline" => j >= k})
  IN [m \in DOMAIN order |-> f[order[m]].value]

\* For every well formed file the settings are those of the outline, the last
\* of several for one path, however deep the sections nest and wherever a
\* list stands between them; what is missing has its default; and the
\* strategies are those of the active list.
ParserFollowsOutline ==
  phase = "done" /\ WellFormed(file) =>
    LET scalars == {j \in DOMAIN file : file[j].kind = "scalar"}
        paths == {Path(file, j) : j \in scalars}
        items(p) == ItemsUnder(file, Len(file), p)
    IN /\ DOMAIN settings = paths \cup DOMAIN Defaults
       /\ \A p \in paths : settings[p] = file[Max({j \in scalars : Path(file, j) = p})].value
       /\ \A p \in ListPaths : lists[p] = IF items(p) = <<>> THEN DefaultLists[p] ELSE items(p)
       /\ strategies = SelectSeq(lists[ActivePath], LAMBDA name : name \in Known)
=============================================================================
