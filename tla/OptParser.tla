----------------------------- MODULE OptParser ------------------------------
(***************************************************************************)
(* The option scanner of src/opt/src/opt.c.  An element of argv is         *)
(*   [kind |-> "word"], "--" is [kind |-> "dashdash"],                     *)
(*   [kind |-> "short", chars |-> the letters after the dash],             *)
(*   [kind |-> "long", name, eq |-> whether "=value" follows],             *)
(* each with an id that tells equal ones apart.                            *)
(***************************************************************************)
EXTENDS Integers, Sequences, SequencesExt, FiniteSets

CONSTANTS Tokens,      \* elements of argv, without their id
          ArgcMax,     \* bound of the instance on argc - 1
          ArgType      \* letters and long names defined -> "none", "required", "optional"

ASSUME OptAssumption ==
  /\ ArgcMax \in Nat
  /\ ArgType \in [DOMAIN ArgType -> {"none", "required", "optional"}]
  /\ \A t \in Tokens : t.kind \in {"word", "dashdash", "short", "long"}
  /\ \A t \in Tokens : t.kind = "long" => t.eq \in BOOLEAN

VARIABLES opt,         \* ct_opt_t: [argv, optind, subind, permute]; optind counts from 1
          optOut,      \* what the calls returned: <<error, option, argument>>
          optLine,     \* history: a cursor in the line as it was given
          optMeant     \* history: what the cursor reads there

optVars == <<opt, optOut, optLine, optMeant>>

Lines == UNION {[1..n -> Tokens] : n \in 0..ArgcMax}

OptInit ==
  \E line \in Lines, p \in BOOLEAN :
    LET argv == [i \in DOMAIN line |-> [t |-> line[i], id |-> i]] IN
      /\ opt = [argv |-> argv, optind |-> 1, subind |-> 0, permute |-> p]
      /\ optLine = opt
      /\ optOut = <<>> /\ optMeant = <<>>

None == "none"

TypeOf(name) == IF name \in DOMAIN ArgType THEN ArgType[name] ELSE "undefined"

\* opt_parse_short at optind: one letter of the cluster, which may take the rest
\* of it, or the next element, as its argument.  The result of a call.
ParseShort(o) ==
  LET chars == o.argv[o.optind].t.chars
      c == chars[o.subind + 1]
      rest == SubSeq(chars, o.subind + 2, Len(chars))
      past == [o EXCEPT !.subind = 0, !.optind = @ + 1]
      hasNext == o.optind < Len(o.argv)
  IN CASE TypeOf(c) = "none" ->
            [o |-> IF rest # <<>> THEN [o EXCEPT !.subind = @ + 1] ELSE past, r |-> <<"ok", c, None>>]
       [] TypeOf(c) = "required" ->
            IF rest # <<>> THEN [o |-> past, r |-> <<"ok", c, rest>>]
            ELSE IF hasNext THEN [o |-> [past EXCEPT !.optind = @ + 1], r |-> <<"ok", c, o.argv[o.optind + 1].id>>]
            ELSE [o |-> past, r |-> <<"missing", c, None>>]
       [] TypeOf(c) = "optional" ->
            [o |-> past, r |-> <<"ok", c, IF rest # <<>> THEN rest ELSE None>>]
       [] OTHER -> [o |-> past, r |-> <<"invalid", c, None>>]

ParseLong(o) ==
  LET t == o.argv[o.optind].t
      past == [o EXCEPT !.optind = @ + 1]
      hasNext == past.optind <= Len(o.argv)
  IN CASE TypeOf(t.name) = "undefined" -> [o |-> past, r |-> <<"invalid", None, None>>]
       [] t.eq /\ TypeOf(t.name) = "none" -> [o |-> past, r |-> <<"toomany", t.name, None>>]
       [] t.eq /\ TypeOf(t.name) # "none" -> [o |-> past, r |-> <<"ok", t.name, "value">>]
       [] ~t.eq /\ TypeOf(t.name) = "required" ->
            IF hasNext THEN [o |-> [past EXCEPT !.optind = @ + 1], r |-> <<"ok", t.name, o.argv[past.optind].id>>]
            ELSE [o |-> past, r |-> <<"missing", t.name, None>>]
       [] ~t.eq /\ TypeOf(t.name) \in {"none", "optional"} -> [o |-> past, r |-> <<"ok", t.name, None>>]

\* A mutant of Permuted: the elements change places instead of moving down.
SwappingPermuted(argv, from, to, count) ==
  [i \in DOMAIN argv |->
     IF to <= i /\ i < to + count THEN argv[i - to + from]
     ELSE IF from <= i /\ i < from + count THEN argv[i - from + to] ELSE argv[i]]

\* opt_permute: count elements from index from move down to index to.
Permuted(argv, from, to, count) ==
  SubSeq(argv, 1, to - 1) \o SubSeq(argv, from, from + count - 1)
    \o SubSeq(argv, to, from - 1) \o SubSeq(argv, from + count, Len(argv))

Ends(o) == [o |-> o, r |-> <<"done", None, None>>]
ParseAt(o) == IF o.argv[o.optind].t.kind = "short" THEN ParseShort(o) ELSE ParseLong(o)

FirstOption(o) ==
  LET ahead == {i \in o.optind..Len(o.argv) : o.argv[i].t.kind # "word"} IN
    IF ahead = {} THEN 0 ELSE CHOOSE i \in ahead : \A j \in ahead : i <= j

\* ct_opt_next: the first option from optind on, which moves before the words
\* skipped to reach it; in POSIX mode the first word ends the options.
Scan(o) ==
  LET i == FirstOption(o) IN
    IF i = 0 \/ (~o.permute /\ i > o.optind) THEN Ends(o)
    ELSE IF o.argv[i].t.kind = "dashdash"
    THEN Ends([o EXCEPT !.argv = Permuted(@, i, o.optind, 1), !.optind = @ + 1])
    ELSE LET p == ParseAt([o EXCEPT !.optind = i])
             consumed == p.o.optind - i
         IN [o |-> [p.o EXCEPT !.argv = Permuted(@, i, o.optind, consumed), !.optind = o.optind + consumed],
             r |-> p.r]

\* The line as given, read by a cursor with nothing moved.
Read(l) ==
  LET i == FirstOption(l) IN
    IF i = 0 \/ (~l.permute /\ i > l.optind) THEN Ends(l)
    ELSE IF l.argv[i].t.kind = "dashdash" THEN Ends([l EXCEPT !.optind = i + 1])
    ELSE ParseAt([l EXCEPT !.optind = i])

Over == \E i \in DOMAIN optOut : optOut[i][1] = "done"

\* A caller that was told the options are over asks again, in POSIX mode, once
\* it has stepped over a word.
OptNext ==
  /\ Over => ~opt.permute /\ Last(optOut)[1] = "arg"
  /\ opt' = Scan(opt).o /\ optOut' = Append(optOut, Scan(opt).r)
  /\ optLine' = Read(optLine).o /\ optMeant' = Append(optMeant, Read(optLine).r)

\* ct_opt_arg: the caller takes an element as it is; none inside a cluster.
OptArg ==
  /\ opt.subind = 0 /\ opt.optind <= Len(opt.argv)
  /\ opt' = [opt EXCEPT !.optind = @ + 1]
  /\ LET id == opt.argv[opt.optind].id IN
       /\ optLine' = [optLine EXCEPT !.optind = IF id >= @ THEN id + 1 ELSE @]
       /\ optOut' = Append(optOut, <<"arg", id, None>>)
       /\ optMeant' = Append(optMeant, <<"arg", id, None>>)

OptStep == OptNext \/ OptArg

OptSpec == OptInit /\ [][OptStep]_optVars

-----------------------------------------------------------------------------
(* Properties. *)

\* The scanner returns what a reader of the line as given finds there, in the
\* same order and with the same arguments, clusters and stepped-over words
\* included; moving elements loses none, and the words left keep their order
\* (opt.c:38-44, 162-192).
OptionsAsGiven ==
  /\ optOut = optMeant
  /\ {opt.argv[i].id : i \in DOMAIN opt.argv} = DOMAIN opt.argv /\ Len(opt.argv) = Len(optLine.argv)
  /\ \A i, j \in opt.optind..Len(opt.argv) : i < j => opt.argv[i].id < opt.argv[j].id
=============================================================================
