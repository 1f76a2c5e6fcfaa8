---------------------------- MODULE OptionParser ----------------------------
(***************************************************************************)
(* OptionParser of zpkg: parse(argc, argv) sorts the arguments of a        *)
(* command line into values of options, unknown options and the rest.      *)
(*                                                                         *)
(* An argument is a record: its leading dashes (up to two), the word       *)
(* behind them and what follows a "=" behind two dashes.  The word is a    *)
(* sequence because one dash may lead several options; a long name is a    *)
(* sequence of one.                                                        *)
(***************************************************************************)
EXTENDS Integers, Sequences, FiniteSets, SequencesExt

CONSTANTS
  Options,       (* what the program added                                  *)
  ShortName,     (* short_name of each                                      *)
  LongName,      (* long_name of each                                       *)
  ArgumentType,  (* argument_type: "no" (Switch), "required" (Value) or     *)
                 (* "optional" (Implicit)                                   *)
  Attribute,     (* attribute: "inactive", "required", "optional", ...      *)
  Arguments,     (* what a command line may hold                            *)
  Unreadable,    (* arguments that a Value's type cannot be read from       *)
  MaxArgs        (* bound: arguments of all command lines together          *)

Dashes == [dashes |-> 2, word |-> <<>>, value |-> <<>>]
Text(word) == [dashes |-> 0, word |-> word, value |-> <<>>]
Set == "set"           (* what a Switch adds                                *)
Default == "default"   (* what an Implicit adds without an argument         *)

(* add throws for a name that is taken. *)
ASSUME OptionAssumption ==
  /\ \A o, p \in Options :
       o # p => ShortName[o] # ShortName[p] /\ LongName[o] # LongName[p]
  /\ \A o \in Options : ArgumentType[o] \in {"no", "required", "optional"}
  /\ \A a \in Arguments : a.dashes \in 0 .. 2 /\ a.word \in Seq(Range(a.word))
  /\ Unreadable \subseteq Arguments /\ MaxArgs \in Nat

VARIABLES
  argv,              (* the command line, without the program's name        *)
  n,                 (* the argument parse is at                            *)
  values,            (* values_ of each option                              *)
  unknown_options_,
  non_option_args_,
  parser,            (* "idle", "parsing", "parsed" or "thrown"             *)
  before,            (* values and the two vectors when parse was called    *)
  spent              (* arguments parsed since the beginning                *)

parsed == <<values, unknown_options_, non_option_args_>>
optionVars == <<argv, n, parsed, parser, before, spent>>

-----------------------------------------------------------------------------

Active(o) == Attribute[o] # "inactive"
Short(c) == {o \in Options : ShortName[o] = c /\ Active(o)}
Long(word) == {o \in Options : LongName[o] = word /\ Active(o)}

(* Option::parse of the three kinds: whether it throws, and what it adds. *)
Fails(o, text) ==
  \/ ArgumentType[o] = "required" /\ text = Text(<<>>)
  \/ ArgumentType[o] # "no" /\ text \in Unreadable

Added(o, text) ==
  CASE ArgumentType[o] = "no" -> Set
    [] ArgumentType[o] = "optional" /\ text = Text(<<>>) -> Default
    [] OTHER -> text

OptionParse(o, text, old) ==
  IF Fails(o, text)
  THEN values' = old /\ parser' = "thrown"
  ELSE values' = [old EXCEPT ![o] = Append(@, Added(o, text))] /\ UNCHANGED parser

(* The argument of an option that requires one: what is attached, or the    *)
(* next argument.                                                           *)
TakesNext(attached) == attached = <<>> /\ n < Len(argv)
OptArg(attached) == IF TakesNext(attached) THEN argv[n + 1] ELSE Text(attached)

(* Seeded fault: the argument taken is not skipped. *)
FaultyAdvance(attached) == n' = n + 1

Advance(attached) == n' = IF TakesNext(attached) THEN n + 2 ELSE n + 1

-----------------------------------------------------------------------------
(* One turn of the loop of parse, by the form of the argument. *)

At(dashes) == parser = "parsing" /\ n <= Len(argv) /\ argv[n].dashes = dashes

ParseDashes ==
  /\ At(2) /\ argv[n] = Dashes
  /\ non_option_args_' = non_option_args_ \o SubSeq(argv, n + 1, Len(argv))
  /\ n' = n + 1
  /\ UNCHANGED <<argv, values, unknown_options_, parser, before, spent>>

Unknown(arg) ==
  /\ unknown_options_' = Append(unknown_options_, arg)
  /\ n' = n + 1
  /\ UNCHANGED <<values, parser>>

ParseLong ==
  LET arg == argv[n]
      known == {o \in Long(arg.word) : ArgumentType[o] = "no" => arg.value = <<>>}
  IN  /\ At(2) /\ arg # Dashes
      /\ \/ known = {} /\ Unknown(arg)
         \/ \E o \in known :
              /\ IF ArgumentType[o] = "required"
                 THEN OptionParse(o, OptArg(arg.value), values) /\ Advance(arg.value)
                 ELSE OptionParse(o, Text(arg.value), values) /\ n' = n + 1
              /\ UNCHANGED unknown_options_
      /\ UNCHANGED <<argv, non_option_args_, before, spent>>

(* The first letter of a word whose option takes an argument. *)
TakesArgument(c) == \E o \in Short(c) : ArgumentType[o] # "no"
Stop(word) ==
  CHOOSE m \in 1 .. Len(word) + 1 :
    /\ m <= Len(word) => TakesArgument(word[m])
    /\ \A k \in 1 .. m - 1 : ~TakesArgument(word[k])

(* The letters before it are switches or unknown; the letters behind it     *)
(* are its argument.  An exception keeps the switches but not the unknown.  *)
ParseShort ==
  LET arg == argv[n]
      stop == Stop(arg.word)
      switches == [o \in Options |->
        values[o] \o FlattenSeq([m \in 1 .. stop - 1 |->
                       IF o \in Short(arg.word[m]) THEN <<Set>> ELSE <<>>])]
      attached == SubSeq(arg.word, stop + 1, Len(arg.word))
      unknown == \E m \in 1 .. stop - 1 : Short(arg.word[m]) = {}
  IN  /\ At(1)
      /\ IF stop > Len(arg.word)
         THEN values' = switches /\ n' = n + 1 /\ UNCHANGED parser
         ELSE \E o \in Short(arg.word[stop]) :
                IF ArgumentType[o] = "required"
                THEN OptionParse(o, OptArg(attached), switches) /\ Advance(attached)
                ELSE OptionParse(o, Text(attached), switches) /\ n' = n + 1
      /\ unknown_options_' = IF unknown /\ parser' = "parsing"
                             THEN Append(unknown_options_, arg) ELSE unknown_options_
      /\ UNCHANGED <<argv, non_option_args_, before, spent>>

ParsePlain ==
  /\ At(0)
  /\ non_option_args_' = Append(non_option_args_, argv[n])
  /\ n' = n + 1
  /\ UNCHANGED <<argv, values, unknown_options_, parser, before, spent>>

(* Behind the loop: a required option that is not set is an exception. *)
ParseReturns ==
  /\ parser = "parsing" /\ n > Len(argv)
  /\ parser' = IF \E o \in Options : Attribute[o] = "required" /\ values[o] = <<>>
               THEN "thrown" ELSE "parsed"
  /\ UNCHANGED <<argv, n, parsed, before, spent>>

-----------------------------------------------------------------------------
(* The program's calls. *)

parse(args) ==
  /\ parser # "parsing"
  /\ spent + Len(args) <= MaxArgs
  /\ spent' = spent + Len(args)
  /\ argv' = args /\ n' = 1 /\ parser' = "parsing" /\ before' = parsed
  /\ UNCHANGED parsed

Forget == /\ values' = [o \in Options |-> <<>>]
          /\ unknown_options_' = <<>> /\ non_option_args_' = <<>>

reset ==
  /\ parser \in {"parsed", "thrown"}
  /\ parser' = "idle"
  /\ Forget
  /\ UNCHANGED <<argv, n, before, spent>>

OptionInit ==
  /\ argv = <<>> /\ n = 1 /\ parser = "idle" /\ spent = 0
  /\ values = [o \in Options |-> <<>>]
  /\ unknown_options_ = <<>> /\ non_option_args_ = <<>>
  /\ before = parsed

OptionNext ==
  \/ \E size \in 0 .. MaxArgs - spent : \E args \in [1 .. size -> Arguments] : parse(args)
  \/ ParseDashes \/ ParseLong \/ ParseShort \/ ParsePlain \/ ParseReturns
  \/ reset

OptionSpec == OptionInit /\ [][OptionNext]_optionVars

-----------------------------------------------------------------------------
(* Properties: what a command line means, said of its positions. *)

(* An argument that ends in an option still in need of its own. *)
NeedsNext(a) ==
  CASE a.dashes = 2 -> a.value = <<>> /\ \E o \in Long(a.word) : ArgumentType[o] = "required"
    [] a.dashes = 1 -> /\ a.word # <<>> /\ Stop(a.word) = Len(a.word)
                       /\ \E o \in Short(Last(a.word)) : ArgumentType[o] = "required"
    [] OTHER -> FALSE

(* The positions taken as the argument of the option before. *)
Taken ==
  LET taken[i \in 1 .. Len(argv)] == i > 1 /\ ~taken[i - 1] /\ NeedsNext(argv[i - 1])
  IN  {i \in 1 .. Len(argv) : taken[i]}

Given(o, i) ==
  LET a == argv[i]
      next == IF i < Len(argv) THEN argv[i + 1] ELSE Text(<<>>)
      word == IF a.dashes # 1 THEN <<>>
              ELSE IF Stop(a.word) > Len(a.word) THEN a.word
              ELSE SubSeq(a.word, 1, Stop(a.word))
      letters == {k \in DOMAIN word : o \in Short(word[k])}
      attached == IF a.dashes = 2 THEN a.value ELSE SubSeq(a.word, Len(word) + 1, Len(a.word))
      named == IF a.dashes = 2
               THEN o \in Long(a.word) /\ ~(ArgumentType[o] = "no" /\ a.value # <<>>)
               ELSE letters # {}
      text == IF NeedsNext(a) THEN next ELSE Text(attached)
  IN  IF ~named THEN <<>>
      ELSE IF ArgumentType[o] = "no" THEN [k \in 1 .. (IF a.dashes = 2 THEN 1 ELSE Cardinality(letters)) |-> Set]
      ELSE <<Added(o, text)>>

NotKnown(a) ==
  CASE a.dashes = 2 -> ~\E o \in Long(a.word) : ArgumentType[o] = "no" => a.value = <<>>
    [] a.dashes = 1 -> \E m \in 1 .. Stop(a.word) - 1 : Short(a.word[m]) = {}
    [] OTHER -> FALSE

Picked(P(_)) ==
  FlattenSeq([i \in DOMAIN argv |-> IF i \in Taken \/ ~P(argv[i]) THEN <<>> ELSE <<argv[i]>>])

Meaning ==
  <<[o \in Options |->
       before[1][o] \o FlattenSeq([i \in DOMAIN argv |-> IF i \in Taken THEN <<>> ELSE Given(o, i)])],
    before[2] \o Picked(NotKnown),
    before[3] \o Picked(LAMBDA a : a.dashes = 0)>>

(* A command line is parsed position by position: every argument is an      *)
(* option, the argument of exactly one, unknown or kept, in order, whatever *)
(* was parsed or thrown before.  (A "--" that is no option's argument keeps *)
(* what follows and the loop parses that too: such a line is left out.)     *)
ParsedByPosition ==
  parser = "parsed" /\ (\A i \in DOMAIN argv \ Taken : argv[i] # Dashes) =>
    parsed = Meaning

=============================================================================
