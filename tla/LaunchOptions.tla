----------------------------- MODULE LaunchOptions -----------------------------
(***************************************************************************)
(* parse_argv of vm.c: the argument of option m is read character by       *)
(* character and scaled by its unit.  The option may be given several      *)
(* times, and the locals of parse_argv live through all of them.           *)
(***************************************************************************)
EXTENDS Integers, Sequences, SequencesExt, Numerals

CONSTANTS
  MemArgs,     \* sizes given with -m or --mem, sequences of characters
  Garbage,     \* what an uninitialised int may hold
  MaxOptions,  \* bound on the options of a command line
  KILO,        \* 0x400
  WORD         \* 2^64, the values of vm_memory_size

ASSUME OptionsAssumption ==
  /\ MemArgs \subseteq Seq(STRING) /\ Garbage \subseteq Int /\ MaxOptions \in Nat
  /\ KILO \in Nat \ {0} /\ WORD \in Nat \ {0}

VARIABLES
  form,            \* how the option is written: "-m" (or --mem), "-mem" or "-smp"; "none" at first
  optpc,           \* "getopt", "digits", "invalid" or "parsed"
  options,         \* options read so far
  optarg, i, base, \* the argument, the place in it and the base of its number
  val,             \* value of the last digit, uninitialised at first
  vm_memory_size

optionVars == <<form, optpc, options, optarg, i, base, val, vm_memory_size>>

\* The ranges of digits that are given a value: those of letters stop before F.
Decimal == <<"0", "1", "2", "3", "4", "5", "6", "7", "8", "9">>
Upper == <<"A", "B", "C", "D", "E">>
Lower == <<"a", "b", "c", "d", "e">>
Letters == {"a", "b", "c", "d", "e", "f", "A", "B", "C", "D", "E", "F", "x", "k", "m", "g", "K", "M", "G", "p"}
isxdigit(ch) == ch \in ToSet(Decimal) \union {"a", "b", "c", "d", "e", "f", "A", "B", "C", "D", "E", "F"}

\* optarg[j], with the terminating nul behind the last character.
At(j) == IF j < Len(optarg) THEN optarg[j + 1] ELSE "nul"

Place(range, ch) == CHOOSE n \in DOMAIN range : range[n] = ch
DigitValue(ch) ==
  IF ch \in ToSet(Decimal) THEN Place(Decimal, ch) - 1
  ELSE IF ch \in ToSet(Upper) THEN Place(Upper, ch) + 9 ELSE Place(Lower, ch) + 9

\* F leaves val as it is.
Digit(ch) == IF ch \in {"F", "f"} THEN val ELSE DigitValue(ch)

Unit(ch) ==
  CASE ch \in {"K", "k"} -> KILO [] ch \in {"M", "m"} -> KILO * KILO [] ch \in {"G", "g"} -> KILO * KILO * KILO
    [] OTHER -> 0

Hex(arg) == Len(arg) > 1 /\ arg[1] = "0" /\ arg[2] = "x"

OptionsInit ==
  /\ form = "none" /\ optpc = "getopt" /\ options = 0 /\ optarg = << >> /\ i = 0 /\ base = 10
  /\ val \in Garbage /\ vm_memory_size = (2 * KILO * KILO) % WORD

\* What getopt_long makes of it with "f:m:hH": after a single dash mem is option m with the
\* argument em, and the size behind it is no option's; smp is an unknown option s, which
\* is reported, and option m with the argument p.
getopt_long(f) ==
  CASE f = "-m" -> MemArgs [] f = "-mem" -> {<<"e", "m">>} [] f = "-smp" -> {<<"p">>}

\* A variant that does not start from 0 again.
OptionKeepsSize ==
  /\ optpc = "getopt" /\ options < MaxOptions
  /\ optpc' = "digits" /\ options' = options + 1
  /\ form' \in {"-m", "-mem", "-smp"} /\ optarg' \in getopt_long(form')
  /\ base' = (IF Hex(optarg') THEN 16 ELSE 10) /\ i' = (IF Hex(optarg') THEN 2 ELSE 0)
  /\ UNCHANGED <<val, vm_memory_size>>

\* Option m, up to the loop over the digits of its argument.
MemOption ==
  /\ optpc = "getopt" /\ options < MaxOptions
  /\ optpc' = "digits" /\ options' = options + 1
  /\ form' \in {"-m", "-mem", "-smp"} /\ optarg' \in getopt_long(form')
  /\ base' = (IF Hex(optarg') THEN 16 ELSE 10) /\ i' = (IF Hex(optarg') THEN 2 ELSE 0)
  /\ vm_memory_size' = 0
  /\ UNCHANGED val

TakeDigit ==
  /\ optpc = "digits" /\ isxdigit(At(i))
  /\ val' = Digit(At(i)) /\ i' = i + 1
  /\ vm_memory_size' = (vm_memory_size * base + val') % WORD
  /\ UNCHANGED <<form, optpc, options, optarg, base>>

\* A letter must follow, a single one, and be a unit.
CheckUnit ==
  /\ optpc = "digits" /\ ~isxdigit(At(i))
  /\ IF At(i) \in Letters /\ At(i + 1) \notin Letters /\ Unit(At(i)) # 0
     THEN optpc' = "getopt" /\ vm_memory_size' = (vm_memory_size * Unit(At(i))) % WORD
     ELSE optpc' = "invalid" /\ UNCHANGED vm_memory_size
  /\ UNCHANGED <<form, options, optarg, i, base, val>>

\* The result is printed.  Nothing else of the program reads it, nor the locals.
EndOptions ==
  /\ optpc = "getopt" /\ optpc' = "parsed" /\ form' = "none"
  /\ options' = 0 /\ optarg' = << >> /\ i' = 0 /\ base' = 10 /\ val' = 0 /\ vm_memory_size' = 0

parse_argv == MemOption \/ TakeDigit \/ CheckUnit \/ EndOptions

------------------------------------------------------------------------------
\* A number of the given base, without the digit F, and a unit.
Number(arg) == SubSeq(arg, IF Hex(arg) THEN 3 ELSE 1, Len(arg) - 1)
WellFormed(arg) ==
  /\ Len(arg) > (IF Hex(arg) THEN 3 ELSE 1) /\ Unit(Last(arg)) # 0
  /\ \A n \in DOMAIN Number(arg) :
       IF Hex(arg) THEN isxdigit(Number(arg)[n]) /\ Number(arg)[n] \notin {"f", "F"}
       ELSE Number(arg)[n] \in ToSet(Decimal)

\* What its digits mean, after each of them.
Meant(arg) ==
  Reading([n \in DOMAIN Number(arg) |-> DigitValue(Number(arg)[n])], IF Hex(arg) THEN 16 ELSE 10, 0)

\* A well-formed size after -m or --mem is accepted and is what it says, up to the width
\* of the word, whatever stood in val and whatever sizes were given before.  Written as
\* show_usage has it, after -mem, no size counts: it is always 14M; and -smp, which
\* show_usage offers too, ends the launcher.
SizeAsMeant ==
  /\ WellFormed(optarg) =>
       /\ optpc # "invalid"
       /\ optpc = "getopt" =>
            vm_memory_size = (Meant(optarg)[Len(Number(optarg))] * Unit(Last(optarg))) % WORD
  /\ form = "-mem" =>
       optpc # "invalid" /\ (optpc = "getopt" => vm_memory_size = (14 * Unit("m")) % WORD)
  /\ form = "-smp" => optpc \in {"digits", "invalid"}
===============================================================================
