------------------------------ MODULE Settings ------------------------------
(***************************************************************************)
(* How a server gets its settings before it starts: the command line       *)
(* (base/args.c), the configuration file (base/conf.c) that is read with   *)
(* the reader of module JsonReader, the store of both (base/settings.c)    *)
(* and the values read from it (base/scan.c), in the order of main.c.      *)
(*                                                                         *)
(* An argument, a key and a value are sequences of symbols; a symbol of a  *)
(* key may stand for a whole name.                                         *)
(***************************************************************************)
EXTENDS JsonReader, FiniteSets, TLC

CONSTANTS
    Info,         \* mm_args_info_tbl: records of name, flag and param
    Preset,       \* the settings that mm_init registers itself, with their info
    Inputs,       \* command lines and files, with what they mean
    BufferSize,   \* of mm_conf_buffer
    Mod           \* numbers of uint32_t are below Mod, those of int64_t between -Mod/2 and Mod/2

NoValue == <<"NULL">>

VARIABLES
    input,        \* what the user gives
    pc,
    av, idx, ec,  \* mm_args_av; the argument at hand; the number of extra arguments at the end
    at,           \* the flag at hand, of several in one argument
    verbosity,    \* mm_args_verbosity_level
    settings,     \* mm_settings_map: info and value of a key
    r, fed,       \* the reader of the file, and the characters read
    key,          \* the key that is to get its value
    torn,         \* ghost: mm_conf_buffer was refilled before its rest was saved
    conf          \* the values that the server starts with

argVars == <<av, idx, ec, at, verbosity>>
fileVars == <<r, fed, torn>>

-----------------------------------------------------------------------------
(* settings.c                                                              *)

(* mm_settings_set_info, for the tables of mm_init and mm_args_init        *)
InfoOf(p) == IF p.param \in {"TRIVIAL", "VERBOSE"} THEN "BOOLEAN" ELSE "REGULAR"
Registered ==
    [k \in {p.name : p \in {p \in Info : p.param # "COMMAND"}} |->
        [value |-> NoValue, info |-> InfoOf(CHOOSE p \in Info : p.name = k)]]
    @@ [k \in DOMAIN Preset |-> [value |-> NoValue, info |-> Preset[k]]]

GetInfo(k) == IF k \in DOMAIN settings THEN settings[k].info ELSE "UNKNOWN"
Get(k) == IF k \in DOMAIN settings THEN settings[k].value ELSE NoValue


(* mm_settings_set *)
Set(k, value, overwrite) ==
    CASE value # NoValue /\ (overwrite \/ Get(k) = NoValue) ->
            (k :> [value |-> value, info |-> GetInfo(k)]) @@ settings
      [] value = NoValue /\ ~overwrite /\ k \in DOMAIN settings ->
            IF GetInfo(k) # "UNKNOWN" /\ Get(k) # NoValue THEN [settings EXCEPT ![k].value = NoValue]
            ELSE [j \in DOMAIN settings \ {k} |-> settings[j]]
      [] OTHER -> settings

-----------------------------------------------------------------------------
(* scan.c                                                                  *)

Digit(c) ==
    CASE c \in Digits -> CHOOSE d \in 0 .. 9 : <<"0", "1", "2", "3", "4", "5", "6", "7", "8", "9">>[d + 1] = c
      [] c \in HexDigits \ Digits -> 10 + CHOOSE d \in 0 .. 5 : <<"a", "b", "c", "d", "e", "f">>[d + 1] = c
      [] OTHER -> 255

(* MM_SCAN_DIGITS, in base b and up to m, behind the first symbols of s    *)
ScanDigits(s, skipped, b, m) ==
    LET Step(a, c) ==
            CASE a.stop \/ Digit(c) >= b -> [a EXCEPT !.stop = TRUE]
              [] ~a.stop /\ Digit(c) < b /\ a.n = 0 -> [a EXCEPT !.v = Digit(c), !.n = 1]
              [] ~a.stop /\ Digit(c) < b /\ a.n > 0 ->
                    IF a.err = "" /\ ~(a.v >= m \div b /\ (Digit(c) > m % b \/ a.v > m \div b))
                    THEN [a EXCEPT !.v = @ * b + Digit(c), !.n = @ + 1]
                    ELSE [a EXCEPT !.v = m, !.err = "ERANGE", !.n = @ + 1]
        a == FoldLeft(Step, [v |-> 0, n |-> 0, err |-> "", stop |-> FALSE], From(s, skipped))
    IN IF a.n = 0 THEN [v |-> 0, err |-> "EINVAL", rest |-> s]
       ELSE [v |-> a.v, err |-> a.err, rest |-> From(s, skipped + a.n)]

IsHex(s) == Len(s) > 2 /\ s[1] = "0" /\ s[2] = "x" /\ s[3] \in HexDigits

(* mm_scan_n32 and mm_scan_i64                                             *)
ScanNatural(s) ==
    CASE s = <<>> -> [v |-> 0, err |-> "EINVAL", rest |-> s]
      [] s # <<>> /\ IsHex(s) -> ScanDigits(s, 2, 16, Mod - 1)
      [] OTHER -> ScanDigits(s, 0, 10, Mod - 1)
ScanInteger(s) ==
    CASE s[1] = "-" -> ScanDigits(s, 1, 10, Mod \div 2)
      [] s[1] = "+" -> ScanDigits(s, 1, 10, Mod \div 2 - 1)
      [] IsHex(s) -> ScanDigits(s, 2, 16, Mod - 1)
      [] OTHER -> ScanDigits(s, 0, 10, Mod \div 2 - 1)

(* mm_scan_bool; "o" alone is no error but leaves itself to be read        *)
Truths == {<<"t", "r", "u", "e">>, <<"y", "e", "s">>, <<"o", "n">>}
Falsehoods == {<<"f", "a", "l", "s", "e">>, <<"n", "o">>, <<"o", "f", "f">>}
ScanBool(s) ==
    LET words == {w \in Truths \cup Falsehoods : IsPrefix(w, s)} IN
    CASE words # {} -> LET w == CHOOSE w \in words : TRUE IN
            [v |-> w \in Truths, err |-> "", rest |-> From(s, Len(w))]
      [] words = {} /\ s # <<>> /\ s[1] \in Digits \cup {"+", "-"} ->
            LET i == ScanInteger(s) IN [v |-> i.v # 0, err |-> i.err, rest |-> i.rest]
      [] OTHER -> [v |-> FALSE, err |-> IF s = <<"o">> THEN "" ELSE "EINVAL", rest |-> s]

(* mm_settings_get_uint32 and _get_bool give a value, or none where they   *)
(* are fatal, which they are too if something is left over                 *)
Refused == <<>>
Read(scanned) == IF scanned.err # "" \/ scanned.rest # <<>> THEN Refused ELSE <<scanned.v>>
GetUint32(k, def) == IF Get(k) = NoValue THEN <<def>> ELSE Read(ScanNatural(Get(k)))
GetBool(k, def) == IF Get(k) = NoValue THEN <<def>> ELSE Read(ScanBool(Get(k)))

-----------------------------------------------------------------------------
(* args.c                                                                  *)

Init ==
    /\ input \in Inputs
    /\ pc = "args" /\ av = <<<<"mmd">>>> \o input.args /\ idx = 1 /\ ec = 0 /\ at = 0 /\ verbosity = 0
    /\ settings = Registered
    /\ r = Prepared /\ fed = 0 /\ key = <<>> /\ torn = FALSE /\ conf = <<>>

Arg(i) == av[i + 1]
More == idx + ec < Len(av)

(* mm_args_extra_shift *)
ExtraShift ==
    /\ av' = Append(RemoveAt(av, idx + 1), Arg(idx))
    /\ ec' = ec + 1

Usage == pc' = "usage" /\ UNCHANGED <<input, argVars, settings, fileVars, key, conf>>

(* The cases of mm_args_parse.  A non-option argument, or "-"              *)
ExtraArg ==
    /\ pc = "args" /\ More /\ (Arg(idx)[1] # "-" \/ Len(Arg(idx)) = 1)
    /\ ExtraShift
    /\ UNCHANGED <<input, pc, idx, at, verbosity, settings, fileVars, key, conf>>

(* "--", with mm_args_final_shift *)
FinalArg ==
    /\ pc = "args" /\ More /\ Arg(idx) = <<"-", "-">>
    /\ idx' = idx + 1
    /\ IF ec = 0 THEN ec' = Len(av) - idx - 1 /\ UNCHANGED pc ELSE pc' = "final" /\ UNCHANGED ec
    /\ UNCHANGED <<input, av, at, verbosity, settings, fileVars, key, conf>>
FinalShift ==
    /\ pc = "final"
    /\ IF More THEN ExtraShift /\ UNCHANGED pc ELSE pc' = "args" /\ UNCHANGED <<av, ec>>
    /\ UNCHANGED <<input, idx, at, verbosity, settings, fileVars, key, conf>>

(* The value of an option: its own, or the next argument.                  *)
NextArg == IF idx + 1 + ec < Len(av) /\ Arg(idx + 1)[1] # "-" THEN Arg(idx + 1) ELSE NoValue

(* What an option does, once it is known: without a parameter it is set to *)
(* "plain", and parsing goes on at the flag "then"; with one it is over.   *)
WithoutParam(p) == p.param \in {"TRIVIAL", "VERBOSE", "COMMAND"}
Option(p, own, plain, then) ==
    IF WithoutParam(p) THEN
        /\ settings' = Set(p.name, plain, TRUE)
        /\ verbosity' = IF p.param = "VERBOSE" THEN verbosity + 1 ELSE verbosity
        /\ IF then > 0 THEN at' = then /\ pc' = "flags" /\ UNCHANGED idx
           ELSE idx' = idx + 1 /\ at' = 0 /\ pc' = "args"
        /\ UNCHANGED <<input, av, ec, fileVars, key, conf>>
    ELSE \E value \in {IF own # NoValue THEN own ELSE NextArg} :
        IF p.param = "REQUIRED" /\ value = NoValue THEN Usage
        ELSE /\ settings' = Set(p.name, value, TRUE)
             /\ idx' = idx + (IF own # NoValue THEN 1 ELSE 2) /\ at' = 0 /\ pc' = "args"
             /\ UNCHANGED <<input, av, ec, verbosity, fileVars, key, conf>>

(* mm_args_parse_name *)
ParseName ==
    /\ pc = "args" /\ More /\ Len(Arg(idx)) > 2 /\ Arg(idx)[2] = "-"
    /\ \E arg \in {From(Arg(idx), 2)} :
       \E sep \in {Min({i \in 1 .. Len(arg) : arg[i] = "="} \cup {Len(arg) + 1})} :
       \E found \in {{p \in Info : p.name = SubSeq(arg, 1, sep - 1)}} :
        IF found = {} \/ (sep <= Len(arg) /\ \E p \in found : WithoutParam(p)) THEN Usage
        ELSE \E p \in found :
            Option(p, IF sep <= Len(arg) THEN From(arg, sep) ELSE NoValue, <<"t", "r", "u", "e">>, 0)

(* mm_args_parse_flags, and a round of its loop                            *)
ParseFlags ==
    /\ pc = "args" /\ More /\ Len(Arg(idx)) > 1 /\ Arg(idx)[1] = "-" /\ Arg(idx)[2] # "-"
    /\ pc' = "flags" /\ at' = 2
    /\ UNCHANGED <<input, av, idx, ec, verbosity, settings, fileVars, key, conf>>
ParseFlag ==
    /\ pc = "flags"
    /\ IF at > Len(Arg(idx)) THEN
          /\ pc' = "args" /\ idx' = idx + 1 /\ at' = 0
          /\ UNCHANGED <<input, av, ec, verbosity, settings, fileVars, key, conf>>
       ELSE \E found \in {{p \in Info : p.flag = Arg(idx)[at]}} :
          IF found = {} THEN Usage
          ELSE \E p \in found :
              Option(p, IF at < Len(Arg(idx)) THEN From(Arg(idx), at) ELSE NoValue, <<>>, at + 1)

(* mm_args_argv *)
ExtraArgs == SubSeq(av, Len(av) - ec + 1, Len(av))

(* main, behind mm_init.  No option sets the name of the file.             *)
Main ==
    /\ pc = "args" /\ ~More
    /\ pc' = CASE ec > 0 -> "usage"
               [] ec = 0 /\ (Get(<<"help">>) # NoValue \/ Get(<<"version">>) # NoValue) -> "exit"
               [] OTHER -> IF input.exists THEN "first"
                           ELSE IF Get(<<"config-file">>) # NoValue THEN "fatal" ELSE "configure"
    /\ r' = Call(r, FALSE)
    /\ UNCHANGED <<input, argVars, settings, fed, torn, key, conf>>

-----------------------------------------------------------------------------
(* conf.c                                                                  *)

Loading == pc \in {"first", "key", "value", "skip"}

(* Where the load goes on, with mm_json_reader_next or _skip               *)
GoOn(where) == pc' = where /\ r' = Call(r, where = "skip")
Fail(how) == pc' = how /\ UNCHANGED <<settings, r, key>>

ReaderStep ==
    /\ Loading /\ r.run # "idle"
    /\ r' = Advance(r)
    /\ UNCHANGED <<input, pc, argVars, settings, fed, torn, key, conf>>

(* mm_conf_read.  A read gives some characters, at the end of the file     *)
(* none, or fails.  It writes over the piece that the reader may not be    *)
(* through with.                                                           *)
Unread == IF r.mem = "input" THEN Left(r) ELSE Len(r.piece) - r.input
ConfRead ==
    /\ Loading /\ r.run = "idle" /\ r.token \in {"PARTIAL", "START_DOCUMENT"}
    /\ \/ \E n \in 1 .. IF Len(input.text) - fed < BufferSize THEN Len(input.text) - fed ELSE BufferSize :
          \E piece \in {SubSeq(input.text, fed + 1, fed + n)} :
          \E old \in {SubSeq(piece \o From(r.piece, n), 1, Len(r.piece))} :
            /\ r' = Call(Feed([r EXCEPT !.piece = old], piece), pc = "skip")
            /\ fed' = fed + n /\ torn' = (torn \/ Unread > 0)
            /\ UNCHANGED <<pc, settings, key>>
       \/ fed = Len(input.text) /\ Fail("fatal") /\ UNCHANGED <<fed, torn>>
       \/ Fail("eio") /\ UNCHANGED <<fed, torn>>
    /\ UNCHANGED <<input, argVars, conf>>

(* mm_conf_load, what it does with a token                                 *)
ConfStart ==
    /\ pc = "first"
    /\ IF r.token = "START_OBJECT" THEN GoOn("key") /\ UNCHANGED <<settings, key>> ELSE Fail("fatal")
ConfKey ==
    /\ pc = "key"
    /\ CASE r.token = "END_OBJECT" -> Fail("configure")
         [] r.token # "END_OBJECT" /\ r.escaped -> Fail("crash")
         [] OTHER -> key' = r.value /\ UNCHANGED settings
                     /\ GoOn(IF GetInfo(r.value) = "UNKNOWN" THEN "skip" ELSE "value")
ConfSkipped == pc = "skip" /\ GoOn("key") /\ UNCHANGED <<settings, key>>
ConfValue ==
    /\ pc = "value"
    /\ CASE r.token = "TRUE" -> settings' = Set(key, <<"t", "r", "u", "e">>, FALSE) /\ GoOn("key") /\ UNCHANGED key
         [] r.token \in {"STRING", "NUMBER"} /\ GetInfo(key) # "BOOLEAN" ->
               /\ settings' = Set(key, IF r.token = "STRING" /\ r.escaped THEN NoValue ELSE r.value, FALSE)
               /\ GoOn("key") /\ UNCHANGED key
         [] r.token = "FALSE" -> GoOn("key") /\ UNCHANGED <<settings, key>>
         [] OTHER -> Fail("fatal")
ConfToken ==
    /\ Loading /\ r.run = "idle" /\ r.token \notin {"PARTIAL", "START_DOCUMENT"}
    /\ IF r.token \in {"INVALID", "WILD"} THEN Fail(IF r.token = "WILD" THEN "wild" ELSE "fatal")
       ELSE ConfStart \/ ConfKey \/ ConfSkipped \/ ConfValue
    /\ UNCHANGED <<input, argVars, fed, torn, conf>>

(* The rest of main, with the port for the numbers that mm_server_init     *)
(* reads; mm_start reads the affinity.                                     *)
ServerPort == GetUint32(<<"port">>, 7)
ThreadAffinity == GetBool(<<"affinity">>, FALSE)
Configure ==
    /\ pc = "configure"
    /\ \E c \in {[port |-> ServerPort, affinity |-> ThreadAffinity,
                  verbose |-> verbosity > 0 \/ Get(<<"verbose">>) # NoValue,
                  daemon |-> Get(<<"daemon">>) # NoValue]} :
        IF c.port = Refused \/ c.affinity = Refused THEN pc' = "fatal" /\ UNCHANGED conf
        ELSE pc' = "ready" /\ conf' = c
    /\ UNCHANGED <<input, argVars, settings, fileVars, key>>

ArgsStep == ExtraArg \/ FinalArg \/ FinalShift \/ ParseName \/ ParseFlags \/ ParseFlag
Next == ArgsStep \/ Main \/ ReaderStep \/ ConfRead \/ ConfToken \/ Configure

-----------------------------------------------------------------------------
(* What the input means.  The last option counts, and it takes precedence  *)
(* over the file, in which the first value of a key counts.                *)
Want(k) ==
    LET given == {i \in DOMAIN input.opts : input.opts[i][1] = k}
        loaded == {i \in DOMAIN input.pairs : input.pairs[i][1] = k}
    IN CASE given # {} -> input.opts[Max(given)][2]
         [] given = {} /\ loaded # {} -> input.pairs[Min(loaded)][2]
         [] OTHER -> NoValue

Number(s, b) == FoldLeft(LAMBDA v, c : v * b + Digit(c), 0, s)
Digital(s, D) == s # <<>> /\ Range(s) \subseteq D
Bounded(n, max) == IF n <= max THEN <<n>> ELSE Refused
WantNatural(s) ==
    CASE Digital(s, Digits) -> Bounded(Number(s, 10), Mod - 1)
      [] IsHex(s) /\ Digital(From(s, 2), HexDigits) -> Bounded(Number(From(s, 2), 16), Mod - 1)
      [] OTHER -> Refused
WantBool(s) ==
    CASE s \in Truths -> <<TRUE>>
      [] s \in Falsehoods -> <<FALSE>>
      [] Digital(s, Digits) /\ Number(s, 10) < Mod \div 2 -> <<Number(s, 10) # 0>>
      [] IsHex(s) /\ Digital(From(s, 2), HexDigits) /\ Number(From(s, 2), 16) < Mod -> <<Number(From(s, 2), 16) # 0>>
      [] s # <<>> /\ s[1] = "-" /\ Digital(Tail(s), Digits) /\ Number(Tail(s), 10) <= Mod \div 2 ->
            <<Number(Tail(s), 10) # 0>>
      [] OTHER -> Refused
WantPort == IF Want(<<"port">>) = NoValue THEN <<7>> ELSE WantNatural(Want(<<"port">>))
WantAffinity == IF Want(<<"affinity">>) = NoValue THEN <<FALSE>> ELSE WantBool(Want(<<"affinity">>))

=============================================================================
