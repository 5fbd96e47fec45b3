---------------------------- MODULE MCArguments -----------------------------
(* Lines of up to three words for every builtin, made of its own options and a *)
(* few words that any of them might be given. *)
EXTENDS Arguments

Dash(c) == <<"-", c>>
Long(l) == <<"-", "-", l>>

General == {<<"x">>, <<"-">>, <<"-", "-">>, Dash("x"), Long("hel"), Long("help"), Dash("h")}

Own(c) ==
  CASE c = "rm" -> {<<"-", "r", "f">>, Dash("r"), Long("rec"), <<"-", "f", "-">>}
    [] c \in {"head", "tail"} -> {Dash("n"), <<"-", "n", "3">>, <<"-", "-", "lines", "=", "3">>, <<"3">>,
                        Long("lines"), <<"-", "-", "lin", "=">>}
    [] c = "kill" -> {<<"3">>, Dash("s"), Long("signal"), Dash("3")}
    [] c = "rpc" -> {Dash("p"), <<"3">>, <<"-", "r", "3">>, <<"-", "-", "host", "=", "x">>}
    [] c \in {"cp", "mv"} -> {<<"y">>, Dash("v")}
    [] c = "ls" -> {<<"-", "l", "a">>, <<"-", "l", "-">>, Long("json")}
    [] c = "echo" -> {<<"-", "n", "e">>, <<"y">>, Dash("e")}
    [] OTHER -> {<<"y">>, <<"-", "-", "json", "=", "3">>, Long("js"), Dash("p")}

\* Three words where an option has a value or operands and options mix.
MaxWords(c) == IF c \in {"rm", "head", "kill", "rpc", "ls"} THEN 3 ELSE 2

MCInputs ==
  UNION {[cmd : {c}, argv : UNION {[1..n -> General \cup Own(c)] : n \in 0..MaxWords(c)}] : c \in Commands}
    \cup {[cmd |-> "rm", argv |-> <<<<"x">>, <<"y">>, Dash("r"), <<"z">>, <<"-", "f", "v">>, <<"3">>, Dash("h")>>],
          [cmd |-> "cp", argv |-> <<<<"x">>, <<"y">>, Dash("r"), Dash("v"), Long("json")>>],
          [cmd |-> "cp", argv |-> <<<<"x">>, <<"y">>, Dash("r"), Dash("v")>>]}

MCChars == UNION {Range(w) : w \in UNION {Range(i.argv) : i \in MCInputs}}
MCAbbreviations == {<<"hel", "help">>, <<"hel", "help-json">>, <<"help", "help-json">>,
                    <<"rec", "recursive">>, <<"lin", "lines">>, <<"js", "json">>}
MCNumbers == {<<"3">>}
=============================================================================
