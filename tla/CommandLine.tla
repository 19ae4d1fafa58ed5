---------------------------- MODULE CommandLine ----------------------------
(***************************************************************************)
(* The kernel command line on its way to U-Boot: runKernel.py escapes it,  *)
(* tplCommand of pyamlboot.py limits its length, and the hush shell of     *)
(* U-Boot, as runKernel.py describes it, takes it apart again.  A text is  *)
(* a sequence of characters.                                               *)
(***************************************************************************)
EXTENDS Integers, Sequences

CONSTANTS
    CommandLimit,   \* 128: length of a command with its NUL
    PrefixLength    \* of "setenv bootargs "

ASSUME LimitAssumption == CommandLimit \in Nat /\ PrefixLength \in Nat

Quote == "'"
Slash == "\\"

\* str.replace of one character.
Replace(text, c, by) ==
    LET upTo[n \in 0 .. Len(text)] ==
          IF n = 0 THEN <<>>
          ELSE upTo[n - 1] \o (IF text[n] = c THEN by ELSE <<text[n]>>)
    IN  upTo[Len(text)]

\* Mutant of Escape: the quotes are escaped first.
EscapeQuotesFirst(text) ==
    <<Quote>> \o Replace(Replace(text, Quote, <<Quote, Slash, Quote, Quote>>), Slash, <<Slash, Slash>>)
      \o <<Quote>>

Escape(text) ==
    <<Quote>> \o Replace(Replace(text, Slash, <<Slash, Slash>>), Quote, <<Quote, Slash, Quote, Quote>>)
      \o <<Quote>>

\* tplCommand raises ValueError.
TooLong(text) == PrefixLength + Len(text) + 1 >= CommandLimit

\* Hush: a backslash goes everywhere, unless it is the second of two; outside
\* of quotes it takes the meaning of the next character with it.
HushStep(state, c) ==
    IF state.slash /\ (c = Slash \/ ~state.quoted)
    THEN [state EXCEPT !.slash = FALSE, !.out = Append(@, c)]
    ELSE IF c = Slash THEN [state EXCEPT !.slash = TRUE]
    ELSE IF c = Quote THEN [state EXCEPT !.slash = FALSE, !.quoted = ~@]
    ELSE [state EXCEPT !.slash = FALSE, !.out = Append(@, c)]

Hush(text) ==
    LET after[n \in 0 .. Len(text)] ==
          IF n = 0 THEN [slash |-> FALSE, quoted |-> FALSE, out |-> <<>>]
          ELSE HushStep(after[n - 1], text[n])
    IN  after[Len(text)]
=============================================================================
