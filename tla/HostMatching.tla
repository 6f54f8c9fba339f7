----------------------------- MODULE HostMatching -----------------------------
(***************************************************************************)
(* core/origins.py: which host an Origin, Referer or Host header names,    *)
(* and whether it is on an allowlist.  A value is a sequence of            *)
(* characters; one that TLA+ has no spelling for is named by its code      *)
(* point.  urlsplit is external and modelled for values over Text.         *)
(***************************************************************************)
EXTENDS Naturals, Sequences, SequencesExt

LowerCase ==
  [A |-> "a", B |-> "b", C |-> "c", D |-> "d", E |-> "e", F |-> "f", G |-> "g",
   H |-> "h", I |-> "i", J |-> "j", K |-> "k", L |-> "l", M |-> "m", N |-> "n",
   O |-> "o", P |-> "p", Q |-> "q", R |-> "r", S |-> "s", T |-> "t", U |-> "u",
   V |-> "v", W |-> "w", X |-> "x", Y |-> "y", Z |-> "z"]

SmallLetters == {LowerCase[c] : c \in DOMAIN LowerCase}
Letters == DOMAIN LowerCase \cup SmallLetters
Digits == {"0", "1", "2", "3", "4", "5", "6", "7", "8", "9"}

\* What str.strip takes off.
Whitespace ==
  {" ", "\t", "\n", "\f", "\r", "U+000B", "U+001C", "U+001D", "U+001E", "U+001F", "U+0085",
   "U+00A0", "U+1680", "U+2000", "U+2001", "U+2002", "U+2003", "U+2004", "U+2005", "U+2006",
   "U+2007", "U+2008", "U+2009", "U+200A", "U+2028", "U+2029", "U+202F", "U+205F", "U+3000"}

\* Printable ASCII but for "]", as bracketed addresses are not modelled, and "%", past which
\* urlsplit keeps the case; and whitespace but for what urlsplit takes out anywhere.
Text ==
  Letters \cup Digits
    \cup {"!", "\"", "#", "$", "&", "'", "(", ")", "*", "+", ",", "-", ".", "/", ":", ";", "<",
          "=", ">", "?", "@", "[", "\\", "^", "_", "U+0060", "{", "|", "}", "~"}
    \cup (Whitespace \ {"\t", "\n", "\r"})

\* str.lower, of Text.
Lower(v) ==
  [i \in DOMAIN v |-> IF v[i] \in DOMAIN LowerCase THEN LowerCase[v[i]] ELSE v[i]]

\* Up to the first character of cs, and after it; all and nothing where there is none.
Before(v, cs) ==
  LET i == SelectInSeq(v, LAMBDA c : c \in cs) IN IF i = 0 THEN v ELSE SubSeq(v, 1, i - 1)
After(v, cs) ==
  LET i == SelectInSeq(v, LAMBDA c : c \in cs) IN IF i = 0 THEN <<>> ELSE SubSeq(v, i + 1, Len(v))

\* v without the characters cs at its end, and without whitespace at both ends.
RStrip(v, cs) == SubSeq(v, 1, SelectLastInSeq(v, LAMBDA c : c \notin cs))
Strip(v) == Reverse(RStrip(Reverse(RStrip(v, Whitespace)), Whitespace))

NamesNothing(v) == Strip(v) = <<>> \/ Lower(Strip(v)) = <<"n", "u", "l", "l">>

-----------------------------------------------------------------------------
(* urlsplit *)

Delimiters == {"/", "?", "#"}
SchemeChars == Letters \cup Digits \cup {"+", "-", "."}

HasScheme(url) ==
  LET scheme == Before(url, {":"}) IN
  /\ scheme \notin {url, <<>>}
  /\ scheme[1] \in Letters /\ \A i \in DOMAIN scheme : scheme[i] \in SchemeChars

Netloc(url) ==
  LET rest == IF HasScheme(url) THEN After(url, {":"}) ELSE url IN
  IF IsPrefix(<<"/", "/">>, rest) THEN Before(SubSeq(rest, 3, Len(rest)), Delimiters) ELSE <<>>

\* ValueError: a bracket that is never closed.
Raises(url) == Contains(Netloc(url), "[")

\* SplitResult.hostname, without user and port.
Hostname(url) ==
  LET at == SelectLastInSeq(Netloc(url), LAMBDA c : c = "@")
  IN  Lower(Before(SubSeq(Netloc(url), at + 1, Len(Netloc(url))), {":"}))

-----------------------------------------------------------------------------
\* The host of a value, as a set: empty where the code returns None or raises.
OriginHost(v) ==
  LET url == Strip(v) IN
  IF NamesNothing(v) \/ ~HasScheme(url) \/ Raises(url) \/ Hostname(url) = <<>>
  THEN {} ELSE {RStrip(Hostname(url), {"."})}

AuthorityHost(v) ==
  LET url == <<"/", "/">> \o Strip(v) IN
  IF NamesNothing(v) \/ Raises(url) \/ Hostname(url) = <<>>
  THEN {} ELSE {RStrip(Hostname(url), {"."})}

OriginRaises(v) == ~NamesNothing(v) /\ Raises(Strip(v))
AuthorityRaises(v) == ~NamesNothing(v) /\ Raises(<<"/", "/">> \o Strip(v))

\* Variants: a substring or a prefix match.
HostContained(v, allowed) ==
  \E h \in allowed, i \in 1 .. Len(v) : IsPrefix(h, SubSeq(Lower(v), i, Len(v)))
AuthorityBegins(v, allowed) == \E h \in allowed : IsPrefix(h, Lower(v))

HostAllowed(v, allowed) == OriginHost(v) \cap allowed # {}
AuthorityAllowed(v, allowed) == AuthorityHost(v) \cap allowed # {}

-----------------------------------------------------------------------------
(* Reference: what it is for a value to spell a host, said without parsing. *)

Only(v, cs) == \A i \in DOMAIN v : v[i] \in cs
None(v, cs) == \A i \in DOMAIN v : v[i] \notin cs

\* [user "@"] h ["."...] [":" port] [path], where h has no user, port or path in it.
Holds(v, h) ==
  \E from, to \in 1 .. Len(v) :
    LET user == SubSeq(v, 1, from - 1)
        rest == SubSeq(v, to + 1, Len(v))
        tail == Before(rest, Delimiters)
    IN  /\ h # <<>> /\ h[Len(h)] # "." /\ Lower(SubSeq(v, from, to)) = h
        /\ None(h, {":", "@"} \cup Delimiters)
        /\ user # <<>> => user[Len(user)] = "@" /\ None(user, Delimiters)
        /\ None(tail, {"@"}) /\ Only(Before(tail, {":"}), {"."})

\* No part of it before the path has a bracket.
SpellsAuthority(v, h) == Holds(v, h) /\ None(Before(v, Delimiters), {"["})

\* [whitespace] scheme "://" authority [whitespace]
SpellsOrigin(v, h) ==
  \E c \in 1 .. Len(Strip(v)) :
    LET scheme == SubSeq(Strip(v), 1, c - 1) IN
    /\ IsPrefix(<<":", "/", "/">>, SubSeq(Strip(v), c, Len(Strip(v))))
    /\ scheme # <<>> /\ scheme[1] \in Letters /\ Only(scheme, SchemeChars)
    /\ SpellsAuthority(SubSeq(Strip(v), c + 3, Len(Strip(v))), h)
=============================================================================
