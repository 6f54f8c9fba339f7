---------------------------- MODULE MCVisitorGate ----------------------------
(***************************************************************************)
(* VisitorGate on small instances.                                         *)
(***************************************************************************)
EXTENDS VisitorGate

\* The row spells its host B.c.
MCHosts == {<<"B", ".", "c">>}

\* b.c as a browser and as anyone may spell it; hosts that begin with it, end with it or
\* hold it elsewhere; no host: blank, null, no scheme, one that is none; an unclosed bracket.
Spelled == {<<"a", ":", "/", "/", "b", ".", "c">>,
            <<" ", "A", ":", "/", "/", "n", "@", "b", ".", "C", ".", ":", "n", "/">>}
Strange == {<<"a", ":", "/", "/", "b", ".", "c", ".", "n">>,
            <<"a", ":", "/", "/", "n", "b", ".", "c">>,
            <<"a", ":", "/", "/", "n", "?", "@", "b", ".", "c">>,
            <<" ">>, <<"N", "u", "l", "l">>, <<"b", ".", "c">>,
            <<"1", ":", "/", "/", "b", ".", "c">>,
            <<"a", ":", "/", "/", "[", "b", ".", "c">>}
MCValues == Spelled \cup Strange

\* Every size and body with a good Origin, and every pair of headers with a good body.
Good == <<"a", ":", "/", "/", "b", ".", "c">>
Evil == <<"a", ":", "/", "/", "b", ".", "c", ".", "n">>
ChecksShapes ==
  {s \in AllShapes :
     \/ s.origin = Good /\ s.referer = Absent
     \/ /\ s.size = 1 /\ s.declared /\ s.body = "query"
        /\ s.origin # Absent => s.referer \in {Absent, Good, Evil}}
BufferShapes == {s \in AllShapes : s.origin \in {Good, Evil} /\ s.referer = Absent}

\* What HostMatching parses is what its reference spells, for short values.
Schemes == SeqOf({"b", "1", ".", "_"}, 2)
Alphabet == {"b", "B", ":", "/", "@", ".", "["}
ASSUME MatchingIsSpelling ==
  LET hosts == {<<"b">>, <<"b", ".", "b">>}
      Agree(origin) == HostAllowed(origin, hosts) <=> \E h \in hosts : SpellsOrigin(origin, h)
  IN  /\ \A scheme \in Schemes : Agree(scheme \o <<":", "/", "/", "b">>)
      /\ \A rest \in SeqOf(Alphabet, 3) :
           /\ Agree(<<"b", ":", "/", "/">> \o rest)
           /\ AuthorityAllowed(rest, hosts) <=> \E h \in hosts : SpellsAuthority(rest, h)
=============================================================================
