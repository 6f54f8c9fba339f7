------------------------------ MODULE MCMcpDoor ------------------------------
(***************************************************************************)
(* McpDoor on small instances.                                             *)
(***************************************************************************)
EXTENDS McpDoor

MCHosts == {<<"A", ".", "b">>}
MCOrigins == {<<"c", ":", "/", "/", "A", ".", "n">>}

\* A listed host with a port and a listed origin, with and without a user.
Host == <<"a", ".", "B", ":", "n">>
Origin == <<"c", ":", "/", "/", "a", ".", "n">>
User == <<"c", ":", "/", "/", "b", "@", "a", ".", "n">>

\* A host that begins with a listed one; an origin whose host ends in one, and one that
\* has it as its user.
HostBegins == <<"a", ".", "b", "c">>
OriginEnds == <<"c", ":", "/", "/", "b", "a", ".", "n">>
OriginUser == <<"c", ":", "/", "/", "a", ".", "n", "@", "b">>

CallClients == {[host |-> Host, origin |-> User], [host |-> HostBegins, origin |-> Absent],
                [host |-> Host, origin |-> OriginEnds]}

\* Every header is UTF-8; one each that urlsplit refuses.
EnvelopeClients ==
  [host : {Host, HostBegins, <<"[", "a">>, <<>>, Absent},
   origin : {Origin, OriginUser, <<"c", ":", "/", "/", "[", "a">>, <<"n", "U", "l", "l">>, Absent}]
=============================================================================
