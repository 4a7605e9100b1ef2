-------------------------------- MODULE Dial --------------------------------
(***************************************************************************)
(* How level4 carries socket addresses through Go's HTTP library           *)
(* (transport/dial.go): a Unix path is turned into something that looks    *)
(* like a host name and turned back when a connection is dialled.          *)
(* Addresses are sequences of characters.                                  *)
(***************************************************************************)
EXTENDS Integers, Sequences, SequencesExt

\* Network(addr) = "unix"
Unix(addr) == addr[1] \in {"/", "."}

\* The addresses for which Encode returns no error, given the alphanumerics.
Encodable(addr, alnum) ==
    IF Unix(addr) THEN \A i \in 1 .. Len(addr) : addr[i] \in alnum \cup {"/", "."}
    ELSE addr[1] # "-"

\* Encode.  The prefix http:// does not reach the dialer and is left out.
Encode(addr) == IF Unix(addr) THEN ReplaceAll(addr, "/", "-") ELSE addr

\* The HTTP library adds the port 80 to a host without one.
WithPort(host) == IF Contains(host, ":") THEN host ELSE host \o <<":", "8", "0">>

\* strings.SplitN(addr, ":", 2)[0]
BeforeColon(addr) ==
    LET IsColon(c) == c = ":"
        i == SelectInSeq(addr, IsColon)
    IN  IF i = 0 THEN addr ELSE SubSeq(addr, 1, i - 1)

Decode(addr) ==
    IF addr[1] \in {"-", "."} THEN ReplaceAll(BeforeColon(addr), "-", "/") ELSE addr

\* The address that UnixDialer dials to reach a node listening on addr.
Dialled(addr) == Decode(WithPort(Encode(addr)))
=============================================================================
