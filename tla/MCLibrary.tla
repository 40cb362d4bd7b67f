------------------------------ MODULE MCLibrary ------------------------------
(***************************************************************************)
(* Lists, and the menus of SPETerminal: the main, network, SSH and status   *)
(* menus, with the kinds of rows they have and fewer fields.                *)
(***************************************************************************)
EXTENDS Library, TLC

CONSTANTS network, ssh, status

Of(kind, S) == [c \in S |-> kind]

SPETerminal ==
    [root |-> Main :> "m" @@ network :> "n" @@ ssh :> "s" @@ status :> "t",
     kids |-> "m" :> <<"heading", "openNet", "openSsh", "openStatus", "leave">>
           @@ "n" :> <<"nHead", "dhcp", "static", "ip", "host", "nCol">> @@ "nCol" :> <<"nSave", "nDiscard">>
           @@ "s" :> <<"disable", "enable", "port", "sCol">> @@ "sCol" :> <<"sSave", "sDiscard">>
           @@ "t" :> <<"tHead", "tCol">> @@ "tCol" :> <<"ok">>,
     kind |-> Of("row", {"m", "n", "s", "t"}) @@ Of("column", {"nCol", "sCol", "tCol"})
           @@ Of("label", {"heading", "nHead", "tHead"})
           @@ Of("radio", {"dhcp", "static", "disable", "enable"})
           @@ "ip" :> "digits" @@ "host" :> "text" @@ "port" :> "digits"
           @@ Of("button", {"openNet", "openSsh", "openStatus", "leave",
                            "nSave", "nDiscard", "sSave", "sDiscard", "ok"}),
     opens |-> "openNet" :> network @@ "openSsh" :> ssh @@ "openStatus" :> status @@ "leave" :> Quit
            @@ Of(Main, {"nSave", "nDiscard", "sSave", "sDiscard", "ok"})]

TheMenus == {Main, network, ssh, status}
TheRoot == SPETerminal.root
TheKids == SPETerminal.kids
TheKind == SPETerminal.kind
TheOpens == SPETerminal.opens
TheCleared == {Main, network}
=============================================================================
