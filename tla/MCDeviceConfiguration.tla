------------------------ MODULE MCDeviceConfiguration -----------------------
(* A default server with two versions of its document, one that switches   *)
(* RCS off and one without a version; it names itself, an identity provider*)
(* and another server.                                                     *)
EXTENDS DeviceConfiguration

CONSTANTS IdServer, AppServer

Access(s, id, apps) == [server |-> s, idProvider |-> id, apps |-> apps]
Doc(v, apps, access) == [vers |-> v, token |-> TRUE, apps |-> apps, access |-> access]

MCAdditional == {IdServer, AppServer}

\* The second version has a DEFAULT element with the default server's own name,
\* and names the identity provider last; the first names it for IMS alone.
MCDefaultDocs ==
    { Doc(1, {Ims}, << Access(AppServer, FALSE, {Rcs}), Access(IdServer, TRUE, {Ims}) >>),
      Doc(2, {Ims}, << Access(Default, FALSE, {"ap2001", Ims}),
                       Access(IdServer, TRUE, {Rcs}) >>),
      Doc(-1, {}, <<>>), Doc(None, {}, <<>>) }

\* A server that configures everything, one that is off for good, one that is off.
MCAdditionalDocs ==
    { Doc(1, Apps, <<>>), Doc(-1, {}, <<>>), Doc(0, {}, <<>>) }
=============================================================================
