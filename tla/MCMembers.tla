----------------------------- MODULE MCMembers -----------------------------
(***************************************************************************)
(* Instances of Members for TLC.  Connections, each with its account, are  *)
(* interchangeable where all names are registered.                         *)
(***************************************************************************)
EXTENDS Members

Owner(flags) == [level |-> Founder, auto |-> flags, strips |-> FALSE, kicks |-> FALSE]
Banned       == [level |-> Akick, auto |-> {}, strips |-> FALSE, kicks |-> TRUE]

\* Who is a member, with bans, SASL and the link that breaks; and who has which status.
Membership == [accesses |-> {Owner({}), Banned}, options |-> {{}, {"AXXFLAGS"}},
               features |-> {"relink", "sasl"}, sent |-> 2]
Modes == [accesses |-> {Owner({"o"})}, options |-> {{"STRICTOP", "PROTECTOPS", "AOP"}},
          features |-> {"modes"}, sent |-> 1]

MCSettings == {Membership, Modes}
=============================================================================
