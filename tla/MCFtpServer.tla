---------------------------- MODULE MCFtpServer ----------------------------
(* Two clients, a file that is there and a name that is free.              *)
EXTENDS FtpServer, TLC

MCInitial == ("f" :> 1 @@ "g" :> NoFile)
=============================================================================
