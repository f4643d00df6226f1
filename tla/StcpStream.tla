----------------------------- MODULE StcpStream -----------------------------
(***************************************************************************)
(* STCP seen as a ByteStream from the client's application to the          *)
(* server's.                                                               *)
(***************************************************************************)
EXTENDS Stcp

(* Once the FIN has come RecvBase stands one further. *)
FinReceived == connection_state["server"] \in {"CLOSE_WAIT", "LAST_ACK", "CLOSED"}

DeliveredBytes == IF Handshaking("server") THEN 0
                  ELSE RecvBase["server"] - 1 - (IF FinReceived THEN 1 ELSE 0)

(* The position an end-of-file node carries means nothing. *)
ReadyChunks == [i \in 1 .. Len(app_send_queue["server"]) |->
                   IF app_send_queue["server"][i].len = 0 THEN EofNode(0)
                                                          ELSE app_send_queue["server"][i]]

ToServer == INSTANCE ByteStream WITH
    written <- bytes_written["client"],
    closed <- app["client"] # "open",
    delivered <- DeliveredBytes,
    ready <- ReadyChunks,
    read <- bytes_read["server"],
    eof <- eof["server"],
    abandoned <- app["server"] = "closed"

(* Reliable sockets: whatever the window, the interleaving of the threads  *)
(* and the order of the two closes, every step of the two endpoints is a   *)
(* step of the byte stream from client to server or none at all.  Data     *)
(* reaches the server's queue only as the next bytes of the stream, and    *)
(* end of file only after the last of them.                                *)
ServerStreamImplemented == ToServer!Spec

(* When the client's application closes, the end of the stream reaches the *)
(* server, behind all of the client's data, unless a process dies.         *)
ClientCloseArrives ==
    (app["client"] # "open") ~> (FinReceived \/ \E e \in Endpoint : ~Alive(e))
=============================================================================
