--------------------------- MODULE MCApacheAccess ---------------------------
(* Requests: an address or a resolved host name, an authenticated user or  *)
(* none, a request line or "-", two statuses, a size or "-", and each      *)
(* header missing, sent empty, or sent with a value (with and without      *)
(* white space).                                                           *)
EXTENDS ApacheAccess

MCRequests ==
  [host : {"10.0.0.1", "client.example.com"}, user : {"-", "alice"},
   request : {"GET / HTTP/1.1", "-"}, status : Digits3, size : {"-", "512"},
   referer : {Absent, "", "http://example.com/"},
   agent : {Absent, "", "curl/7.68.0", "Mozilla/5.0 (X11)"}]

=============================================================================
