--------------------------- MODULE MCUploadRoutes ---------------------------
(* UploadRoutes, and the session manager under it, with two uploads, one   *)
(* other request and two event streams.                                    *)
EXTENDS UploadRoutes
=============================================================================
