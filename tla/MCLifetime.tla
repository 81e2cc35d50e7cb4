----------------------------- MODULE MCLifetime -----------------------------
(***************************************************************************)
(* Lifetime with two test threads and two programs, on a complete          *)
(* installation, on ones without the video source or without the sink, and *)
(* on one without the window.                                              *)
(***************************************************************************)
EXTENDS Lifetime

MCParts == {"v4l2src", "capsfilter", "glupload", "glcolorconvert", "gldownload", "qmlglsink"}

MCHosts ==
  [window : {TRUE}, plugins : {MCParts, MCParts \ {"v4l2src"}, MCParts \ {"qmlglsink"}}]
    \cup [window : {FALSE}, plugins : {MCParts}]
=============================================================================
