------------------------ MODULE MCInternetDownloader ------------------------
(* InternetDownloader for TLC: the actors are model values. *)
EXTENDS InternetDownloader
=============================================================================
