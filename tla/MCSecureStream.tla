--------------------------- MODULE MCSecureStream ---------------------------
EXTENDS SecureStream

\* The properties say nothing of what follows once writes have overlapped.
UpToOverlap == ~overlapped
=============================================================================
