---- MODULE MCSrtpStream ----
EXTENDS SrtpStream
====
