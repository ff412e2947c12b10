---- MODULE MCEditHistory ----
EXTENDS EditHistory
====
