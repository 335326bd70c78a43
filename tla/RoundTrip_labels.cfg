SPECIFICATION Spec
CONSTANTS
  Word <- MCWord
  Input <- PlainText
  MaxIssues = 1
PROPERTY AddedKeepsTitle
